-------------------------- MODULE FatxFuse_proofs ---------------------------
(***************************************************************************)
(* What programs are told of a mounted volume, for every tree of entries,  *)
(* any number of programs and whatever they ask for: inodes, listings in   *)
(* pages, pieces of files and time stamps.                                 *)
(***************************************************************************)
EXTENDS FatxFuse, CommonFacts

\* The powers of two that fields are taken out with.
LEMMA Powers == /\ 2^0 = 1 /\ 2^4 = 16 /\ 2^5 = 32 /\ 2^7 = 128
                /\ 2^9 = 512 /\ 2^11 = 2048
  OBVIOUS

\* The fields of a date word, packed without overlap, come apart again.
LEMMA DateFields ==
  ASSUME NEW y \in 0 .. 127, NEW m \in 1 .. 12, NEW d \in 1 .. 31
  PROVE  LET word == y * 512 + m * 32 + d
         IN /\ (word \div 512) % 128 = y
            /\ (word \div 32) % 16 = m
            /\ (word \div 1) % 32 = d
  OBVIOUS

\* So do those of a time word, but for the highest bit of the minute.
LEMMA TimeFields ==
  ASSUME NEW h \in 0 .. 23, NEW m \in 0 .. 59, NEW s \in 0 .. 29
  PROVE  LET word == h * 2048 + m * 32 + s
         IN /\ (word \div 2048) % 32 = h
            /\ (word \div 32) % 32 = m % 32
            /\ (word \div 1) % 32 = s
  OBVIOUS

\* A date that the calendar has is read back.
LEMMA DateReadBack ==
  ASSUME NEW date \in Dates
  PROVE  DecodeDate(DateWord(date)) = date
<1>1. /\ date.year - 2000 \in 0 .. 127 /\ date.month \in 1 .. 12 /\ date.day \in 1 .. 31
      /\ date = [year |-> date.year, month |-> date.month, day |-> date.day]
  BY DEF Dates
<1>2. /\ Bits(DateWord(date), 9, 7) = date.year - 2000
      /\ Bits(DateWord(date), 5, 4) = date.month
      /\ Bits(DateWord(date), 0, 5) = date.day
  <2> DEFINE y == date.year - 2000
             m == date.month
             d == date.day
             word == y * 512 + m * 32 + d
  <2>1. (word \div 512) % 128 = y /\ (word \div 32) % 16 = m /\ (word \div 1) % 32 = d
    <3>1. y \in 0 .. 127 /\ m \in 1 .. 12 /\ d \in 1 .. 31
      BY <1>1
    <3> HIDE DEF y, m, d
    <3> QED BY <3>1, DateFields
  <2>2. DateWord(date) = word
    BY DEF DateWord
  <2> HIDE DEF word
  <2> QED BY <2>1, <2>2, Powers DEF Bits
<1> QED BY <1>1, <1>2 DEF DecodeDate

\* So is a time of the clock, its minute less 32 from 32 on.
LEMMA TimeReadBack ==
  ASSUME NEW time \in Times
  PROVE  DecodeTime(TimeWord(time)) = [time EXCEPT !.minute = @ % 32]
<1> DEFINE half == time.second \div 2
<1>1. /\ time.hour \in 0 .. 23 /\ time.minute \in 0 .. 59
      /\ time.second \in 0 .. 58 /\ time.second % 2 = 0
      /\ time = [hour |-> time.hour, minute |-> time.minute, second |-> time.second]
  BY DEF Times
<1>2. half \in 0 .. 29 /\ 2 * half = time.second
  BY <1>1
<1>3. /\ Bits(TimeWord(time), 11, 5) = time.hour
      /\ Bits(TimeWord(time), 5, 5) = time.minute % 32
      /\ Bits(TimeWord(time), 0, 5) = half
  <2> DEFINE h == time.hour
             m == time.minute
             word == h * 2048 + m * 32 + half
  <2>1. (word \div 2048) % 32 = h /\ (word \div 32) % 32 = m % 32 /\ (word \div 1) % 32 = half
    <3>1. h \in 0 .. 23 /\ m \in 0 .. 59 /\ half \in 0 .. 29
      BY <1>1, <1>2
    <3> HIDE DEF h, m, half
    <3> QED BY <3>1, TimeFields
  <2>2. TimeWord(time) = word
    BY DEF TimeWord
  <2> HIDE DEF word
  <2> QED BY <2>1, <2>2, Powers DEF Bits
<1>4. DecodeTime(TimeWord(time))
        = [hour |-> time.hour, minute |-> time.minute % 32, second |-> time.second]
  BY <1>2, <1>3 DEF DecodeTime, Hour
<1> QED BY <1>1, <1>4

\* Both are accepted by the calendar and the clock, so the fallback is not taken.
LEMMA StampsAlwaysSurvive == StampsSurvive
<1> SUFFICES ASSUME NEW m \in Moments
             PROVE  SystemTime(Words(m)[1], Words(m)[2]) = Kept(m)
  BY DEF StampsSurvive
<1> DEFINE left == [m.time EXCEPT !.minute = @ % 32]
<1>1. m.date \in Dates /\ m.time \in Times
  BY MomentsAssumption
<1>2. DecodeDate(DateWord(m.date)) = m.date /\ DecodeTime(TimeWord(m.time)) = left
  BY <1>1, DateReadBack, TimeReadBack
<1>3. IsDate(m.date)
  BY <1>1 DEF Dates
<1>4. IsTime(left)
  BY <1>1 DEF Times, IsTime
<1> QED BY <1>2, <1>3, <1>4 DEF SystemTime, Words, Kept

-----------------------------------------------------------------------------
(* The tracker. *)

Paths == AbsolutePaths(Names)

Trackers ==
  {t \in [pairs : SUBSET (Nat \X Paths), next : Nat \ {0}] :
    /\ \A p \in t.pairs : p[1] \in 1 .. t.next - 1
    /\ \A p, q \in t.pairs : p[1] = q[1] <=> p[2] = q[2]}

HasInode(t, path) == \E ino \in Nat : <<ino, path>> \in t.pairs

\* A new inode displaces none: its number and its path are both new.
LEMMA Created ==
  ASSUME NEW t \in Trackers, NEW path \in Paths
  PROVE  /\ GetOrCreate(t, path) \in Trackers
         /\ t.pairs \subseteq GetOrCreate(t, path).pairs
         /\ HasInode(GetOrCreate(t, path), path)
<1>1. CASE \E p \in t.pairs : p[2] = path
  <2>1. PICK p \in t.pairs : p[2] = path
    BY <1>1
  <2>2. p = <<p[1], path>> /\ p[1] \in Nat
    BY <2>1 DEF Trackers
  <2>3. GetOrCreate(t, path) = t
    BY <1>1 DEF GetOrCreate
  <2> QED BY <2>1, <2>2, <2>3 DEF HasInode, Trackers
<1>2. CASE ~ \E p \in t.pairs : p[2] = path
  <2> DEFINE more == t.pairs \cup {<<t.next, path>>}
  <2>1. t.next \in Nat \ {0} /\ \A p \in t.pairs : p[1] \in 1 .. t.next - 1 /\ p[2] # path
    BY <1>2 DEF Trackers
  <2>2. Insert(t.pairs, t.next, path) = more
    <3>1. {p \in t.pairs : p[1] # t.next /\ p[2] # path} = t.pairs
      BY <2>1
    <3> QED BY <3>1 DEF Insert
  <2>3. GetOrCreate(t, path) = [pairs |-> more, next |-> t.next + 1]
    BY <1>2, <2>2 DEF GetOrCreate
  <2>4. more \in SUBSET (Nat \X Paths) /\ t.next + 1 \in Nat \ {0}
    BY <2>1 DEF Trackers
  <2>5. \A p \in more : p[1] \in 1 .. (t.next + 1) - 1
    BY <2>1
  <2>6. \A p, q \in more : p[1] = q[1] <=> p[2] = q[2]
    BY <2>1 DEF Trackers
  <2>7. [pairs |-> more, next |-> t.next + 1] \in Trackers
    BY <2>4, <2>5, <2>6 DEF Trackers
  <2>8. <<t.next, path>> \in more
    OBVIOUS
  <2> HIDE DEF more
  <2> QED BY <2>1, <2>3, <2>7, <2>8 DEF HasInode, more
<1> QED BY <1>1, <1>2

\* The inode found for a path is the one of its pair.
LEMMA InodeIsUnique ==
  ASSUME NEW t \in Trackers, NEW path, HasInode(t, path)
  PROVE  <<InodeIn(t, path), path>> \in t.pairs /\ InodeIn(t, path) \in Nat
<1> DEFINE pair == CHOOSE p \in t.pairs : p[2] = path
<1>1. \E p \in t.pairs : p[2] = path
  BY DEF HasInode
<1>2. pair \in t.pairs /\ pair[2] = path
  BY <1>1
<1>3. pair \in Nat \X Paths
  BY <1>2 DEF Trackers
<1>4. InodeIn(t, path) = pair[1]
  BY DEF InodeIn
<1> HIDE DEF pair
<1> QED BY <1>2, <1>3, <1>4

\* The parent of a path is a path.
LEMMA ParentTyped ==
  ASSUME NEW path \in Paths PROVE Parent(path) \in Paths
<1>1. CASE path = <<Root>>
  BY <1>1 DEF Parent
<1>2. CASE path # <<Root>>
  BY <1>2, ParentAndName DEF Parent, Paths
<1> QED BY <1>1, <1>2

\* A listing creates the inodes that it tells of, and displaces none.
LEMMA TrackedTyped ==
  ASSUME Tracker \in Trackers, NEW path \in Paths, NEW entries \in Seq(Entry)
  PROVE  LET t == Tracked(path, entries)
         IN /\ t \in Trackers
            /\ bimap \subseteq t.pairs
            /\ HasInode(t, Parent(path))
            /\ \A i \in 1 .. Len(entries) : HasInode(t, Append(path, entries[i].name))
<1> DEFINE n == Len(entries)
           first == GetOrCreate(Tracker, Parent(path))
           Rec(g) == [i \in 0 .. n |-> IF i = 0 THEN first
                        ELSE GetOrCreate(g[i - 1], Append(path, entries[i].name))]
           go == [i \in Nat |-> [t \in Trackers |->
                    IF i \in 1 .. n THEN GetOrCreate(t, Append(path, entries[i].name)) ELSE t]]
           after == CHOOSE g : g = Rec(g)
<1>1. n \in Nat /\ \A i \in 1 .. n : Append(path, entries[i].name) \in Paths
  <2>1. \A i \in 1 .. n : entries[i] \in Entry
    BY ElementOfSeq
  <2>2. \A i \in 1 .. n : entries[i].name \in Names
    BY <2>1 DEF Entry
  <2> QED BY <2>2, LenProperties, LongerPath DEF Paths
<1>2. first \in Trackers /\ bimap \subseteq first.pairs /\ HasInode(first, Parent(path))
  BY Created, ParentTyped DEF Tracker
<1>3. go \in [Nat -> [Trackers -> Trackers]]
  <2> HIDE DEF n
  <2> QED BY <1>1, Created
<1>4. PICK f : f \in Runs(Trackers, first, n, go)
  <2>1. Runs(Trackers, first, n, go) # {}
    <3> HIDE DEF n, first, go
    <3> QED BY <1>1, <1>2, <1>3, Iterates
  <2> QED BY <2>1
<1>5. /\ f \in [0 .. n -> Trackers] /\ f[0] = first
      /\ \A i \in 1 .. n : f[i] = go[i][f[i - 1]]
  <2> HIDE DEF n, go, first
  <2> QED BY <1>4 DEF Runs
<1>6. ASSUME NEW i \in 0 .. n
      PROVE  f[i] = IF i = 0 THEN first ELSE GetOrCreate(f[i - 1], Append(path, entries[i].name))
  <2>1. CASE i = 0
    <3> HIDE DEF n, go, first
    <3> QED BY <1>5, <2>1
  <2>2. CASE i # 0
    <3>1. i \in 1 .. n /\ i \in Nat /\ f[i - 1] \in Trackers
      <4> HIDE DEF n, go, first
      <4> QED BY <1>1, <1>5, <2>2
    <3>2. go[i][f[i - 1]] = GetOrCreate(f[i - 1], Append(path, entries[i].name))
      <4> HIDE DEF n, first
      <4> QED BY <3>1
    <3> HIDE DEF go, n, first
    <3> QED BY <1>5, <2>2, <3>1, <3>2
  <2> QED BY <2>1, <2>2
<1>7. f = Rec(f)
  <2> HIDE DEF n, first
  <2>1. f = [i \in 0 .. n |-> f[i]]
    BY <1>5
  <2> QED BY <1>6, <2>1, Zenon
<1>8. after = Rec(after)
  <2> HIDE DEF Rec
  <2> QED BY <1>7
<1>9. Tracked(path, entries) = after[n]
  BY DEF Tracked
<1> HIDE DEF after
<1>10. /\ after[0] = first
       /\ \A i \in 1 .. n : after[i] = GetOrCreate(after[i - 1], Append(path, entries[i].name))
  <2>1. \A i \in 0 .. n : after[i] = Rec(after)[i]
    <3> HIDE DEF Rec
    <3> QED BY <1>8
  <2> HIDE DEF n, first
  <2>2. \A i \in 0 .. n : Rec(after)[i] =
          IF i = 0 THEN first ELSE GetOrCreate(after[i - 1], Append(path, entries[i].name))
    OBVIOUS
  <2>3. 0 \in 0 .. n /\ \A i \in 1 .. n : i \in 0 .. n /\ i # 0
    BY <1>1
  <2> HIDE DEF Rec
  <2> QED BY <2>1, <2>2, <2>3
<1> DEFINE P == {i \in 0 .. n :
                  /\ after[i] \in Trackers /\ first.pairs \subseteq after[i].pairs
                  /\ \A k \in 1 .. i : HasInode(after[i], Append(path, entries[k].name))}
<1> HIDE DEF n, first
<1>11. 0 \in P
  BY <1>1, <1>2, <1>10
<1>12. ASSUME NEW i \in 0 .. n - 1, i \in P PROVE i + 1 \in P
  <2> DEFINE t == after[i]
             u == after[i + 1]
             added == Append(path, entries[i + 1].name)
  <2>1. i + 1 \in 1 .. n /\ i + 1 \in 0 .. n /\ (i + 1) - 1 = i /\ i \in Nat
    BY <1>1
  <2>2. u = GetOrCreate(t, added) /\ added \in Paths
    BY <1>1, <1>10, <2>1
  <2>3. /\ t \in Trackers /\ first.pairs \subseteq t.pairs
        /\ \A k \in 1 .. i : HasInode(t, Append(path, entries[k].name))
    BY <1>12
  <2> HIDE DEF t, u, added
  <2>4. u \in Trackers /\ t.pairs \subseteq u.pairs /\ HasInode(u, added)
    BY <2>2, <2>3, Created
  <2>5. ASSUME NEW k \in 1 .. i + 1 PROVE HasInode(u, Append(path, entries[k].name))
    <3>1. CASE k = i + 1
      BY <2>4, <3>1 DEF added
    <3>2. CASE k # i + 1
      <4>1. k \in 1 .. i
        BY <2>1, <3>2
      <4> QED BY <2>3, <2>4, <4>1 DEF HasInode
    <3> QED BY <3>1, <3>2
  <2> QED BY <2>1, <2>3, <2>4, <2>5 DEF u
<1>13. n \in P
  <2>1. \A i \in 0 .. n : i \in P
    <3> HIDE DEF P
    <3> QED BY <1>1, <1>11, <1>12, UpTo
  <2> QED BY <1>1, <2>1
<1> QED BY <1>2, <1>9, <1>13 DEF HasInode, n

-----------------------------------------------------------------------------
(* The volume. *)

Good == {e \in Entry : e.kind = "file" => Content[e.first] \in Seq(Nat)}

IsDirAt(t, p) == Resolve(t, p).kind = "entry" /\ Resolve(t, p).entry.kind = "dir"
IsFileAt(t, p) == Resolve(t, p).kind = "entry" /\ Resolve(t, p).entry.kind = "file"
Listing(t, p) == ShownIn(t, Resolve(t, p).entry.first)

\* The trees are those that the facts about DirAnswers are about.
LEMMA TreeLeadsOn ==
  ASSUME NEW t \in Trees PROVE LeadsOn(t, Good) /\ AreNames(Names)
<1>1. AreNames(Names)
  BY FuseAssumption DEF AreNames
<1>2. IsTree(t)
  BY FuseAssumption
<1>3. ASSUME NEW d \in DOMAIN t.dirs PROVE t.dirs[d].entries \in Seq(Good)
  <2> DEFINE entries == t.dirs[d].entries
  <2>1. entries \in Seq(Entry)
    BY <1>2 DEF IsTree
  <2>2. /\ Len(entries) \in Nat /\ DOMAIN entries = 1 .. Len(entries)
        /\ entries = [i \in 1 .. Len(entries) |-> entries[i]]
    BY <2>1, LenProperties
  <2>3. \A i \in 1 .. Len(entries) : entries[i] \in Good
    BY <1>2, <2>1, <2>2, ElementOfSeq DEF IsTree, Good
  <2> HIDE DEF entries
  <2>4. entries \in Seq(Good)
    BY <2>2, <2>3
  <2> QED BY <2>4 DEF entries
<1> QED BY <1>1, <1>2, <1>3 DEF LeadsOn, IsTree

\* What a path may lead to.
LEMMA AtPath ==
  ASSUME NEW t \in Trees, NEW p \in Paths
  PROVE  /\ Resolve(t, p).kind \in {"error", "entry"}
         /\ IsDirAt(t, p) => Resolve(t, p).entry.first \in DOMAIN t.dirs
         /\ IsFileAt(t, p) => Content[Resolve(t, p).entry.first] \in Seq(Nat)
<1>1. Resolve(t, p) \in Outcome(t, Good)
  BY TreeLeadsOn, ResolveTyped DEF Paths
<1> QED BY <1>1 DEF Outcome, Error, Found, IsDirAt, IsFileAt, RootEntry, Good

\* The answers, from where the path leads.
LEMMA Answers ==
  ASSUME NEW t \in Trees, NEW p \in Paths
  PROVE  /\ Answer(t, [op |-> "stat", path |-> p]) = Resolve(t, p)
         /\ Answer(t, [op |-> "list", path |-> p]).kind = "list" => IsDirAt(t, p)
         /\ IsDirAt(t, p) => Answer(t, [op |-> "list", path |-> p]) = Listed(Listing(t, p))
         /\ Answer(t, [op |-> "open", path |-> p]).kind = "entry" =>
              IsFileAt(t, p) /\ Answer(t, [op |-> "open", path |-> p]) = Resolve(t, p)
<1> DEFINE found == Resolve(t, p)
<1>1. found.kind \in {"error", "entry"}
  BY AtPath
<1>2. Answer(t, [op |-> "stat", path |-> p]) = found
  BY DEF Answer
<1>3. Answer(t, [op |-> "list", path |-> p]) =
        IF found.kind = "error" THEN found
        ELSE IF found.entry.kind = "dir" THEN Listed(Listing(t, p)) ELSE Error("NotADirectory")
  BY DEF Answer, Listing
<1>4. Answer(t, [op |-> "open", path |-> p]) =
        IF found.kind = "error" THEN found
        ELSE IF found.entry.kind = "file" THEN found ELSE Error("IsADirectory")
  BY DEF Answer
<1> QED BY <1>1, <1>2, <1>3, <1>4 DEF IsDirAt, IsFileAt, Error

\* A listing has entries with names, each a file or a directory.
LEMMA ListingTyped ==
  ASSUME NEW t \in Trees, NEW p \in Paths, IsDirAt(t, p)
  PROVE  /\ Listing(t, p) \in Seq(Entry)
         /\ \A i \in 1 .. Len(Listing(t, p)) :
              Listing(t, p)[i].name \in Names /\ Listing(t, p)[i].kind \in Kinds
<1> DEFINE d == Resolve(t, p).entry.first
           S == {e \in ToSet(t.dirs[d].entries) : e.kind \in {"file", "dir"}}
<1>1. LeadsOn(t, Good) /\ d \in DOMAIN t.dirs
  BY TreeLeadsOn, AtPath
<1>2. Listing(t, p) \in Seq(S)
  <2> HIDE DEF d
  <2> QED BY <1>1, ShownTyped DEF Listing, d
<1>3. S \subseteq Entry /\ \A e \in S : e.name \in Names /\ e.kind \in Kinds
  <2>1. \A e \in ToSet(t.dirs[d].entries) : e \in Entry
    <3> DEFINE entries == t.dirs[d].entries
    <3>1. entries \in Seq(Good)
      BY <1>1 DEF LeadsOn
    <3>2. \A i \in DOMAIN entries : entries[i] \in Entry
      <4> HIDE DEF entries
      <4> QED BY <3>1, ElementOfSeq, LenProperties DEF Good
    <3> QED BY <3>2 DEF ToSet
  <2> QED BY <2>1 DEF Entry, Kinds
<1>4. \A i \in 1 .. Len(Listing(t, p)) : Listing(t, p)[i] \in S
  <2> HIDE DEF S
  <2> QED BY <1>2, ElementOfSeq
<1> HIDE DEF S
<1> QED BY <1>2, <1>3, <1>4, SeqMonotonic

\* Where names are distinct, an entry of a listing is the one its name leads to.
LEMMA ListingTrue ==
  ASSUME NamesDistinct, NEW t \in Trees, NEW p \in Paths, IsDirAt(t, p),
         NEW i \in 1 .. Len(Listing(t, p))
  PROVE  Resolve(t, Append(p, Listing(t, p)[i].name)) = Found(Listing(t, p)[i])
<1> DEFINE d == Resolve(t, p).entry.first
           e == Listing(t, p)[i]
           S == {x \in ToSet(t.dirs[d].entries) : x.kind \in {"file", "dir"}}
<1>1. LeadsOn(t, Good) /\ AreNames(Names) /\ d \in DOMAIN t.dirs /\ e.name \in Names
  BY TreeLeadsOn, AtPath, ListingTyped
<1>2. Listing(t, p) \in Seq(S)
  <2> HIDE DEF d, e
  <2> QED BY <1>1, ShownTyped DEF Listing, d
<1>3. e \in ToSet(t.dirs[d].entries)
  <2>1. e \in S
    <3> HIDE DEF S
    <3> QED BY <1>2, ElementOfSeq
  <2> QED BY <2>1
<1> HIDE DEF d, e
<1>4. Child(t, d, e.name) = Found(e)
  BY <1>1, <1>3, ListedIsFound DEF NamesDistinct
<1>5. Resolve(t, Append(p, e.name)) = Follow(t, Resolve(t, p), e.name)
  BY <1>1, ResolveOn DEF Paths
<1>6. Follow(t, Resolve(t, p), e.name) = Child(t, d, e.name)
  BY DEF Follow, IsDirAt, d
<1> QED BY <1>4, <1>5, <1>6 DEF e

-----------------------------------------------------------------------------
(* The lines of a listing. *)

NameKind == [name : Names \cup {Here, Up}, kind : Kinds]
LineSet == [ino : Nat, kind : Kinds, name : Names \cup {Here, Up}]

Bare(line) == [name |-> line.name, kind |-> line.kind]
Dots == <<[name |-> Here, kind |-> "dir"], [name |-> Up, kind |-> "dir"]>>
ShownAt(t, p) ==
  Dots \o [i \in DOMAIN Listing(t, p) |->
             [name |-> Listing(t, p)[i].name, kind |-> Listing(t, p)[i].kind]]

\* What a directory shows: the two that FUSE adds, and the entries.
LEMMA ShownParts ==
  ASSUME NEW t \in Trees, NEW p \in Paths, IsDirAt(t, p)
  PROVE  LET listing == Listing(t, p)
         IN /\ ShownAt(t, p) \in Seq(NameKind) /\ Len(ShownAt(t, p)) = Len(listing) + 2
            /\ ShownAt(t, p)[1] = [name |-> Here, kind |-> "dir"]
            /\ ShownAt(t, p)[2] = [name |-> Up, kind |-> "dir"]
            /\ \A i \in 1 .. Len(listing) : ShownAt(t, p)[i + 2] = Bare(listing[i])
<1> DEFINE listing == Listing(t, p)
           n == Len(listing)
           rest == [i \in DOMAIN listing |-> [name |-> listing[i].name, kind |-> listing[i].kind]]
<1>1. /\ listing \in Seq(Entry) /\ n \in Nat /\ DOMAIN listing = 1 .. n
      /\ \A i \in 1 .. n : listing[i].name \in Names /\ listing[i].kind \in Kinds
  BY ListingTyped, LenProperties
<1>2. ShownAt(t, p) = Dots \o rest
  BY DEF ShownAt
<1> HIDE DEF n
<1>3. Dots \in Seq(NameKind) /\ Len(Dots) = 2
  BY DEF Dots, NameKind, Kinds
<1>4. rest \in Seq(NameKind) /\ Len(rest) = n /\ \A i \in 1 .. n : rest[i] = Bare(listing[i])
  <2> HIDE DEF listing
  <2>1. rest = [i \in 1 .. n |-> [name |-> listing[i].name, kind |-> listing[i].kind]]
    BY <1>1
  <2>2. \A i \in 1 .. n : [name |-> listing[i].name, kind |-> listing[i].kind] \in NameKind
    BY <1>1 DEF NameKind
  <2>3. rest \in Seq(NameKind) /\ Len(rest) = n
    BY <1>1, <2>1, <2>2
  <2> QED BY <2>1, <2>3 DEF Bare
<1> HIDE DEF rest, listing
<1>5. /\ Dots \o rest \in Seq(NameKind) /\ Len(Dots \o rest) = n + 2
      /\ \A i \in 1 .. n + 2 : (Dots \o rest)[i] = IF i <= 2 THEN Dots[i] ELSE rest[i - 2]
  <2>1. /\ Dots \o rest \in Seq(NameKind) /\ Len(Dots \o rest) = Len(Dots) + Len(rest)
        /\ \A i \in 1 .. Len(Dots) + Len(rest) :
             (Dots \o rest)[i] = IF i <= Len(Dots) THEN Dots[i] ELSE rest[i - Len(Dots)]
    BY <1>3, <1>4, ConcatProperties
  <2>2. Len(Dots) + Len(rest) = n + 2
    BY <1>1, <1>3, <1>4
  <2> QED BY <1>3, <2>1, <2>2
<1>6. Dots[1] = [name |-> Here, kind |-> "dir"] /\ Dots[2] = [name |-> Up, kind |-> "dir"]
  BY DEF Dots
<1>7. /\ (Dots \o rest)[1] = Dots[1] /\ (Dots \o rest)[2] = Dots[2]
      /\ \A i \in 1 .. n : (Dots \o rest)[i + 2] = rest[i]
  <2>1. n \in Nat
    BY <1>1
  <2>2. 1 \in 1 .. n + 2 /\ 2 \in 1 .. n + 2
    BY <2>1
  <2>3. \A i \in 1 .. n : i + 2 \in 1 .. n + 2 /\ ~(i + 2 <= 2) /\ (i + 2) - 2 = i
    BY <2>1
  <2> QED BY <1>5, <2>2, <2>3
<1> QED BY <1>2, <1>4, <1>5, <1>6, <1>7 DEF listing, n

\* The lines cut from it tell the inodes of the paths that they are about.
LEMMA LinesTyped ==
  ASSUME tree \in Trees, Tracker \in Trackers, NEW path \in Paths, IsDirAt(tree, path),
         NEW ino \in Nat, <<ino, path>> \in bimap,
         NEW n \in 0 .. Len(Listing(tree, path))
  PROVE  LET entries == SubSeq(Listing(tree, path), 1, n)
             lines == Lines(ino, path, entries)
         IN /\ lines \in Seq(LineSet) /\ Len(lines) = n + 2
            /\ \A k \in 1 .. n + 2 :
                 /\ Bare(lines[k]) = ShownAt(tree, path)[k]
                 /\ About(path, lines[k]) \in Paths
                 /\ <<lines[k].ino, About(path, lines[k])>> \in Tracked(path, entries).pairs
<1> DEFINE listing == Listing(tree, path)
           entries == SubSeq(listing, 1, n)
           t == Tracked(path, entries)
           dots == <<Line(ino, "dir", Here), Line(InodeIn(t, Parent(path)), "dir", Up)>>
           rest == [i \in DOMAIN entries |->
                     Line(InodeIn(t, Append(path, entries[i].name)), entries[i].kind, entries[i].name)]
<1>0. n \in Nat /\ 1 \in 1 .. n + 2 /\ 2 \in 1 .. n + 2
  BY ListingTyped, LenProperties
<1>1. /\ listing \in Seq(Entry) /\ Len(listing) \in Nat /\ n \in 0 .. Len(listing)
      /\ \A i \in 1 .. Len(listing) : listing[i].name \in Names /\ listing[i].kind \in Kinds
  BY ListingTyped, LenProperties
<1>2. /\ entries \in Seq(Entry) /\ Len(entries) = n /\ DOMAIN entries = 1 .. n
      /\ \A i \in 1 .. n : entries[i] = listing[i]
  <2> HIDE DEF listing
  <2>1. \A i \in 1 .. n : listing[i] \in Entry
    BY <1>1, ElementOfSeq
  <2> QED BY <1>1, <2>1, SubSeqProperties, LenProperties
<1>3. /\ t \in Trackers /\ bimap \subseteq t.pairs /\ HasInode(t, Parent(path))
      /\ \A i \in 1 .. n : HasInode(t, Append(path, entries[i].name))
  <2> HIDE DEF entries
  <2> QED BY <1>2, TrackedTyped
<1>4. Lines(ino, path, entries) = dots \o rest
  <2> HIDE DEF entries
  <2> QED BY DEF Lines
<1> HIDE DEF t, entries, listing
<1>5. <<InodeIn(t, Parent(path)), Parent(path)>> \in t.pairs /\ InodeIn(t, Parent(path)) \in Nat
  BY <1>3, InodeIsUnique
<1>6. \A i \in 1 .. n : LET p == Append(path, entries[i].name)
                       IN <<InodeIn(t, p), p>> \in t.pairs /\ InodeIn(t, p) \in Nat
  BY <1>3, InodeIsUnique
<1>7. dots \in Seq(LineSet) /\ Len(dots) = 2
  BY <1>5 DEF LineSet, Line, Kinds
<1>8. rest \in Seq(LineSet) /\ Len(rest) = n
  <2>1. \A i \in 1 .. n : rest[i] \in LineSet
    <3>1. \A i \in 1 .. n : entries[i].name \in Names /\ entries[i].kind \in Kinds
      BY <1>1, <1>2
    <3> QED BY <1>2, <1>6, <3>1 DEF LineSet, Line
  <2>2. rest = [i \in 1 .. n |-> rest[i]]
    BY <1>2
  <2> HIDE DEF rest
  <2> QED BY <1>1, <2>1, <2>2
<1>9. /\ dots \o rest \in Seq(LineSet) /\ Len(dots \o rest) = n + 2
      /\ \A k \in 1 .. n + 2 : (dots \o rest)[k] = IF k <= 2 THEN dots[k] ELSE rest[k - 2]
  <2> HIDE DEF dots, rest
  <2>1. /\ dots \o rest \in Seq(LineSet) /\ Len(dots \o rest) = Len(dots) + Len(rest)
        /\ \A k \in 1 .. Len(dots) + Len(rest) :
             (dots \o rest)[k] = IF k <= Len(dots) THEN dots[k] ELSE rest[k - Len(dots)]
    BY <1>7, <1>8, ConcatProperties
  <2>2. Len(dots) + Len(rest) = n + 2
    BY <1>0, <1>7, <1>8
  <2> QED BY <1>7, <2>1, <2>2
<1> DEFINE Right(line, k) == /\ Bare(line) = ShownAt(tree, path)[k]
                             /\ About(path, line) \in Paths
                             /\ <<line.ino, About(path, line)>> \in t.pairs
<1>10. Right(dots[1], 1)
  <2>1. About(path, dots[1]) = path
    <3>1. dots[1].name = Here
      BY DEF Line
    <3> HIDE DEF dots
    <3> QED BY <3>1, FuseAssumption DEF About
  <2>2. Bare(dots[1]) = ShownAt(tree, path)[1]
    BY ShownParts DEF Line, Bare
  <2>3. <<dots[1].ino, path>> \in t.pairs
    BY <1>3 DEF Line
  <2> QED BY <2>1, <2>2, <2>3
<1>11. Right(dots[2], 2)
  <2>1. About(path, dots[2]) = Parent(path)
    BY FuseAssumption DEF Line, About, Parent
  <2>2. Bare(dots[2]) = ShownAt(tree, path)[2]
    BY ShownParts DEF Line, Bare
  <2> QED BY <1>5, <2>1, <2>2, ParentTyped DEF Line
<1>12. ASSUME NEW i \in 1 .. n PROVE Right(rest[i], i + 2)
  <2> DEFINE name == entries[i].name
             line == rest[i]
  <2>1. name \in Names /\ i \in 1 .. Len(listing) /\ entries[i] = listing[i]
    BY <1>1, <1>2 DEF listing
  <2>2. line = Line(InodeIn(t, Append(path, name)), entries[i].kind, name)
    BY <1>2
  <2> HIDE DEF name, line
  <2>3. About(path, line) = Append(path, name)
    BY <2>1, <2>2, FuseAssumption DEF About, Line
  <2>4. Append(path, name) \in Paths
    BY <2>1, LongerPath DEF Paths
  <2>5. <<line.ino, About(path, line)>> \in t.pairs
    BY <1>6, <2>2, <2>3 DEF Line, name
  <2>6. Bare(line) = ShownAt(tree, path)[i + 2]
    BY <2>1, <2>2, ShownParts DEF Line, Bare, name, listing
  <2> QED BY <2>3, <2>4, <2>5, <2>6 DEF line
<1> HIDE DEF dots, rest, Right
<1>13. ASSUME NEW k \in 1 .. n + 2 PROVE Right((dots \o rest)[k], k)
  <2>1. CASE k = 1
    BY <1>0, <1>9, <1>10, <2>1
  <2>2. CASE k = 2
    BY <1>0, <1>9, <1>11, <2>2
  <2>3. CASE k > 2
    <3>1. k - 2 \in 1 .. n /\ (k - 2) + 2 = k
      BY <1>0, <2>3
    <3>2. Right(rest[k - 2], k)
      BY <1>12, <3>1
    <3> QED BY <1>9, <2>3, <3>2
  <2>4. k = 1 \/ k = 2 \/ k > 2
    BY <1>0
  <2> QED BY <2>1, <2>2, <2>3, <2>4, Zenon
<1> QED BY <1>4, <1>9, <1>13 DEF Right, t, entries, listing

-----------------------------------------------------------------------------
(* The invariant: everything that was told of a path is on record in the   *)
(* tracker, and every open file or directory is one that was told of.      *)

Told == [path : Paths, ino : Nat, kind : Kinds]

Readings ==
  [state : {"open", "done"}, path : Paths, ino : Nat, kind : {"dir"},
   got : Seq(LineSet), whole : BOOLEAN]
  \cup [state : {"open", "done"}, path : Paths, ino : Nat, kind : {"file"},
        got : Seq(Nat), whole : BOOLEAN]

IInv ==
  /\ tree \in Trees /\ alive \in BOOLEAN
  /\ Tracker \in Trackers /\ <<1, <<Root>>>> \in bimap
  /\ said \in SUBSET Told
  /\ \A s \in said : <<s.ino, s.path>> \in bimap
  /\ reader \in [Readers -> {Closed} \cup Readings]
  /\ \A r \in Readers :
       reader[r] # Closed => Say(reader[r].path, reader[r].ino, reader[r].kind) \in said

\* A path on record is the one that its inode stands for.
LEMMA PathIsUnique ==
  ASSUME Tracker \in Trackers, NEW ino, NEW path, <<ino, path>> \in bimap
  PROVE  PathOf(ino) = path
<1> DEFINE pair == CHOOSE p \in bimap : p[1] = ino
<1>1. pair \in bimap /\ pair[1] = ino
  <2>1. <<ino, path>>[1] = ino
    OBVIOUS
  <2> QED BY <2>1
<1>2. \A p, q \in bimap : p[1] = q[1] <=> p[2] = q[2]
  BY DEF Trackers, Tracker
<1> HIDE DEF pair
<1>3. pair[2] = path
  BY <1>1, <1>2
<1> QED BY <1>3 DEF PathOf, pair

\* A number that the kernel may name stands for a path.
LEMMA KnownPath ==
  ASSUME IInv, NEW ino \in Known
  PROVE  PathOf(ino) \in Paths /\ <<ino, PathOf(ino)>> \in bimap
<1>1. PICK path : <<ino, path>> \in bimap
  BY DEF IInv, Known
<1>2. path \in Paths
  BY <1>1 DEF IInv, Trackers, Tracker
<1> QED BY <1>1, <1>2, PathIsUnique DEF IInv

\* The path of an open file or directory is the one that its inode stands for.
LEMMA ReaderPath ==
  ASSUME IInv, NEW r \in Readers, reader[r] # Closed
  PROVE  /\ reader[r] \in Readings
         /\ Say(reader[r].path, reader[r].ino, reader[r].kind) \in said
         /\ reader[r].path \in Paths
         /\ <<reader[r].ino, reader[r].path>> \in bimap
         /\ PathOf(reader[r].ino) = reader[r].path
<1>1. reader[r] \in Readings /\ Say(reader[r].path, reader[r].ino, reader[r].kind) \in said
  BY DEF IInv
<1>2. <<reader[r].ino, reader[r].path>> \in bimap
  BY <1>1 DEF IInv, Say
<1>3. reader[r].path \in Paths
  BY <1>1 DEF Readings
<1> QED BY <1>1, <1>2, <1>3, PathIsUnique DEF IInv

\* The root is on record from the start.
LEMMA InitInvariant == Init => IInv
<1> SUFFICES ASSUME Init PROVE IInv
  OBVIOUS
<1>1. <<Root>> \in Paths
  BY DEF Paths, AbsolutePaths
<1>2. Tracker = [pairs |-> {<<1, <<Root>>>>}, next |-> 2]
  BY DEF Init, Tracker
<1>3. Tracker \in Trackers
  BY <1>1, <1>2 DEF Trackers
<1>4. Say(<<Root>>, 1, "dir") \in Told
  BY <1>1 DEF Say, Told, Kinds
<1>5. said = {Say(<<Root>>, 1, "dir")} /\ bimap = {<<1, <<Root>>>>}
  BY DEF Init
<1>6. \A s \in said : <<s.ino, s.path>> \in bimap
  BY <1>5 DEF Say
<1>7. reader \in [Readers -> {Closed}] /\ \A r \in Readers : reader[r] = Closed
  BY DEF Init
<1> QED BY <1>3, <1>4, <1>5, <1>6, <1>7 DEF IInv, Init

\* A step keeps the invariant if the tracker only grows and what is told more is
\* on record, each reader being as before or one of what has been told.
LEMMA Grows ==
  ASSUME IInv, tree' = tree, alive' \in BOOLEAN,
         Tracker' \in Trackers, bimap \subseteq bimap',
         NEW more \in SUBSET Told, said' = said \cup more,
         \A s \in more : <<s.ino, s.path>> \in bimap',
         reader' \in [Readers -> {Closed} \cup Readings],
         \A r \in Readers : \/ reader'[r] = Closed
                           \/ Say(reader'[r].path, reader'[r].ino, reader'[r].kind) \in said
  PROVE  IInv' /\ bimap \subseteq bimap'
BY DEF IInv

LEMMA LookupInvariant ==
  ASSUME IInv, NEW parent \in Known, NEW name \in Names, Lookup(parent, name)
  PROVE  IInv' /\ bimap \subseteq bimap'
<1> DEFINE path == Append(PathOf(parent), name)
           found == Ask("stat", path)
           tracker == GetOrCreate(Tracker, path)
           told == Say(path, InodeIn(tracker, path), found.entry.kind)
<1>1. path \in Paths
  BY KnownPath, LongerPath DEF Paths
<1>2. /\ tracker \in Trackers /\ bimap \subseteq tracker.pairs
      /\ <<InodeIn(tracker, path), path>> \in tracker.pairs /\ InodeIn(tracker, path) \in Nat
  <2>1. Tracker \in Trackers /\ Tracker.pairs = bimap
    BY DEF IInv, Tracker
  <2> HIDE DEF path
  <2> QED BY <1>1, <2>1, Created, InodeIsUnique
<1>3. UNCHANGED <<tree, alive, reader>>
  BY DEF Lookup
<1>4. /\ reader' \in [Readers -> {Closed} \cup Readings] /\ alive' \in BOOLEAN
      /\ \A r \in Readers : \/ reader'[r] = Closed
                           \/ Say(reader'[r].path, reader'[r].ino, reader'[r].kind) \in said
  BY <1>3 DEF IInv
<1>5. CASE UNCHANGED <<bimap, next, said>>
  <2> DEFINE more == {}
  <2>1. Tracker' \in Trackers /\ said' = said \cup more /\ bimap \subseteq bimap'
    BY <1>5 DEF Tracker, IInv
  <2>2. more \in SUBSET Told /\ \A s \in more : <<s.ino, s.path>> \in bimap'
    OBVIOUS
  <2> HIDE DEF more
  <2> QED BY <1>3, <1>4, <2>1, <2>2, Grows
<1>6. CASE Record(tracker) /\ said' = IF found.entry.kind \in {"file", "dir"} THEN said \cup {told} ELSE said
  <2> DEFINE more == IF found.entry.kind \in {"file", "dir"} THEN {told} ELSE {}
  <2>1. Tracker' = tracker /\ bimap' = tracker.pairs
    BY <1>2, <1>6 DEF Record, Tracker, Trackers
  <2>2. more \in SUBSET Told /\ \A s \in more : <<s.ino, s.path>> \in bimap'
    <3> DEFINE kind == found.entry.kind
    <3>1. CASE kind \in {"file", "dir"}
      <4> HIDE DEF path, tracker, kind
      <4>1. Say(path, InodeIn(tracker, path), kind) \in Told
        BY <1>1, <1>2, <3>1 DEF Told, Say, Kinds
      <4>2. LET s == Say(path, InodeIn(tracker, path), kind) IN <<s.ino, s.path>> \in bimap'
        BY <1>2, <2>1 DEF Say
      <4>3. more = {Say(path, InodeIn(tracker, path), kind)}
        BY <3>1 DEF path, tracker, kind
      <4> HIDE DEF more
      <4> QED BY <4>1, <4>2, <4>3
    <3>2. CASE kind \notin {"file", "dir"}
      BY <3>2
    <3> QED BY <3>1, <3>2
  <2>3. said' = said \cup more
    BY <1>6
  <2> HIDE DEF more, tracker
  <2> QED BY <1>2, <1>3, <1>4, <2>1, <2>2, <2>3, Grows
<1> QED BY <1>5, <1>6 DEF Lookup

LEMMA GetattrInvariant ==
  ASSUME IInv, NEW s \in said, Getattr(s)
  PROVE  IInv' /\ bimap \subseteq bimap'
<1> DEFINE more == {Say(s.path, s.ino, Ask("stat", PathOf(s.ino)).entry.kind)}
<1>1. said' = said \cup more /\ UNCHANGED <<tree, bimap, next, alive, reader>>
  BY DEF Getattr
<1>2. more \in SUBSET Told /\ \A t \in more : <<t.ino, t.path>> \in bimap
  BY DEF Getattr, IInv, Told, Say, Kinds
<1>3. Tracker' = Tracker
  BY <1>1 DEF Tracker
<1> HIDE DEF more
<1> QED BY <1>1, <1>2, <1>3, Grows DEF IInv

LEMMA OpenInvariant ==
  ASSUME IInv, NEW r \in Readers, Open(r)
  PROVE  IInv' /\ bimap \subseteq bimap'
<1>1. PICK s \in said : reader' = [reader EXCEPT ![r] =
         [state |-> "open", path |-> s.path, ino |-> s.ino, kind |-> s.kind,
          got |-> <<>>, whole |-> TRUE]]
  BY DEF Open
<1> DEFINE new == [state |-> "open", path |-> s.path, ino |-> s.ino, kind |-> s.kind,
                   got |-> <<>>, whole |-> TRUE]
<1>2. s \in Told
  BY DEF IInv
<1>3. new \in Readings /\ Say(new.path, new.ino, new.kind) = s
  BY <1>2, EmptySeq DEF Readings, Told, Kinds, Say
<1>4. said' = said \cup {} /\ UNCHANGED <<tree, bimap, next, alive>>
  BY DEF Open
<1>5. Tracker' = Tracker
  BY <1>4 DEF Tracker
<1> HIDE DEF new
<1>6. reader' = [reader EXCEPT ![r] = new]
  BY <1>1 DEF new
<1> QED BY <1>3, <1>4, <1>5, <1>6, Grows DEF IInv

LEMMA CloseInvariant ==
  ASSUME IInv, NEW r \in Readers, Close(r)
  PROVE  IInv' /\ bimap \subseteq bimap'
<1>1. /\ reader' = [reader EXCEPT ![r] = Closed] /\ said' = said \cup {}
      /\ UNCHANGED <<tree, bimap, next, alive>>
  BY DEF Close
<1>2. Tracker' = Tracker
  BY <1>1 DEF Tracker
<1> QED BY <1>1, <1>2, Grows DEF IInv

\* A sequence that is no longer than another and agrees with it is its start.
LEMMA SameStart ==
  ASSUME NEW T, NEW s \in Seq(T), NEW t \in Seq(T), Len(s) <= Len(t),
         \A i \in 1 .. Len(s) : s[i] = t[i]
  PROVE  IsPrefix(s, t)
<1>1. Len(s) \in Nat /\ Len(t) \in Nat
  BY LenProperties
<1>2. SubSeq(s, 1, Len(s)) = s
  BY SubSeqFull
<1>3. \A i \in 1 .. Len(s) : t[i] \in T
  BY <1>1, ElementOfSeq
<1>4. /\ SubSeq(t, 1, Len(s)) \in Seq(T) /\ Len(SubSeq(t, 1, Len(s))) = Len(s)
      /\ \A i \in 1 .. Len(s) : SubSeq(t, 1, Len(s))[i] = t[i]
  BY <1>1, <1>3, SubSeqProperties
<1>5. s = SubSeq(t, 1, Len(s))
  BY <1>4, SeqEqual
<1> QED BY <1>2, <1>5 DEF IsPrefix

\* A stretch of a sequence, from behind its first `from` members.
LEMMA Stretch ==
  ASSUME NEW T, NEW seq \in Seq(T), NEW from \in Nat, NEW to \in 0 .. Len(seq)
  PROVE  LET part == SubSeq(seq, from + 1, to)
         IN /\ part \in Seq(T)
            /\ \A i \in 1 .. Len(part) : from + i \in 1 .. to /\ part[i] = seq[from + i]
            /\ from < to => part # <<>>
<1> DEFINE part == SubSeq(seq, from + 1, to)
<1>1. to \in Nat /\ to <= Len(seq) /\ Len(seq) \in Nat
  BY LenProperties
<1>2. \A i \in from + 1 .. to : seq[i] \in T
  <2>1. \A i \in from + 1 .. to : i \in 1 .. Len(seq)
    BY <1>1
  <2> QED BY <2>1, ElementOfSeq
<1>3. /\ part \in Seq(T) /\ Len(part) = IF from + 1 <= to THEN to - (from + 1) + 1 ELSE 0
      /\ \A i \in 1 .. to - (from + 1) + 1 : part[i] = seq[from + 1 + i - 1]
  BY <1>1, <1>2, SubSeqProperties
<1> HIDE DEF part
<1>4. ASSUME NEW i \in 1 .. Len(part)
      PROVE  from + i \in 1 .. to /\ part[i] = seq[from + i]
  <2>1. /\ i \in Nat /\ from + i \in 1 .. to /\ i \in 1 .. to - (from + 1) + 1
        /\ from + 1 + i - 1 = from + i
    BY <1>1, <1>3
  <2> QED BY <1>3, <2>1
<1>5. from < to => part # <<>>
  BY <1>1, <1>3, EmptySeq
<1> QED BY <1>3, <1>4, <1>5 DEF part

\* What a step of readdir comes to.
PageStep(r, n, page) ==
  LET path == reader[r].path
      old == reader[r].got
      entries == SubSeq(Listing(tree, path), 1, n)
      lines == Lines(reader[r].ino, path, entries)
  IN /\ reader[r] # Closed /\ reader[r].state = "open" /\ reader[r].kind = "dir"
     /\ IsDirAt(tree, path)
     /\ n \in 0 .. Len(Listing(tree, path))
     /\ page \in Seq(LineSet)
     /\ \A i \in 1 .. Len(page) : Len(old) + i \in 1 .. n + 2 /\ page[i] = lines[Len(old) + i]
     /\ page = <<>> => n + 2 <= Len(old)
     /\ Record(Tracked(path, entries))
     /\ reader' = [reader EXCEPT
          ![r].got = @ \o page, ![r].whole = (entries = Listing(tree, path)),
          ![r].state = IF page = <<>> THEN "done" ELSE "open"]
     /\ said' = said \cup {Say(About(path, page[i]), page[i].ino, page[i].kind) : i \in 1 .. Len(page)}
     /\ UNCHANGED <<tree, alive>>

LEMMA ReaddirPages ==
  ASSUME IInv, NEW r \in Readers, ReaddirSome(r)
  PROVE  \E n \in Nat, page \in Seq(LineSet) : PageStep(r, n, page)
<1> DEFINE path == reader[r].path
           old == reader[r].got
           list == Ask("list", path)
           entriesOf(n) == SubSeq(Listing(tree, path), 1, n)
           linesOf(n) == Lines(reader[r].ino, path, entriesOf(n))
<1>1. reader[r] # Closed /\ reader[r].state = "open" /\ reader[r].kind = "dir"
  BY DEF ReaddirSome, Closed
<1>2. /\ PathOf(reader[r].ino) = path /\ path \in Paths /\ reader[r] \in Readings
      /\ <<reader[r].ino, path>> \in bimap
  BY <1>1, ReaderPath
<1>3. tree \in Trees /\ Tracker \in Trackers
  BY DEF IInv
<1>4. IsDirAt(tree, path) /\ list = Listed(Listing(tree, path))
  <2>1. list.kind = "list"
    BY <1>2 DEF ReaddirSome
  <2> QED BY <1>2, <1>3, <2>1, Answers DEF Ask
<1>5. list.entries = Listing(tree, path)
  BY <1>4 DEF Listed
<1> HIDE DEF list, path
<1>6. PICK room \in Sizes \ {0}, n \in 0 .. Len(Listing(tree, path)) :
        Readdir(r, room, entriesOf(n))
  BY <1>2, <1>5 DEF ReaddirSome, list
<1> DEFINE lines == linesOf(n)
           to == IF Offset(r) + room > Len(lines) THEN Len(lines) ELSE Offset(r) + room
           page == SubSeq(lines, Offset(r) + 1, to)
<1>7. room \in Nat \ {0} /\ Offset(r) = Len(old) /\ Offset(r) \in Nat /\ n \in Nat
  <2>1. old \in Seq(LineSet) \cup Seq(Nat)
    BY <1>2 DEF Readings
  <2>2. n \in Nat
    BY <1>2, <1>3, <1>4, ListingTyped, LenProperties
  <2> QED BY <2>1, <2>2, FuseAssumption, LenProperties DEF Offset
<1>8. lines \in Seq(LineSet) /\ Len(lines) = n + 2
  <2>1. reader[r].ino \in Nat
    BY <1>2 DEF Readings
  <2> QED BY <1>2, <1>3, <1>4, <2>1, LinesTyped
<1>9. to \in 0 .. Len(lines) /\ (to <= Offset(r) => n + 2 <= Len(old))
  <2> HIDE DEF lines, linesOf
  <2> QED BY <1>7, <1>8
<1>10. /\ page \in Seq(LineSet)
       /\ \A i \in 1 .. Len(page) : Len(old) + i \in 1 .. to /\ page[i] = lines[Len(old) + i]
       /\ page = <<>> => n + 2 <= Len(old)
  <2> HIDE DEF lines, linesOf, to
  <2>1. to <= Offset(r) \/ Offset(r) < to
    BY <1>7, <1>8, <1>9
  <2>2. /\ page \in Seq(LineSet)
        /\ \A i \in 1 .. Len(page) : Offset(r) + i \in 1 .. to /\ page[i] = lines[Offset(r) + i]
        /\ Offset(r) < to => page # <<>>
    <3>1. lines \in Seq(LineSet) /\ Offset(r) \in Nat /\ to \in 0 .. Len(lines)
      BY <1>7, <1>8, <1>9
    <3> QED BY <3>1, Stretch, Zenon
  <2> HIDE DEF page
  <2> QED BY <1>7, <1>9, <2>1, <2>2
<1>11. \A i \in 1 .. Len(page) : Len(old) + i \in 1 .. n + 2
  <2> HIDE DEF page, lines, to, linesOf
  <2> QED BY <1>7, <1>8, <1>9, <1>10
<1>12. DOMAIN page = 1 .. Len(page)
  <2> HIDE DEF page
  <2> QED BY <1>10, LenProperties
<1>13. /\ Record(Tracked(path, entriesOf(n)))
       /\ reader' = [reader EXCEPT
            ![r].got = @ \o page, ![r].whole = (entriesOf(n) = Listing(tree, path)),
            ![r].state = IF page = <<>> THEN "done" ELSE "open"]
       /\ said' = said \cup {Say(About(path, page[i]), page[i].ino, page[i].kind) : i \in DOMAIN page}
       /\ UNCHANGED <<tree, alive>>
  <2> DEFINE e == entriesOf(n)
             q == PathOf(reader[r].ino)
             ls == Lines(reader[r].ino, q, e)
             pg == SubSeq(ls, Offset(r) + 1, IF Offset(r) + room > Len(ls) THEN Len(ls) ELSE Offset(r) + room)
  <2>1. /\ Record(Tracked(q, e))
        /\ reader' = [reader EXCEPT
             ![r].got = @ \o pg, ![r].whole = (e = Ask("list", q).entries),
             ![r].state = IF pg = <<>> THEN "done" ELSE "open"]
        /\ said' = said \cup {Say(About(reader[r].path, pg[i]), pg[i].ino, pg[i].kind) : i \in DOMAIN pg}
        /\ UNCHANGED <<tree, alive>>
    <3> HIDE DEF entriesOf
    <3> QED BY <1>6, Zenon DEF Readdir
  <2>2. q = path
    BY <1>2
  <2>3. pg = page
    BY <2>2, Zenon
  <2>4. Ask("list", q).entries = Listing(tree, path)
    BY <1>5, <2>2, Zenon DEF list
  <2>5. Record(Tracked(path, e))
    <3> HIDE DEF pg, e, q
    <3> QED BY <2>1, <2>2
  <2>6. reader' = [reader EXCEPT
             ![r].got = @ \o page, ![r].whole = (e = Listing(tree, path)),
             ![r].state = IF page = <<>> THEN "done" ELSE "open"]
    <3> HIDE DEF pg, e, q, page
    <3> QED BY <2>1, <2>3, <2>4
  <2>7. said' = said \cup {Say(About(path, page[i]), page[i].ino, page[i].kind) : i \in DOMAIN page}
    <3> HIDE DEF pg, e, q, page
    <3> QED BY <2>1, <2>3, Zenon DEF path
  <2> HIDE DEF pg, page
  <2> QED BY <2>1, <2>5, <2>6, <2>7
<1>14. PageStep(r, n, page)
  <2>1. said' = said \cup {Say(About(path, page[i]), page[i].ino, page[i].kind) : i \in 1 .. Len(page)}
    <3> HIDE DEF page
    <3> QED BY <1>12, <1>13
  <2>2. \A i \in 1 .. Len(page) : Len(old) + i \in 1 .. n + 2 /\ page[i] = lines[Len(old) + i]
    <3> HIDE DEF page, lines
    <3> QED BY <1>10, <1>11
  <2> HIDE DEF page, to
  <2> QED BY <1>1, <1>4, <1>6, <1>10, <1>13, <2>1, <2>2 DEF PageStep, path
<1> HIDE DEF page
<1> QED BY <1>7, <1>10, <1>14

LEMMA ReaddirInvariant ==
  ASSUME IInv, NEW r \in Readers, ReaddirSome(r)
  PROVE  IInv' /\ bimap \subseteq bimap'
<1>1. PICK n \in Nat, page \in Seq(LineSet) : PageStep(r, n, page)
  BY ReaddirPages
<1> DEFINE path == reader[r].path
           old == reader[r].got
           entries == SubSeq(Listing(tree, path), 1, n)
           lines == Lines(reader[r].ino, path, entries)
           t == Tracked(path, entries)
           more == {Say(About(path, page[i]), page[i].ino, page[i].kind) : i \in 1 .. Len(page)}
           new == [reader[r] EXCEPT !.got = @ \o page, !.whole = (entries = Listing(tree, path)),
                                    !.state = IF page = <<>> THEN "done" ELSE "open"]
<1>2. /\ reader[r] # Closed /\ reader[r].kind = "dir" /\ IsDirAt(tree, path)
      /\ n \in 0 .. Len(Listing(tree, path))
      /\ \A i \in 1 .. Len(page) : Len(old) + i \in 1 .. n + 2 /\ page[i] = lines[Len(old) + i]
      /\ Record(t) /\ said' = said \cup more /\ UNCHANGED <<tree, alive>>
  BY <1>1 DEF PageStep
<1>3. /\ path \in Paths /\ <<reader[r].ino, path>> \in bimap /\ reader[r] \in Readings
      /\ Say(path, reader[r].ino, reader[r].kind) \in said
  BY <1>2, ReaderPath
<1>4. reader[r].ino \in Nat /\ old \in Seq(LineSet)
  BY <1>2, <1>3 DEF Readings
<1>5. tree \in Trees /\ Tracker \in Trackers /\ Tracker.pairs = bimap
  BY DEF IInv, Tracker
<1>6. \A k \in 1 .. n + 2 : About(path, lines[k]) \in Paths /\ <<lines[k].ino, About(path, lines[k])>> \in t.pairs
  BY <1>2, <1>3, <1>4, <1>5, LinesTyped
<1>7. t \in Trackers /\ bimap \subseteq t.pairs
  <2>1. entries \in Seq(Entry)
    <3> DEFINE listing == Listing(tree, path)
    <3>1. listing \in Seq(Entry)
      BY <1>2, <1>3, <1>5, ListingTyped
    <3>2. Len(listing) \in Nat /\ n \in 0 .. Len(listing)
      BY <1>2, <3>1, LenProperties
    <3> HIDE DEF listing
    <3>3. \A i \in 1 .. n : listing[i] \in Entry
      BY <3>1, <3>2, ElementOfSeq
    <3>4. SubSeq(listing, 1, n) \in Seq(Entry)
      BY <3>2, <3>3, SubSeqProperties
    <3> QED BY <3>4 DEF listing
  <2> HIDE DEF entries
  <2> QED BY <1>3, <1>5, <2>1, TrackedTyped
<1>8. Tracker' = t /\ bimap' = t.pairs
  <2> HIDE DEF t
  <2> QED BY <1>2, <1>7 DEF Record, Tracker, Trackers
<1> HIDE DEF t, lines, entries
<1>9. ASSUME NEW i \in 1 .. Len(page)
      PROVE  /\ Say(About(path, page[i]), page[i].ino, page[i].kind) \in Told
             /\ <<page[i].ino, About(path, page[i])>> \in bimap'
  <2>1. About(path, page[i]) \in Paths /\ <<page[i].ino, About(path, page[i])>> \in t.pairs
    BY <1>2, <1>6
  <2>2. page[i] \in LineSet
    BY ElementOfSeq
  <2>3. page[i].ino \in Nat /\ page[i].kind \in Kinds
    BY <2>2 DEF LineSet
  <2> QED BY <1>8, <2>1, <2>3 DEF Told, Say
<1>10. more \in SUBSET Told /\ \A s \in more : <<s.ino, s.path>> \in bimap'
  <2>1. ASSUME NEW s \in more PROVE s \in Told /\ <<s.ino, s.path>> \in bimap'
    <3>1. PICK i \in 1 .. Len(page) : s = Say(About(path, page[i]), page[i].ino, page[i].kind)
      OBVIOUS
    <3>2. s.ino = page[i].ino /\ s.path = About(path, page[i])
      BY <3>1 DEF Say
    <3> QED BY <1>9, <3>1, <3>2
  <2> HIDE DEF more
  <2> QED BY <2>1
<1>11. new \in Readings /\ new.path = path /\ new.ino = reader[r].ino /\ new.kind = "dir"
  <2>1. old \o page \in Seq(LineSet)
    BY <1>4, ConcatProperties
  <2> QED BY <1>2, <1>3, <2>1 DEF Readings
<1>12. reader' = [reader EXCEPT ![r] = new]
  BY <1>1 DEF PageStep, entries
<1> HIDE DEF new, more
<1>13. \A q \in Readers : \/ reader'[q] = Closed
                         \/ Say(reader'[q].path, reader'[q].ino, reader'[q].kind) \in said
  BY <1>2, <1>3, <1>11, <1>12 DEF IInv
<1>14. reader' \in [Readers -> {Closed} \cup Readings] /\ alive' \in BOOLEAN
  BY <1>2, <1>11, <1>12 DEF IInv
<1> QED BY <1>2, <1>7, <1>8, <1>10, <1>13, <1>14, Grows

\* What a step of read comes to.
PieceStep(r, data, state) ==
  LET path == reader[r].path
      old == reader[r].got
      bytes == Content[Resolve(tree, path).entry.first]
  IN /\ reader[r] # Closed /\ reader[r].kind = "file"
     /\ IsFileAt(tree, path)
     /\ \A i \in 1 .. Len(data) : Len(old) + i \in 1 .. Len(bytes) /\ data[i] = bytes[Len(old) + i]
     /\ state = "done" => data = <<>> /\ Len(bytes) <= Len(old)
     /\ reader' = [reader EXCEPT ![r].got = @ \o data, ![r].state = state]
     /\ UNCHANGED <<tree, bimap, next, alive, said>>

LEMMA ReadPieces ==
  ASSUME IInv, NEW r \in Readers, Read(r)
  PROVE  \E data \in Seq(Nat), state \in {"open", "done"} : PieceStep(r, data, state)
<1> DEFINE path == reader[r].path
           old == reader[r].got
           found == Ask("open", path)
           bytes == Content[found.entry.first]
<1>1. reader[r] # Closed /\ reader[r].kind = "file"
  BY DEF Read, Closed
<1>2. PathOf(reader[r].ino) = path /\ path \in Paths /\ reader[r] \in Readings
  BY <1>1, ReaderPath
<1>3. tree \in Trees
  BY DEF IInv
<1>4. IsFileAt(tree, path) /\ found = Resolve(tree, path)
  <2>1. found.kind = "entry"
    BY <1>2 DEF Read
  <2> QED BY <1>2, <1>3, <2>1, Answers DEF Ask
<1>5. bytes \in Seq(Nat) /\ Len(bytes) \in Nat
  BY <1>2, <1>3, <1>4, AtPath, LenProperties
<1>6. old \in Seq(Nat) /\ Len(old) \in Nat /\ Offset(r) = Len(old)
  BY <1>1, <1>2, LenProperties DEF Readings, Offset
<1> DEFINE dataOf(size) == IF Offset(r) >= Len(bytes) THEN <<>>
                           ELSE SubSeq(bytes, Offset(r) + 1,
                                  Offset(r) + Limit(size, Len(bytes), Offset(r)))
<1>7. PICK size \in Sizes :
        reader' = [reader EXCEPT
          ![r].got = @ \o dataOf(size),
          ![r].state = IF dataOf(size) = <<>> /\ size > 0 THEN "done" ELSE "open"]
  BY <1>2 DEF Read
<1> DEFINE data == dataOf(size)
           state == IF data = <<>> /\ size > 0 THEN "done" ELSE "open"
<1>8. size \in Nat
  BY FuseAssumption
<1>9. /\ data \in Seq(Nat)
      /\ \A i \in 1 .. Len(data) : Len(old) + i \in 1 .. Len(bytes) /\ data[i] = bytes[Len(old) + i]
      /\ data = <<>> /\ size > 0 => Len(bytes) <= Len(old)
  <2> HIDE DEF bytes
  <2>1. CASE Offset(r) >= Len(bytes)
    <3>1. data = <<>>
      BY <2>1
    <3> HIDE DEF data
    <3> QED BY <1>6, <2>1, <3>1, EmptySeq
  <2>2. CASE ~(Offset(r) >= Len(bytes))
    <3> DEFINE to == Offset(r) + Limit(size, Len(bytes), Offset(r))
    <3>1. to \in 0 .. Len(bytes) /\ (size > 0 => Offset(r) < to) /\ Offset(r) \in Nat
      <4>1. Offset(r) \in Nat /\ Len(bytes) \in Nat /\ size \in Nat
        BY <1>5, <1>6, <1>8
      <4>2. Limit(size, Len(bytes), Offset(r)) =
              IF size < Len(bytes) - Offset(r) THEN size ELSE Len(bytes) - Offset(r)
        BY DEF Limit, Least
      <4> QED BY <2>2, <4>1, <4>2
    <3>2. data = SubSeq(bytes, Offset(r) + 1, to)
      BY <2>2
    <3> HIDE DEF data, to
    <3>3. /\ data \in Seq(Nat)
          /\ \A i \in 1 .. Len(data) : Offset(r) + i \in 1 .. to /\ data[i] = bytes[Offset(r) + i]
          /\ Offset(r) < to => data # <<>>
      <4>1. bytes \in Seq(Nat) /\ Offset(r) \in Nat /\ to \in 0 .. Len(bytes)
        BY <1>5, <3>1
      <4> QED BY <3>2, <4>1, Stretch, Zenon
    <3>4. \A i \in 1 .. to : i \in 1 .. Len(bytes)
      BY <1>5, <3>1
    <3> QED BY <1>6, <3>1, <3>3, <3>4
  <2> QED BY <2>1, <2>2
<1>10. UNCHANGED <<tree, bimap, next, alive, said>>
  BY DEF Read
<1>11. reader' = [reader EXCEPT ![r].got = @ \o data, ![r].state = state]
  BY <1>7
<1> HIDE DEF data
<1>12. PieceStep(r, data, state)
  BY <1>1, <1>4, <1>9, <1>10, <1>11 DEF PieceStep
<1>13. state \in {"open", "done"}
  OBVIOUS
<1> HIDE DEF state
<1> QED BY <1>9, <1>12, <1>13

LEMMA ReadInvariant ==
  ASSUME IInv, NEW r \in Readers, Read(r)
  PROVE  IInv' /\ bimap \subseteq bimap'
<1>1. PICK data \in Seq(Nat), state \in {"open", "done"} : PieceStep(r, data, state)
  BY ReadPieces
<1> DEFINE new == [reader[r] EXCEPT !.got = @ \o data, !.state = state]
           more == {}
<1>2. reader[r] # Closed /\ reader[r].kind = "file" /\ UNCHANGED <<tree, bimap, next, alive, said>>
  BY <1>1 DEF PieceStep
<1>3. reader[r] \in Readings /\ Say(reader[r].path, reader[r].ino, reader[r].kind) \in said
  BY <1>2, ReaderPath
<1>4. /\ new \in Readings /\ new.path = reader[r].path
      /\ new.ino = reader[r].ino /\ new.kind = reader[r].kind
  <2>1. reader[r].got \in Seq(Nat)
    BY <1>2, <1>3 DEF Readings
  <2>2. reader[r].got \o data \in Seq(Nat)
    BY <2>1, ConcatProperties
  <2> QED BY <1>2, <1>3, <2>2 DEF Readings
<1>5. reader' = [reader EXCEPT ![r] = new]
  BY <1>1 DEF PieceStep
<1> HIDE DEF new
<1>6. reader' \in [Readers -> {Closed} \cup Readings] /\ alive' \in BOOLEAN
  BY <1>2, <1>4, <1>5 DEF IInv
<1>7. \A q \in Readers : \/ reader'[q] = Closed
                        \/ Say(reader'[q].path, reader'[q].ino, reader'[q].kind) \in said
  BY <1>3, <1>4, <1>5 DEF IInv
<1>8. Tracker' = Tracker /\ Tracker \in Trackers
  BY <1>2 DEF Tracker, IInv
<1>9. more \in SUBSET Told /\ said' = said \cup more /\ \A s \in more : <<s.ino, s.path>> \in bimap'
  BY <1>2
<1> HIDE DEF more
<1> QED BY <1>2, <1>6, <1>7, <1>8, <1>9, Grows

\* No step takes anything off the record.
LEMMA NextInvariant ==
  ASSUME IInv, [Next]_vars PROVE IInv' /\ bimap \subseteq bimap'
<1>1. CASE UNCHANGED vars
  <2>1. UNCHANGED <<tree, bimap, next, alive, reader, said>> /\ Tracker' = Tracker
    BY <1>1 DEF vars, Tracker
  <2> QED BY <2>1 DEF IInv
<1>2. ASSUME NEW parent \in Known, NEW name \in Names, Lookup(parent, name)
      PROVE  IInv' /\ bimap \subseteq bimap'
  BY <1>2, LookupInvariant
<1>3. ASSUME NEW parent \in Known, LookupPanics(parent)
      PROVE  IInv' /\ bimap \subseteq bimap'
  <2>1. UNCHANGED <<tree, bimap, next, reader, said>> /\ alive' = FALSE /\ Tracker' = Tracker
    BY <1>3 DEF LookupPanics, Tracker
  <2> QED BY <2>1 DEF IInv
<1>4. ASSUME NEW s \in said, Getattr(s) PROVE IInv' /\ bimap \subseteq bimap'
  BY <1>4, GetattrInvariant
<1>5. ASSUME NEW r \in Readers, Open(r) \/ Close(r) \/ ReaddirSome(r) \/ Read(r)
      PROVE  IInv' /\ bimap \subseteq bimap'
  BY <1>5, OpenInvariant, CloseInvariant, ReaddirInvariant, ReadInvariant
<1> QED BY <1>1, <1>2, <1>3, <1>4, <1>5 DEF Next

LEMMA Invariant == Spec => []IInv
<1>1. Init => IInv
  BY InitInvariant
<1>2. IInv /\ [Next]_vars => IInv'
  BY NextInvariant
<1> QED BY <1>1, <1>2, PTL DEF Spec

\* Types hold, and the tracker is one-to-one: for every tree that may be mounted.
THEOREM TypeCorrect == Spec => []TypeOK
<1>1. IInv => TypeOK
  <2> SUFFICES ASSUME IInv PROVE TypeOK
    OBVIOUS
  <2>1. /\ next \in Nat /\ \A p \in bimap : p[1] \in 1 .. next - 1
        /\ \A p, q \in bimap : p[1] = q[1] <=> p[2] = q[2]
    BY DEF IInv, Trackers, Tracker
  <2>2. \A s \in said : s.kind \in Kinds
    BY DEF IInv, Told
  <2>3. \A r \in Readers : reader[r].state \in {"closed", "open", "done"}
    BY DEF IInv, Readings, Closed
  <2> QED BY <2>1, <2>2, <2>3 DEF TypeOK, IInv
<1> QED BY <1>1, Invariant, PTL

\* An inode, once created, stands for the same path as long as the volume is
\* mounted, whatever else is looked up or listed.
THEOREM InodesStay == Spec => InodesKept
<1>1. IInv /\ [Next]_vars => [\A p \in bimap : p \in bimap']_vars
  BY NextInvariant
<1> QED BY <1>1, Invariant, PTL DEF Spec, InodesKept

-----------------------------------------------------------------------------
(* What is told is true of the volume, where names tell its entries apart. *)

\* What was told of a path is what the path leads to.
TrueOf(t, s) == Resolve(t, s.path).kind = "entry" /\ Resolve(t, s.path).entry.kind = s.kind

\* What was read of a directory is the beginning of what it shows,
PagesAre(t, x) ==
  x # Closed /\ x.kind = "dir" =>
    LET shown == ShownAt(t, x.path)
    IN /\ Len(x.got) <= Len(shown)
       /\ \A k \in 1 .. Len(x.got) : Bare(x.got[k]) = shown[k]
       /\ x.state = "done" /\ x.whole => Len(x.got) = Len(shown)

\* and what was read of a file the beginning of its bytes.
PiecesAre(t, x) ==
  x # Closed /\ x.kind = "file" =>
    LET bytes == Content[Resolve(t, x.path).entry.first]
    IN /\ Len(x.got) <= Len(bytes)
       /\ \A k \in 1 .. Len(x.got) : x.got[k] = bytes[k]
       /\ x.state = "done" => Len(x.got) = Len(bytes)

TInv ==
  /\ IInv
  /\ \A s \in said : TrueOf(tree, s)
  /\ \A r \in Readers : PagesAre(tree, reader[r]) /\ PiecesAre(tree, reader[r])

LEMMA InitTrue == Init => TInv
<1> SUFFICES ASSUME Init PROVE TInv
  OBVIOUS
<1>1. IInv
  BY InitInvariant
<1>2. tree \in Trees
  BY DEF Init
<1>3. Resolve(tree, <<Root>>) = Found(RootEntry(tree))
  BY <1>2, TreeLeadsOn, ResolveRoot
<1>4. \A s \in said : TrueOf(tree, s)
  BY <1>3 DEF Init, TrueOf, Say, Found, RootEntry
<1>5. \A r \in Readers : reader[r] = Closed
  BY DEF Init
<1> QED BY <1>1, <1>4, <1>5 DEF TInv, PagesAre, PiecesAre

\* Each line of a listing is true of the path that it is about.
LEMMA LinesTrue ==
  ASSUME NamesDistinct, NEW t \in Trees, NEW path \in Paths, IsDirAt(t, path),
         NEW k \in 1 .. Len(Listing(t, path)) + 2, NEW line, Bare(line) = ShownAt(t, path)[k]
  PROVE  TrueOf(t, Say(About(path, line), line.ino, line.kind))
<1> DEFINE listing == Listing(t, path)
           about == About(path, line)
<1>1. Len(listing) \in Nat /\ \A i \in 1 .. Len(listing) : listing[i].name \in Names
  BY ListingTyped, LenProperties
<1>2. \A name, kind : Bare(line) = [name |-> name, kind |-> kind] => line.name = name /\ line.kind = kind
  BY DEF Bare
<1> SUFFICES Resolve(t, about).kind = "entry" /\ Resolve(t, about).entry.kind = line.kind
  BY DEF TrueOf, Say
<1>3. CASE k = 1
  <2>1. line.name = Here /\ line.kind = "dir"
    BY <1>2, <1>3, ShownParts
  <2>2. about = path
    BY <2>1, FuseAssumption DEF About
  <2> QED BY <2>1, <2>2 DEF IsDirAt
<1>4. CASE k = 2
  <2>1. line.name = Up /\ line.kind = "dir"
    BY <1>2, <1>4, ShownParts
  <2>2. about = IF path = <<Root>> THEN path ELSE Front(path)
    BY <2>1, FuseAssumption DEF About
  <2>3. Resolve(t, path).kind = "entry"
    BY DEF IsDirAt
  <2> HIDE DEF about
  <2> QED BY <2>1, <2>2, <2>3, TreeLeadsOn, ParentIsDir DEF Paths
<1>5. CASE k > 2
  <2> DEFINE i == k - 2
             e == listing[i]
  <2>1. i \in 1 .. Len(listing) /\ i + 2 = k
    BY <1>1, <1>5
  <2>2. line.name = e.name /\ line.kind = e.kind
    <3>1. Bare(line) = Bare(e)
      <4> HIDE DEF i
      <4> QED BY <2>1, ShownParts
    <3> QED BY <3>1 DEF Bare
  <2>3. e.name \in Names
    BY <1>1, <2>1
  <2> HIDE DEF i
  <2>4. Resolve(t, Append(path, e.name)) = Found(e)
    BY <2>1, ListingTrue
  <2>5. about = Append(path, e.name)
    BY <2>2, <2>3, FuseAssumption DEF About
  <2> HIDE DEF about, e
  <2> QED BY <2>2, <2>4, <2>5 DEF Found
<1>6. k = 1 \/ k = 2 \/ k > 2
  BY <1>1
<1> QED BY <1>3, <1>4, <1>5, <1>6

\* Each step tells the truth,
LEMMA LookupTrue ==
  ASSUME TInv, NEW parent \in Known, NEW name \in Names, Lookup(parent, name)
  PROVE  \A s \in said' : TrueOf(tree, s)
<1> DEFINE path == Append(PathOf(parent), name)
           found == Ask("stat", path)
           told == Say(path, InodeIn(GetOrCreate(Tracker, path), path), found.entry.kind)
<1>1. path \in Paths /\ tree \in Trees
  BY KnownPath, LongerPath DEF Paths, TInv, IInv
<1>2. found = Resolve(tree, path)
  <2> HIDE DEF path
  <2> QED BY <1>1, Answers DEF Ask
<1>3. (said' = said \/ found.kind = "entry") /\ said' \in {said, said \cup {told}}
  BY DEF Lookup
<1>4. found.kind = "entry" => TrueOf(tree, told)
  BY <1>2 DEF TrueOf, Say
<1> HIDE DEF told, found
<1> QED BY <1>3, <1>4 DEF TInv

LEMMA GetattrTrue ==
  ASSUME TInv, NEW s \in said, Getattr(s)
  PROVE  \A x \in said' : TrueOf(tree, x)
<1> DEFINE found == Ask("stat", PathOf(s.ino))
           told == Say(s.path, s.ino, found.entry.kind)
<1>1. s.path \in Paths /\ tree \in Trees /\ PathOf(s.ino) = s.path
  BY PathIsUnique DEF TInv, IInv, Told
<1>2. found = Resolve(tree, s.path)
  BY <1>1, Answers DEF Ask
<1>3. found.kind = "entry" /\ said' = said \cup {told}
  BY DEF Getattr
<1>4. TrueOf(tree, told)
  BY <1>2, <1>3 DEF TrueOf, Say
<1> HIDE DEF told
<1> QED BY <1>3, <1>4 DEF TInv

LEMMA ReaddirTrue ==
  ASSUME NamesDistinct, TInv, NEW r \in Readers, ReaddirSome(r)
  PROVE  /\ \A s \in said' : TrueOf(tree, s)
         /\ \A q \in Readers : PagesAre(tree, reader'[q]) /\ PiecesAre(tree, reader'[q])
<1>0. IInv
  BY DEF TInv
<1>1. PICK n \in Nat, page \in Seq(LineSet) : PageStep(r, n, page)
  BY <1>0, ReaddirPages
<1> DEFINE path == reader[r].path
           old == reader[r].got
           listing == Listing(tree, path)
           entries == SubSeq(listing, 1, n)
           lines == Lines(reader[r].ino, path, entries)
           shown == ShownAt(tree, path)
           new == [reader[r] EXCEPT !.got = @ \o page, !.whole = (entries = listing),
                                    !.state = IF page = <<>> THEN "done" ELSE "open"]
<1>2. /\ reader[r] # Closed /\ reader[r].kind = "dir" /\ IsDirAt(tree, path)
      /\ n \in 0 .. Len(listing)
      /\ \A i \in 1 .. Len(page) : Len(old) + i \in 1 .. n + 2 /\ page[i] = lines[Len(old) + i]
      /\ page = <<>> => n + 2 <= Len(old)
      /\ said' = said \cup {Say(About(path, page[i]), page[i].ino, page[i].kind) : i \in 1 .. Len(page)}
  BY <1>1 DEF PageStep
<1>3. /\ path \in Paths /\ <<reader[r].ino, path>> \in bimap /\ reader[r] \in Readings
      /\ reader[r].ino \in Nat /\ old \in Seq(LineSet)
  BY <1>0, <1>2, ReaderPath DEF Readings
<1>4. tree \in Trees /\ Tracker \in Trackers
  BY <1>0 DEF IInv
<1>5. \A k \in 1 .. n + 2 : Bare(lines[k]) = shown[k]
  BY <1>2, <1>3, <1>4, LinesTyped
<1>6. /\ Len(listing) \in Nat /\ Len(old) \in Nat /\ Len(page) \in Nat
      /\ Len(shown) = Len(listing) + 2
  BY <1>2, <1>3, <1>4, ListingTyped, LenProperties, ShownParts
<1>7. reader' = [reader EXCEPT ![r] = new]
  BY <1>1 DEF PageStep
<1> HIDE DEF lines
<1>8. \A s \in said' : TrueOf(tree, s)
  <2>1. ASSUME NEW i \in 1 .. Len(page)
        PROVE  TrueOf(tree, Say(About(path, page[i]), page[i].ino, page[i].kind))
    <3> DEFINE k == Len(old) + i
    <3>1. k \in 1 .. n + 2 /\ page[i] = lines[k]
      BY <1>2
    <3>2. k \in 1 .. Len(listing) + 2
      BY <1>2, <1>6, <3>1
    <3> HIDE DEF k
    <3>3. Bare(page[i]) = shown[k]
      BY <1>5, <3>1
    <3> QED BY <1>2, <1>3, <1>4, <3>2, <3>3, LinesTrue
  <2>2. \A s \in said : TrueOf(tree, s)
    BY DEF TInv
  <2> QED BY <1>2, <2>1, <2>2
<1>9. PagesAre(tree, reader[r])
  BY DEF TInv
<1> HIDE DEF entries, listing
<1>10. PagesAre(tree, new)
  <2>1. /\ new.got = old \o page /\ new.path = path
        /\ new.state = IF page = <<>> THEN "done" ELSE "open"
        /\ new.whole = (entries = listing)
    BY <1>3 DEF Readings
  <2> HIDE DEF new
  <2>2. /\ Len(old \o page) = Len(old) + Len(page)
        /\ \A k \in 1 .. Len(old) + Len(page) :
             (old \o page)[k] = IF k <= Len(old) THEN old[k] ELSE page[k - Len(old)]
    BY <1>3, ConcatProperties
  <2>3. Len(old) <= Len(shown) /\ \A k \in 1 .. Len(old) : Bare(old[k]) = shown[k]
    BY <1>2, <1>9 DEF PagesAre
  <2>4. Len(old) + Len(page) <= Len(shown)
    <3>1. CASE Len(page) = 0
      BY <1>6, <2>3, <3>1
    <3>2. CASE Len(page) > 0
      <4>1. Len(old) + Len(page) <= n + 2
        BY <1>2, <1>6, <3>2
      <4> QED BY <1>2, <1>6, <4>1
    <3> QED BY <1>6, <3>1, <3>2
  <2>5. ASSUME NEW k \in 1 .. Len(old) + Len(page)
        PROVE  Bare((old \o page)[k]) = shown[k]
    <3>1. CASE k <= Len(old)
      BY <1>6, <2>2, <2>3, <3>1
    <3>2. CASE ~(k <= Len(old))
      <4> DEFINE i == k - Len(old)
      <4>1. i \in 1 .. Len(page) /\ Len(old) + i = k
        BY <1>6, <3>2
      <4>2. (old \o page)[k] = page[i]
        BY <2>2, <3>2
      <4> HIDE DEF i
      <4>3. page[i] = lines[k] /\ k \in 1 .. n + 2
        BY <1>2, <4>1
      <4> QED BY <1>5, <4>2, <4>3
    <3> QED BY <3>1, <3>2
  <2>6. ASSUME page = <<>>, entries = listing
        PROVE  Len(old) + Len(page) = Len(shown)
    <3>1. Len(listing) = n
      <4>1. listing \in Seq(Entry)
        BY <1>2, <1>3, <1>4, ListingTyped DEF listing
      <4>2. \A i \in 1 .. n : listing[i] \in Entry
        BY <1>2, <1>6, <4>1, ElementOfSeq
      <4>3. Len(SubSeq(listing, 1, n)) = n
        BY <4>2, SubSeqProperties
      <4> QED BY <2>6, <4>3 DEF entries
    <3>2. Len(page) = 0 /\ n + 2 <= Len(old)
      BY <1>2, <2>6, EmptySeq
    <3> QED BY <1>6, <2>3, <3>1, <3>2
  <2> QED BY <2>1, <2>2, <2>4, <2>5, <2>6 DEF PagesAre
<1>11. PiecesAre(tree, new)
  <2>1. new.kind = "dir"
    BY <1>2, <1>3 DEF Readings
  <2> QED BY <2>1 DEF PiecesAre
<1> HIDE DEF new
<1>12. \A q \in Readers : PagesAre(tree, reader'[q]) /\ PiecesAre(tree, reader'[q])
  <2>1. \A q \in Readers : reader'[q] = IF q = r THEN new ELSE reader[q]
    BY <1>0, <1>7 DEF IInv
  <2> QED BY <1>10, <1>11, <2>1 DEF TInv
<1> QED BY <1>8, <1>12

LEMMA ReadTrue ==
  ASSUME TInv, NEW r \in Readers, Read(r)
  PROVE  \A q \in Readers : PagesAre(tree, reader'[q]) /\ PiecesAre(tree, reader'[q])
<1>0. IInv
  BY DEF TInv
<1>1. PICK data \in Seq(Nat), state \in {"open", "done"} : PieceStep(r, data, state)
  BY <1>0, ReadPieces
<1> DEFINE path == reader[r].path
           old == reader[r].got
           bytes == Content[Resolve(tree, path).entry.first]
           new == [reader[r] EXCEPT !.got = @ \o data, !.state = state]
<1>2. /\ reader[r] # Closed /\ reader[r].kind = "file" /\ IsFileAt(tree, path)
      /\ \A i \in 1 .. Len(data) : Len(old) + i \in 1 .. Len(bytes) /\ data[i] = bytes[Len(old) + i]
      /\ state = "done" => data = <<>> /\ Len(bytes) <= Len(old)
  BY <1>1 DEF PieceStep
<1>3. reader[r] \in Readings /\ path \in Paths /\ old \in Seq(Nat)
  BY <1>0, <1>2, ReaderPath DEF Readings
<1>4. tree \in Trees
  BY <1>0 DEF IInv
<1>5. Len(bytes) \in Nat /\ Len(old) \in Nat /\ Len(data) \in Nat
  BY <1>2, <1>3, <1>4, AtPath, LenProperties
<1>6. reader' = [reader EXCEPT ![r] = new]
  BY <1>1 DEF PieceStep
<1>7. PiecesAre(tree, reader[r])
  BY DEF TInv
<1>8. PiecesAre(tree, new)
  <2>1. new.got = old \o data /\ new.path = path /\ new.state = state
    BY <1>3 DEF Readings
  <2> HIDE DEF new
  <2>2. /\ Len(old \o data) = Len(old) + Len(data)
        /\ \A k \in 1 .. Len(old) + Len(data) :
             (old \o data)[k] = IF k <= Len(old) THEN old[k] ELSE data[k - Len(old)]
    BY <1>3, ConcatProperties
  <2>3. Len(old) <= Len(bytes) /\ \A k \in 1 .. Len(old) : old[k] = bytes[k]
    BY <1>2, <1>7 DEF PiecesAre
  <2>4. Len(old) + Len(data) <= Len(bytes)
    <3>1. CASE Len(data) = 0
      BY <1>5, <2>3, <3>1
    <3>2. CASE Len(data) > 0
      BY <1>2, <1>5, <3>2
    <3> QED BY <1>5, <3>1, <3>2
  <2>5. ASSUME NEW k \in 1 .. Len(old) + Len(data)
        PROVE  (old \o data)[k] = bytes[k]
    <3>1. CASE k <= Len(old)
      BY <1>5, <2>2, <2>3, <3>1
    <3>2. CASE ~(k <= Len(old))
      <4> DEFINE i == k - Len(old)
      <4>1. i \in 1 .. Len(data) /\ Len(old) + i = k
        BY <1>5, <3>2
      <4>2. (old \o data)[k] = data[i]
        BY <2>2, <3>2
      <4> HIDE DEF i
      <4> QED BY <1>2, <4>1, <4>2
    <3> QED BY <3>1, <3>2
  <2>6. state = "done" => Len(old) + Len(data) = Len(bytes)
    BY <1>2, <1>5, <2>3, EmptySeq
  <2> QED BY <2>1, <2>2, <2>4, <2>5, <2>6 DEF PiecesAre
<1>9. PagesAre(tree, new)
  <2>1. new.kind = "file"
    BY <1>2, <1>3 DEF Readings
  <2> QED BY <2>1 DEF PagesAre
<1> HIDE DEF new
<1>10. \A q \in Readers : reader'[q] = IF q = r THEN new ELSE reader[q]
  BY <1>0, <1>6 DEF IInv
<1> QED BY <1>8, <1>9, <1>10 DEF TInv

LEMMA OpenTrue ==
  ASSUME TInv, NEW r \in Readers, Open(r)
  PROVE  \A q \in Readers : PagesAre(tree, reader'[q]) /\ PiecesAre(tree, reader'[q])
<1>1. PICK s \in said : reader' = [reader EXCEPT ![r] =
         [state |-> "open", path |-> s.path, ino |-> s.ino, kind |-> s.kind,
          got |-> <<>>, whole |-> TRUE]]
  BY DEF Open
<1> DEFINE new == [state |-> "open", path |-> s.path, ino |-> s.ino, kind |-> s.kind,
                   got |-> <<>>, whole |-> TRUE]
<1>2. tree \in Trees /\ s \in Told /\ TrueOf(tree, s)
  BY DEF TInv, IInv
<1>3. s.path \in Paths
  BY <1>2 DEF Told
<1>4. PagesAre(tree, new)
  <2> SUFFICES ASSUME s.kind = "dir" PROVE 0 <= Len(ShownAt(tree, s.path))
    BY EmptySeq DEF PagesAre
  <2>1. IsDirAt(tree, s.path)
    BY <1>2 DEF TrueOf, IsDirAt
  <2>2. ShownAt(tree, s.path) \in Seq(NameKind)
    BY <1>2, <1>3, <2>1, ShownParts
  <2> QED BY <2>2, LenProperties
<1>5. PiecesAre(tree, new)
  <2> DEFINE bytes == Content[Resolve(tree, s.path).entry.first]
  <2> SUFFICES ASSUME s.kind = "file" PROVE 0 <= Len(bytes)
    BY EmptySeq DEF PiecesAre
  <2>1. IsFileAt(tree, s.path)
    BY <1>2 DEF TrueOf, IsFileAt
  <2>2. bytes \in Seq(Nat)
    BY <1>2, <1>3, <2>1, AtPath
  <2> QED BY <2>2, LenProperties
<1>6. \A q \in Readers : reader'[q] = IF q = r THEN new ELSE reader[q]
  BY <1>1 DEF TInv, IInv
<1> HIDE DEF new
<1> QED BY <1>4, <1>5, <1>6 DEF TInv

LEMMA TreeStays ==
  ASSUME [Next]_vars PROVE tree' = tree
<1>1. CASE UNCHANGED vars
  BY <1>1 DEF vars
<1>2. ASSUME NEW parent, NEW name, Lookup(parent, name) PROVE tree' = tree
  BY <1>2 DEF Lookup
<1>3. ASSUME NEW parent, LookupPanics(parent) PROVE tree' = tree
  BY <1>3 DEF LookupPanics
<1>4. ASSUME NEW s, Getattr(s) PROVE tree' = tree
  BY <1>4 DEF Getattr
<1>5. ASSUME NEW r, Open(r) PROVE tree' = tree
  BY <1>5 DEF Open
<1>6. ASSUME NEW r, Close(r) PROVE tree' = tree
  BY <1>6 DEF Close
<1>7. ASSUME NEW r, ReaddirSome(r) PROVE tree' = tree
  BY <1>7 DEF ReaddirSome, Readdir
<1>8. ASSUME NEW r, Read(r) PROVE tree' = tree
  BY <1>8 DEF Read
<1> QED BY <1>1, <1>2, <1>3, <1>4, <1>5, <1>6, <1>7, <1>8 DEF Next

LEMMA NextTrue ==
  ASSUME NamesDistinct, TInv, [Next]_vars PROVE TInv'
<1>0. IInv /\ IInv'
  BY NextInvariant DEF TInv
<1>1. tree' = tree
  BY TreeStays
<1> SUFFICES /\ \A s \in said' : TrueOf(tree, s)
             /\ \A r \in Readers : PagesAre(tree, reader'[r]) /\ PiecesAre(tree, reader'[r])
  BY <1>0, <1>1 DEF TInv
<1>2. CASE UNCHANGED vars
  BY <1>2 DEF vars, TInv
<1>3. ASSUME NEW parent \in Known, NEW name \in Names, Lookup(parent, name)
      PROVE  /\ \A s \in said' : TrueOf(tree, s)
             /\ \A r \in Readers : PagesAre(tree, reader'[r]) /\ PiecesAre(tree, reader'[r])
  <2>1. reader' = reader
    BY <1>3 DEF Lookup
  <2> QED BY <1>3, <2>1, LookupTrue DEF TInv
<1>4. ASSUME NEW parent \in Known, LookupPanics(parent)
      PROVE  /\ \A s \in said' : TrueOf(tree, s)
             /\ \A r \in Readers : PagesAre(tree, reader'[r]) /\ PiecesAre(tree, reader'[r])
  BY <1>4 DEF LookupPanics, TInv
<1>5. ASSUME NEW s \in said, Getattr(s)
      PROVE  /\ \A x \in said' : TrueOf(tree, x)
             /\ \A r \in Readers : PagesAre(tree, reader'[r]) /\ PiecesAre(tree, reader'[r])
  <2>1. reader' = reader
    BY <1>5 DEF Getattr
  <2> QED BY <1>5, <2>1, GetattrTrue DEF TInv
<1>6. ASSUME NEW r \in Readers, Open(r)
      PROVE  /\ \A s \in said' : TrueOf(tree, s)
             /\ \A q \in Readers : PagesAre(tree, reader'[q]) /\ PiecesAre(tree, reader'[q])
  <2>1. said' = said
    BY <1>6 DEF Open
  <2> QED BY <1>6, <2>1, OpenTrue DEF TInv
<1>7. ASSUME NEW r \in Readers, Close(r)
      PROVE  /\ \A s \in said' : TrueOf(tree, s)
             /\ \A q \in Readers : PagesAre(tree, reader'[q]) /\ PiecesAre(tree, reader'[q])
  <2>1. said' = said /\ reader' = [reader EXCEPT ![r] = Closed]
    BY <1>7 DEF Close
  <2>2. \A q \in Readers : reader'[q] = IF q = r THEN Closed ELSE reader[q]
    BY <1>0, <2>1 DEF IInv
  <2> QED BY <2>1, <2>2 DEF TInv, PagesAre, PiecesAre
<1>8. ASSUME NEW r \in Readers, ReaddirSome(r)
      PROVE  /\ \A s \in said' : TrueOf(tree, s)
             /\ \A q \in Readers : PagesAre(tree, reader'[q]) /\ PiecesAre(tree, reader'[q])
  BY <1>8, ReaddirTrue
<1>9. ASSUME NEW r \in Readers, Read(r)
      PROVE  /\ \A s \in said' : TrueOf(tree, s)
             /\ \A q \in Readers : PagesAre(tree, reader'[q]) /\ PiecesAre(tree, reader'[q])
  <2>1. said' = said
    BY <1>9 DEF Read
  <2> QED BY <1>9, <2>1, ReadTrue DEF TInv
<1> QED BY <1>2, <1>3, <1>4, <1>5, <1>6, <1>7, <1>8, <1>9 DEF Next

LEMMA AlwaysTrue == ASSUME NamesDistinct PROVE Spec => []TInv
<1>1. Init => TInv
  BY InitTrue
<1>2. TInv /\ [Next]_vars => TInv'
  BY NextTrue
<1> QED BY <1>1, <1>2, PTL DEF Spec

\* Where the names of a directory are distinct: whatever programs ask for, one
\* path has one inode and one kind, and no two paths share an inode.
THEOREM InodesCorrect == ASSUME NamesDistinct PROVE Spec => []InodesOneToOne
<1>1. TInv => InodesOneToOne
  <2> SUFFICES ASSUME TInv PROVE InodesOneToOne
    OBVIOUS
  <2>1. \A s \in said : <<s.ino, s.path>> \in bimap /\ TrueOf(tree, s)
    BY DEF TInv, IInv
  <2>2. \A p, q \in bimap : p[1] = q[1] <=> p[2] = q[2]
    BY DEF TInv, IInv, Trackers, Tracker
  <2>3. ASSUME NEW s \in said, NEW t \in said
        PROVE  (s.path = t.path <=> s.ino = t.ino) /\ (s.ino = t.ino => s.kind = t.kind)
    <3>1. s.path = t.path <=> s.ino = t.ino
      BY <2>1, <2>2
    <3> QED BY <2>1, <3>1 DEF TrueOf
  <2> QED BY <2>1, <2>3 DEF InodesOneToOne
<1> QED BY <1>1, AlwaysTrue, PTL

\* The pages that a program gets of a directory, other programs' requests coming
\* in between, make up its listing.
THEOREM PagesCorrect == ASSUME NamesDistinct PROVE Spec => []PagesMakeListing
<1>1. TInv => PagesMakeListing
  <2> SUFFICES ASSUME TInv, NEW r \in Readers,
                      reader[r].state # "closed", reader[r].kind = "dir"
               PROVE  LET got == reader[r].got
                          bare == [i \in DOMAIN got |-> [name |-> got[i].name, kind |-> got[i].kind]]
                          shown == Shown(reader[r].path)
                      IN /\ IsPrefix(bare, shown)
                         /\ reader[r].state = "done" /\ reader[r].whole => Len(got) = Len(shown)
    BY DEF PagesMakeListing
  <2> DEFINE path == reader[r].path
             got == reader[r].got
             bare == [i \in DOMAIN got |-> [name |-> got[i].name, kind |-> got[i].kind]]
             shown == ShownAt(tree, path)
  <2>1. reader[r] # Closed /\ IInv /\ tree \in Trees
    BY DEF Closed, TInv, IInv
  <2>2. path \in Paths /\ got \in Seq(LineSet) /\ Say(path, reader[r].ino, "dir") \in said
    BY <2>1, ReaderPath DEF Readings
  <2>3. IsDirAt(tree, path)
    BY <2>2 DEF TInv, TrueOf, Say, IsDirAt
  <2>4. Shown(path) = shown
    <3>1. Ask("list", path) = Listed(Listing(tree, path))
      BY <2>1, <2>2, <2>3, Answers DEF Ask
    <3>2. Ask("list", path).entries = Listing(tree, path)
      BY <3>1 DEF Listed
    <3> QED BY <3>2, Zenon DEF Shown, ShownAt, Dots
  <2>5. shown \in Seq(NameKind)
    BY <2>1, <2>2, <2>3, ShownParts
  <2>6. /\ Len(got) <= Len(shown) /\ \A k \in 1 .. Len(got) : Bare(got[k]) = shown[k]
        /\ reader[r].state = "done" /\ reader[r].whole => Len(got) = Len(shown)
    BY <2>1 DEF TInv, PagesAre
  <2>7. /\ bare \in Seq(NameKind) /\ Len(bare) = Len(got) /\ \A k \in 1 .. Len(got) : bare[k] = shown[k]
    <3>1. Len(got) \in Nat /\ DOMAIN got = 1 .. Len(got) /\ Len(shown) \in Nat
      BY <2>2, <2>5, LenProperties
    <3>2. \A k \in 1 .. Len(got) : bare[k] = shown[k]
      BY <2>6, <3>1 DEF Bare
    <3>3. \A k \in 1 .. Len(got) : shown[k] \in NameKind
      BY <2>5, <2>6, <3>1, ElementOfSeq
    <3>4. bare = [k \in 1 .. Len(got) |-> bare[k]]
      BY <3>1
    <3> HIDE DEF bare, got, shown
    <3> QED BY <3>1, <3>2, <3>3, <3>4
  <2> HIDE DEF bare, shown, got
  <2>8. IsPrefix(bare, shown)
    BY <2>5, <2>6, <2>7, SameStart
  <2> QED BY <2>4, <2>6, <2>8 DEF bare, got
<1> QED BY <1>1, AlwaysTrue, PTL

\* The pieces that a program reads of a file are its bytes in order, and all of
\* them once it is told of the end.
THEOREM PiecesCorrect == ASSUME NamesDistinct PROVE Spec => []PiecesMakeFile
<1>1. TInv => PiecesMakeFile
  <2> SUFFICES ASSUME TInv, NEW r \in Readers,
                      reader[r].state # "closed", reader[r].kind = "file"
               PROVE  LET bytes == Content[Ask("stat", reader[r].path).entry.first]
                      IN /\ IsPrefix(reader[r].got, bytes)
                         /\ reader[r].state = "done" => reader[r].got = bytes
    BY DEF PiecesMakeFile
  <2> DEFINE path == reader[r].path
             got == reader[r].got
             bytes == Content[Resolve(tree, path).entry.first]
  <2>1. reader[r] # Closed /\ IInv /\ tree \in Trees
    BY DEF Closed, TInv, IInv
  <2>2. path \in Paths /\ got \in Seq(Nat) /\ Say(path, reader[r].ino, "file") \in said
    BY <2>1, ReaderPath DEF Readings
  <2>3. IsFileAt(tree, path)
    BY <2>2 DEF TInv, TrueOf, Say, IsFileAt
  <2>4. Ask("stat", path) = Resolve(tree, path)
    BY <2>1, <2>2, Answers DEF Ask
  <2>5. bytes \in Seq(Nat)
    BY <2>1, <2>2, <2>3, AtPath
  <2>6. /\ Len(got) <= Len(bytes) /\ \A k \in 1 .. Len(got) : got[k] = bytes[k]
        /\ reader[r].state = "done" => Len(got) = Len(bytes)
    BY <2>1 DEF TInv, PiecesAre
  <2> HIDE DEF bytes, got
  <2>7. IsPrefix(got, bytes)
    BY <2>2, <2>5, <2>6, SameStart
  <2>8. reader[r].state = "done" => got = bytes
    BY <2>2, <2>5, <2>6, SeqEqual
  <2> QED BY <2>4, <2>7, <2>8 DEF bytes, got
<1> QED BY <1>1, AlwaysTrue, PTL

-----------------------------------------------------------------------------
\* Whatever is looked up or listed, in whatever order and with whatever failures:
\* the time stamps programs are told are those that the console wrote, but for
\* the minute's highest bit.
THEOREM StampsCorrect == Spec => []StampsTold
<1>1. StampsTold
  BY StampsAlwaysSurvive DEF StampsTold, StampsSurvive, Mtime
<1> QED BY <1>1, PTL
=============================================================================
