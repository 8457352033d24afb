--------------------------- MODULE FatxDir_proofs ---------------------------
(***************************************************************************)
(* Proofs about FatxDir, for volumes, directories and paths of any size:   *)
(*   - its types;                                                          *)
(*   - normalize_virtual_path keeps the names that no ".." takes away;     *)
(*   - calls are answered as DirTree says, the abstract specification.     *)
(***************************************************************************)
EXTENDS FatxDir, CommonFacts

-----------------------------------------------------------------------------
(* Counting names and ".." along a path. *)

\* The members of S past i and up to n.
Tally(S, i, n) == Cardinality({k \in i + 1 .. n : k \in S})

LEMMA TallyOn ==
  ASSUME NEW S, NEW i \in Nat, NEW n \in Nat, i <= n
  PROVE  /\ Tally(S, i, i) = 0
         /\ Tally(S, i, n) \in Nat
         /\ Tally(S, i, n + 1) = IF n + 1 \in S THEN Tally(S, i, n) + 1 ELSE Tally(S, i, n)
<1> DEFINE some == {k \in i + 1 .. n : k \in S}
           none == {k \in i + 1 .. i : k \in S}
           more == {k \in i + 1 .. n + 1 : k \in S}
<1>1. none = {} /\ n + 1 \notin some
  OBVIOUS
<1>2. more = IF n + 1 \in S THEN some \cup {n + 1} ELSE some
  OBVIOUS
<1>3. IsFiniteSet(some)
  <2>1. IsFiniteSet(i + 1 .. n)
    BY FS_Interval
  <2> QED BY <2>1, FS_Subset
<1> HIDE DEF some, none, more
<1>4. Cardinality(none) = 0
  BY <1>1, FS_EmptySet
<1>5. Cardinality(some) \in Nat
  BY <1>3, FS_CardinalityType
<1>6. Cardinality(some \cup {n + 1}) = Cardinality(some) + 1
  BY <1>1, <1>3, FS_AddElement
<1>7. Cardinality(more) = IF n + 1 \in S THEN Cardinality(some) + 1 ELSE Cardinality(some)
  BY <1>2, <1>6
<1> QED BY <1>4, <1>5, <1>7 DEF Tally, none, some, more

UpsOf(p) == {k \in Nat : p[k] = Up}
NamesOf(p) == {k \in Nat : IsName(p[k])}

\* By how many the names past i outnumber the ".." there, up to n.
Excess(p, i, n) == Tally(NamesOf(p), i, n) - Tally(UpsOf(p), i, n)

LEMMA ExcessOn ==
  ASSUME NEW p, NEW i \in Nat, NEW n \in Nat, i <= n
  PROVE  /\ Excess(p, i, i) = 0
         /\ Excess(p, i, n) \in Int
         /\ IsName(p[n + 1]) => Excess(p, i, n + 1) = Excess(p, i, n) + 1
         /\ p[n + 1] = Up => Excess(p, i, n + 1) = Excess(p, i, n) - 1
         /\ p[n + 1] \in {Root, Here} => Excess(p, i, n + 1) = Excess(p, i, n)
<1>1. \A S : /\ Tally(S, i, i) = 0
             /\ Tally(S, i, n) \in Nat
             /\ n + 1 \in S => Tally(S, i, n + 1) = Tally(S, i, n) + 1
             /\ n + 1 \notin S => Tally(S, i, n + 1) = Tally(S, i, n)
  BY TallyOn
<1>2. n + 1 \in NamesOf(p) <=> IsName(p[n + 1])
  BY DEF NamesOf
<1>3. n + 1 \in UpsOf(p) <=> p[n + 1] = Up
  BY DEF UpsOf
<1>4. IsName(p[n + 1]) => p[n + 1] # Up
  BY DEF IsName
<1>5. p[n + 1] = Up => ~IsName(p[n + 1])
  BY DEF IsName
<1>6. p[n + 1] \in {Root, Here} => ~IsName(p[n + 1]) /\ p[n + 1] # Up
  BY DirectoryAssumption DEF IsName
<1> QED BY <1>1, <1>2, <1>3, <1>4, <1>5, <1>6 DEF Excess

\* The name at i is still there after n components.
StaysBy(p, n, i) == IsName(p[i]) /\ \A j \in i + 1 .. n : Excess(p, i, j) >= 0

LEMMA StaysToTheEnd ==
  ASSUME NEW p, NEW i \in Nat, Len(p) \in Nat
  PROVE  Stays(p, i) <=> StaysBy(p, Len(p), i)
<1>1. ASSUME NEW j \in i + 1 .. Len(p)
      PROVE  /\ Cardinality({k \in i + 1 .. j : p[k] = Up}) = Tally(UpsOf(p), i, j)
             /\ Cardinality({k \in i + 1 .. j : IsName(p[k])}) = Tally(NamesOf(p), i, j)
             /\ Tally(UpsOf(p), i, j) \in Nat /\ Tally(NamesOf(p), i, j) \in Nat
  <2>1. {k \in i + 1 .. j : p[k] = Up} = {k \in i + 1 .. j : k \in UpsOf(p)}
    BY DEF UpsOf
  <2>2. {k \in i + 1 .. j : IsName(p[k])} = {k \in i + 1 .. j : k \in NamesOf(p)}
    BY DEF NamesOf
  <2>3. j \in Nat /\ i <= j
    OBVIOUS
  <2>4. Tally(UpsOf(p), i, j) \in Nat /\ Tally(NamesOf(p), i, j) \in Nat
    BY <2>3, TallyOn
  <2> QED BY <2>1, <2>2, <2>4 DEF Tally
<1>2. ASSUME NEW j \in i + 1 .. Len(p)
      PROVE  Cardinality({k \in i + 1 .. j : p[k] = Up})
               <= Cardinality({k \in i + 1 .. j : IsName(p[k])}) <=> Excess(p, i, j) >= 0
  <2> DEFINE ups == Tally(UpsOf(p), i, j)
             names == Tally(NamesOf(p), i, j)
  <2>1. ups \in Nat /\ names \in Nat /\ Excess(p, i, j) = names - ups
    BY <1>1 DEF Excess
  <2> HIDE DEF ups, names
  <2>2. ups <= names <=> Excess(p, i, j) >= 0
    BY <2>1
  <2> QED BY <1>1, <2>2 DEF ups, names
<1> QED BY <1>2, Zenon DEF Stays, StaysBy

LEMMA StaysOn ==
  ASSUME NEW p, NEW n \in Nat, NEW i \in 1 .. n
  PROVE  /\ StaysBy(p, n, i) => Excess(p, i, n) >= 0
         /\ StaysBy(p, n + 1, i) <=> StaysBy(p, n, i) /\ Excess(p, i, n + 1) >= 0
<1>1. StaysBy(p, n, i) => Excess(p, i, n) >= 0
  <2>1. CASE i = n
    BY <2>1, ExcessOn
  <2>2. CASE i # n
    <3>1. n \in i + 1 .. n
      BY <2>2
    <3> QED BY <3>1 DEF StaysBy
  <2> QED BY <2>1, <2>2
<1>2. i + 1 .. n + 1 = (i + 1 .. n) \cup {n + 1}
  OBVIOUS
<1> QED BY <1>1, <1>2 DEF StaysBy

-----------------------------------------------------------------------------
(* normalize_virtual_path *)

\* The components that the stack has, and the root among them.
Stackable == Names \cup {Root}
RootOf(p, n) == IF n >= 1 /\ p[1] = Root THEN 1 ELSE 0

Held(p, n) == {i \in 1 .. n : StaysBy(p, n, i)}

\* The places of the names that are on the stack q after n components: of
\* those that still stay, and each k places below as many as came after it.
Kept(p, n, q) ==
  {h \in Ascending(n, Held(p, n)) :
    /\ \A k \in 1 .. Len(h) : Excess(p, h[k], n) = Len(h) - k
    /\ Len(q) = RootOf(p, n) + Len(h)
    /\ RootOf(p, n) = 1 => q[1] = Root
    /\ \A k \in 1 .. Len(h) : q[RootOf(p, n) + k] = p[h[k]]}

\* A name is put on the stack.
LEMMA PushName ==
  ASSUME NEW p, IsPath(p, Names), NEW n \in 0 .. Len(p) - 1, IsName(p[n + 1]),
         NEW q \in Seq(Stackable), NEW h \in Kept(p, n, q)
  PROVE  Append(h, n + 1) \in Kept(p, n + 1, Append(q, p[n + 1]))
<1> DEFINE more == Append(h, n + 1)
           r == Append(q, p[n + 1])
<1>1. n \in Nat
  OBVIOUS
<1>2. /\ h \in Seq(Nat) /\ Len(h) \in Nat
      /\ \A k \in 1 .. Len(h) : h[k] \in 1 .. n /\ Excess(p, h[k], n) = Len(h) - k
      /\ h \in Ascending(n, Held(p, n))
  BY LenProperties DEF Kept, Ascending
<1>3. \A i \in 1 .. n : i \in Held(p, n + 1) <=> i \in Held(p, n)
  <2> SUFFICES ASSUME NEW i \in 1 .. n PROVE StaysBy(p, n + 1, i) <=> StaysBy(p, n, i)
    BY DEF Held
  <2>1. i \in Nat /\ i <= n
    OBVIOUS
  <2>2. Excess(p, i, n + 1) = Excess(p, i, n) + 1 /\ Excess(p, i, n) \in Int
    BY <1>1, <2>1, ExcessOn
  <2> QED BY <1>1, <2>2, StaysOn
<1>4. n + 1 \in Held(p, n + 1)
  BY DEF Held, StaysBy
<1>5. h \in Ascending(n, Held(p, n + 1))
  BY <1>2, <1>3 DEF Ascending
<1>6. more \in Ascending(n + 1, Held(p, n + 1))
  <2> DEFINE S == Held(p, n + 1)
  <2>1. (IF n + 1 \in S THEN Append(h, n + 1) ELSE h) \in Ascending(n + 1, S)
    <3> HIDE DEF S
    <3> QED BY <1>1, <1>5, AscendingOn DEF S
  <2> QED BY <1>4, <2>1
<1>7. /\ more \in Seq(Nat) /\ Len(more) = Len(h) + 1 /\ more[Len(h) + 1] = n + 1
      /\ \A k \in 1 .. Len(h) : more[k] = h[k]
  BY <1>1, <1>2, AppendProperties
<1>8. /\ p[n + 1] \in Stackable /\ Len(q) \in Nat
      /\ Len(r) = Len(q) + 1 /\ r[Len(q) + 1] = p[n + 1]
      /\ \A k \in 1 .. Len(q) : r[k] = q[k]
  <2>1. p[n + 1] \in Names
    BY LenProperties DEF IsPath, IsName
  <2> QED BY <2>1, AppendProperties, LenProperties DEF Stackable
<1>9. RootOf(p, n + 1) = RootOf(p, n) /\ RootOf(p, n) \in {0, 1}
  <2>1. n = 0 => p[1] # Root
    BY DEF IsName
  <2> QED BY <1>1, <2>1 DEF RootOf
<1> DEFINE f == RootOf(p, n)
<1>10. /\ Len(q) = f + Len(h)
       /\ f = 1 => q[1] = Root
       /\ \A k \in 1 .. Len(h) : q[f + k] = p[h[k]]
  BY DEF Kept
<1> HIDE DEF more, r, f
<1>11. \A k \in 1 .. Len(more) : k \in 1 .. Len(h) \/ k = Len(h) + 1
  BY <1>2, <1>7
<1>12. ASSUME NEW k \in 1 .. Len(more)
       PROVE  Excess(p, more[k], n + 1) = Len(more) - k /\ r[f + k] = p[more[k]]
  <2>1. CASE k \in 1 .. Len(h)
    <3>1. h[k] \in Nat /\ h[k] <= n /\ more[k] = h[k]
      BY <1>2, <1>7, <2>1
    <3>2. Excess(p, h[k], n + 1) = Excess(p, h[k], n) + 1 /\ Excess(p, h[k], n) = Len(h) - k
      BY <1>1, <1>2, <2>1, <3>1, ExcessOn
    <3>3. f + k \in 1 .. Len(q)
      BY <1>2, <1>9, <1>10, <2>1 DEF f
    <3> QED BY <1>2, <1>7, <1>8, <1>10, <2>1, <3>1, <3>2, <3>3
  <2>2. CASE k = Len(h) + 1
    <3>1. Excess(p, n + 1, n + 1) = 0
      BY <1>1, ExcessOn
    <3>2. f + k = Len(q) + 1
      BY <1>2, <1>9, <1>10, <2>2 DEF f
    <3> QED BY <1>2, <1>7, <1>8, <2>2, <3>1, <3>2
  <2> QED BY <1>11, <2>1, <2>2
<1>13. Len(r) = f + Len(more)
  BY <1>2, <1>7, <1>8, <1>9, <1>10 DEF f
<1>14. f = 1 => r[1] = Root
  BY <1>2, <1>8, <1>10
<1>15. RootOf(p, n + 1) = f
  BY <1>9 DEF f
<1>16. more \in Kept(p, n + 1, r)
  BY <1>6, <1>12, <1>13, <1>14, <1>15 DEF Kept
<1> QED BY <1>16 DEF more, r

\* A ".." takes away the name put on last,
LEMMA PopName ==
  ASSUME NEW p, NEW n \in Nat, p[n + 1] = Up,
         NEW q \in Seq(Stackable), NEW h \in Kept(p, n, q), h # <<>>
  PROVE  /\ Front(h) \in Kept(p, n + 1, Front(q))
         /\ q # <<>> /\ Last(q) = p[h[Len(h)]] /\ IsName(Last(q))
<1> DEFINE less == Front(h)
           r == Front(q)
           f == RootOf(p, n)
<1>1. /\ h \in Seq(Nat) /\ Len(h) \in Nat \ {0}
      /\ \A k \in 1 .. Len(h) : h[k] \in 1 .. n /\ h[k] \in Held(p, n)
      /\ \A k \in 1 .. Len(h) : Excess(p, h[k], n) = Len(h) - k
      /\ \A i, j \in 1 .. Len(h) : i < j => h[i] < h[j]
      /\ \A x \in 1 .. n : x \in Held(p, n) => \E i \in 1 .. Len(h) : h[i] = x
  BY LenProperties, EmptySeq DEF Kept, Ascending
<1>2. /\ Len(q) = f + Len(h) /\ f \in {0, 1}
      /\ f = 1 => q[1] = Root
      /\ \A k \in 1 .. Len(h) : q[f + k] = p[h[k]]
  BY DEF Kept, RootOf
<1>3. RootOf(p, n + 1) = f
  <2>1. n = 0 => p[1] # Root
    BY DirectoryAssumption
  <2> QED BY <2>1 DEF RootOf
<1>4. /\ less \in Seq(Nat) /\ Len(less) = Len(h) - 1
      /\ \A k \in 1 .. Len(h) - 1 : less[k] = h[k]
  BY <1>1, FrontOf
<1>5. /\ Len(r) = Len(q) - 1 /\ q # <<>> /\ Last(q) = q[Len(q)]
      /\ \A k \in 1 .. Len(q) - 1 : r[k] = q[k]
  <2>1. Len(q) \in Nat \ {0}
    BY <1>1, <1>2
  <2>2. q # <<>>
    BY <2>1, EmptySeq
  <2> QED BY <2>1, <2>2, FrontOf
<1> HIDE DEF less, r, f
<1>6. \A i \in 1 .. n : i \in Held(p, n + 1) <=> i \in Held(p, n) /\ Excess(p, i, n) >= 1
  <2> SUFFICES ASSUME NEW i \in 1 .. n
               PROVE  StaysBy(p, n + 1, i) <=> StaysBy(p, n, i) /\ Excess(p, i, n) >= 1
    BY DEF Held
  <2>1. i \in Nat /\ i <= n
    OBVIOUS
  <2>2. Excess(p, i, n + 1) = Excess(p, i, n) - 1 /\ Excess(p, i, n) \in Int
    BY <2>1, ExcessOn
  <2> QED BY <2>2, StaysOn
<1>7. n + 1 \notin Held(p, n + 1)
  BY DEF Held, StaysBy, IsName
<1>8. ASSUME NEW k \in 1 .. Len(less)
      PROVE  /\ less[k] = h[k] /\ k \in 1 .. Len(h)
             /\ less[k] \in Held(p, n + 1) /\ less[k] \in 1 .. n + 1
             /\ Excess(p, less[k], n + 1) = Len(less) - k
             /\ r[f + k] = p[less[k]]
  <2>1. k \in 1 .. Len(h) /\ k <= Len(h) - 1 /\ less[k] = h[k]
    BY <1>1, <1>4
  <2>2. h[k] \in 1 .. n /\ h[k] \in Held(p, n) /\ Excess(p, h[k], n) = Len(h) - k
    BY <1>1, <2>1
  <2>3. h[k] \in Held(p, n + 1)
    BY <1>1, <1>6, <2>1, <2>2
  <2>4. Excess(p, h[k], n + 1) = Excess(p, h[k], n) - 1
    <3>1. h[k] \in Nat /\ h[k] <= n
      BY <2>2
    <3> QED BY <3>1, ExcessOn
  <2>5. f + k \in 1 .. Len(q) - 1 /\ r[f + k] = q[f + k] /\ q[f + k] = p[h[k]]
    <3>1. f + k \in 1 .. Len(q) - 1
      <4>1. /\ f \in {0, 1} /\ Len(h) \in Nat /\ Len(q) = f + Len(h)
            /\ k \in Nat /\ k >= 1 /\ k <= Len(h) - 1
        BY <1>1, <1>2, <2>1
      <4> QED BY <4>1
    <3> QED BY <1>2, <1>5, <2>1, <3>1
  <2>6. h[k] \in 1 .. n + 1
    BY <2>2
  <2> QED BY <1>1, <1>4, <2>1, <2>2, <2>3, <2>4, <2>5, <2>6
<1>9. ASSUME NEW x \in 1 .. n + 1, x \in Held(p, n + 1)
      PROVE  \E k \in 1 .. Len(less) : less[k] = x
  <2>1. x \in 1 .. n
    BY <1>7, <1>9
  <2>2. x \in Held(p, n) /\ Excess(p, x, n) >= 1
    BY <1>6, <1>9, <2>1
  <2>3. PICK k \in 1 .. Len(h) : h[k] = x
    BY <1>1, <2>1, <2>2
  <2>4. k \in 1 .. Len(less)
    <3>1. Excess(p, x, n) = Len(h) - k
      BY <1>1, <2>3
    <3> QED BY <1>1, <1>4, <2>2, <3>1
  <2> QED BY <1>8, <2>3, <2>4
<1>10. \A i, j \in 1 .. Len(less) : i < j => less[i] < less[j]
  BY <1>1, <1>8
<1>11. less \in Ascending(n + 1, Held(p, n + 1))
  BY <1>4, <1>8, <1>9, <1>10 DEF Ascending
<1>12. Len(r) = f + Len(less)
  BY <1>1, <1>2, <1>4, <1>5
<1>13. f = 1 => r[1] = Root
  BY <1>1, <1>2, <1>5
<1>14. less \in Kept(p, n + 1, r)
  BY <1>3, <1>8, <1>11, <1>12, <1>13 DEF Kept
<1>15. Last(q) = p[h[Len(h)]] /\ IsName(Last(q))
  <2>1. Len(h) \in 1 .. Len(h)
    BY <1>1
  <2>2. h[Len(h)] \in Held(p, n) /\ q[f + Len(h)] = p[h[Len(h)]]
    BY <1>1, <1>2, <2>1
  <2> QED BY <1>2, <1>5, <2>2 DEF Held, StaysBy
<1> QED BY <1>5, <1>14, <1>15 DEF less, r

\* and nothing where there is none.
LEMMA PopNothing ==
  ASSUME NEW p, NEW n \in Nat, p[n + 1] = Up, NEW q, <<>> \in Kept(p, n, q)
  PROVE  <<>> \in Kept(p, n + 1, q)
<1> DEFINE h == <<>>
<1>1. h \in Seq(Nat) /\ Len(h) = 0
  OBVIOUS
<1>2. h \in Kept(p, n, q)
  OBVIOUS
<1> HIDE DEF h
<1>3. \A x \in 1 .. n : x \notin Held(p, n)
  BY <1>1, <1>2 DEF Kept, Ascending
<1>4. ASSUME NEW x \in 1 .. n + 1 PROVE x \notin Held(p, n + 1)
  <2>1. CASE x = n + 1
    BY <2>1 DEF Held, StaysBy, IsName
  <2>2. CASE x \in 1 .. n
    BY <1>3, <2>2, StaysOn DEF Held
  <2> QED BY <2>1, <2>2
<1>5. h \in Ascending(n + 1, Held(p, n + 1))
  BY <1>1, <1>4 DEF Ascending
<1>6. RootOf(p, n + 1) = RootOf(p, n)
  <2>1. n = 0 => p[1] # Root
    BY DirectoryAssumption
  <2> QED BY <2>1 DEF RootOf
<1>7. h \in Kept(p, n + 1, q)
  BY <1>1, <1>2, <1>5, <1>6 DEF Kept
<1> QED BY <1>7 DEF h

\* A "." changes nothing.
LEMMA SkipHere ==
  ASSUME NEW p, NEW n \in Nat, p[n + 1] = Here, NEW q, NEW h \in Kept(p, n, q)
  PROVE  h \in Kept(p, n + 1, q)
<1>1. /\ h \in Seq(Nat) /\ Len(h) \in Nat
      /\ \A k \in 1 .. Len(h) : h[k] \in 1 .. n /\ Excess(p, h[k], n) = Len(h) - k
      /\ h \in Ascending(n, Held(p, n))
  BY LenProperties DEF Kept, Ascending
<1>2. ASSUME NEW i \in 1 .. n PROVE Excess(p, i, n + 1) = Excess(p, i, n)
  <2>1. i \in Nat /\ i <= n
    OBVIOUS
  <2> QED BY <2>1, ExcessOn
<1>3. \A i \in 1 .. n : i \in Held(p, n + 1) <=> i \in Held(p, n)
  BY <1>2, StaysOn DEF Held
<1>4. n + 1 \notin Held(p, n + 1)
  BY DEF Held, StaysBy, IsName
<1>5. h \in Ascending(n, Held(p, n + 1))
  BY <1>1, <1>3 DEF Ascending
<1>6. h \in Ascending(n + 1, Held(p, n + 1))
  <2> DEFINE S == Held(p, n + 1)
  <2>1. (IF n + 1 \in S THEN Append(h, n + 1) ELSE h) \in Ascending(n + 1, S)
    <3> HIDE DEF S
    <3> QED BY <1>5, AscendingOn DEF S
  <2> QED BY <1>4, <2>1
<1>7. RootOf(p, n + 1) = RootOf(p, n)
  <2>1. n = 0 => p[1] # Root
    BY DirectoryAssumption
  <2> QED BY <2>1 DEF RootOf
<1>8. \A k \in 1 .. Len(h) : Excess(p, h[k], n + 1) = Len(h) - k
  BY <1>1, <1>2
<1> QED BY <1>6, <1>7, <1>8 DEF Kept

\* The root is the first to come.
LEMMA PushRoot ==
  ASSUME NEW p, p[1] = Root, NEW q \in Seq(Stackable), NEW h \in Kept(p, 0, q)
  PROVE  h = <<>> /\ q = <<>> /\ h \in Kept(p, 1, <<Root>>)
<1>1. h \in Seq(Nat) /\ \A k \in 1 .. Len(h) : h[k] \in 1 .. 0
  BY DEF Kept, Ascending
<1>2. Len(h) = 0
  BY <1>1, LenProperties
<1>3. h = <<>> /\ q = <<>>
  <2>1. Len(q) = 0
    <3>1. RootOf(p, 0) = 0
      BY DEF RootOf
    <3>2. Len(q) = RootOf(p, 0) + Len(h)
      BY DEF Kept
    <3> QED BY <1>2, <3>1, <3>2
  <2> QED BY <1>1, <1>2, <2>1, EmptySeq
<1>4. 1 \notin Held(p, 1)
  BY DEF Held, StaysBy, IsName
<1>5. h \in Ascending(1, Held(p, 1))
  BY <1>1, <1>2, <1>4 DEF Ascending
<1>6. RootOf(p, 1) = 1 /\ Len(<<Root>>) = 1 /\ <<Root>>[1] = Root
  BY DEF RootOf
<1>7. h \in Kept(p, 1, <<Root>>)
  BY <1>2, <1>5, <1>6 DEF Kept
<1> QED BY <1>3, <1>7

\* So the stack holds the names that still stay, after every component.
LEMMA PushOn ==
  ASSUME NEW p, IsPath(p, Names), NEW n \in 0 .. Len(p) - 1,
         NEW q \in Seq(Stackable), Kept(p, n, q) # {}
  PROVE  /\ Push(q, p[n + 1]) \in Seq(Stackable)
         /\ Kept(p, n + 1, Push(q, p[n + 1])) # {}
<1>1. PICK h : h \in Kept(p, n, q)
  OBVIOUS
<1>2. /\ n \in Nat /\ p[n + 1] \in Names \cup {Root, Up, Here}
      /\ p[n + 1] = Root => n = 0
  <2>1. n + 1 \in 1 .. Len(p) /\ DOMAIN p = 1 .. Len(p) /\ Len(p) \in Nat
    BY LenProperties DEF IsPath
  <2> QED BY <2>1, LenProperties DEF IsPath
<1>3. CASE IsName(p[n + 1])
  <2>1. Push(q, p[n + 1]) = Append(q, p[n + 1])
    BY <1>3, DirectoryAssumption DEF Push, IsName
  <2>2. p[n + 1] \in Stackable
    BY <1>2, <1>3 DEF IsName, Stackable
  <2> QED BY <1>1, <1>3, <2>1, <2>2, PushName, AppendProperties
<1>4. CASE p[n + 1] = Up /\ h # <<>>
  <2>1. /\ Front(h) \in Kept(p, n + 1, Front(q))
        /\ q # <<>> /\ IsName(Last(q))
    BY <1>1, <1>2, <1>4, PopName
  <2>2. Push(q, p[n + 1]) = Front(q)
    BY <1>4, <2>1, DirectoryAssumption DEF Push, IsName
  <2> QED BY <2>1, <2>2, FrontOf
<1>5. CASE p[n + 1] = Up /\ h = <<>>
  <2>1. <<>> \in Kept(p, n + 1, q)
    BY <1>1, <1>2, <1>5, PopNothing
  <2>2. ~(q # <<>> /\ IsName(Last(q)))
    <3> SUFFICES ASSUME q # <<>> PROVE ~IsName(Last(q))
      OBVIOUS
    <3>1. Len(q) \in Nat \ {0} /\ Last(q) = q[Len(q)]
      BY FrontOf
    <3>2. Len(q) = RootOf(p, n) + Len(h) /\ (RootOf(p, n) = 1 => q[1] = Root)
      BY <1>1 DEF Kept
    <3>3. Len(h) = 0
      BY <1>5
    <3>4. Len(q) = 1 /\ q[1] = Root
      BY <3>1, <3>2, <3>3 DEF RootOf
    <3> QED BY <3>1, <3>4 DEF IsName
  <2>3. Push(q, p[n + 1]) = q
    BY <1>5, <2>2, DirectoryAssumption DEF Push, IsName
  <2> QED BY <2>1, <2>3
<1>6. CASE p[n + 1] = Here
  <2>1. Push(q, p[n + 1]) = q
    BY <1>6, DirectoryAssumption DEF Push, IsName
  <2> QED BY <1>1, <1>2, <1>6, <2>1, SkipHere
<1>7. CASE p[n + 1] = Root
  <2>1. n = 0 /\ p[1] = Root
    BY <1>2, <1>7
  <2>2. q = <<>> /\ h \in Kept(p, 1, <<Root>>)
    BY <1>1, <2>1, PushRoot
  <2>3. Push(q, p[n + 1]) = <<Root>>
    BY <1>7, <2>2, DirectoryAssumption DEF Push, IsName
  <2>4. <<Root>> \in Seq(Stackable) /\ n + 1 = 1
    BY <2>1 DEF Stackable
  <2> QED BY <2>2, <2>3, <2>4
<1> QED BY <1>2, <1>3, <1>4, <1>5, <1>6, <1>7 DEF IsName

\* The stacks of the loop, one after the other.
Stacks(p) ==
  {stack \in [0 .. Len(p) -> Seq(Stackable)] :
    /\ stack[0] = <<>>
    /\ \A i \in 1 .. Len(p) : stack[i] = Push(stack[i - 1], p[i])}

\* Push keeps names and the root.
LEMMA PushTyped ==
  ASSUME NEW q \in Seq(Stackable), NEW c \in Names \cup {Root, Up, Here}
  PROVE  Push(q, c) \in Seq(Stackable)
<1>1. CASE c = Root \/ IsName(c)
  <2>1. c \in Stackable
    BY <1>1 DEF Stackable, IsName
  <2>2. Push(q, c) = Append(q, c)
    BY <1>1, DirectoryAssumption DEF Push, IsName
  <2> QED BY <2>1, <2>2, AppendProperties
<1>2. CASE ~(c = Root \/ IsName(c))
  <2>1. Push(q, c) = q \/ (q # <<>> /\ Push(q, c) = Front(q))
    BY <1>2 DEF Push
  <2> QED BY <2>1, FrontOf
<1> QED BY <1>1, <1>2

\* Normalize gives the last of them, or the root.
LEMMA NormalizeSteps ==
  ASSUME NEW p, IsPath(p, Names)
  PROVE  \E stack \in Stacks(p) :
           Normalize(p) = IF stack[Len(p)] = <<>> THEN <<Root>> ELSE stack[Len(p)]
<1> DEFINE n == Len(p)
           T == Seq(Stackable)
           Rec(g) == [i \in 0 .. n |-> IF i = 0 THEN <<>> ELSE Push(g[i - 1], p[i])]
           go == [i \in Nat |-> [q \in T |-> IF i \in 1 .. n THEN Push(q, p[i]) ELSE q]]
           stack == CHOOSE g : g = Rec(g)
<1>1. n \in Nat /\ <<>> \in T /\ \A i \in 1 .. n : p[i] \in Names \cup {Root, Up, Here}
  BY LenProperties, EmptySeq DEF IsPath
<1>2. go \in [Nat -> [T -> T]]
  BY <1>1, PushTyped
<1>3. PICK f \in [0 .. n -> T] : f[0] = <<>> /\ \A i \in 1 .. n : f[i] = go[i][f[i - 1]]
  <2>1. Runs(T, <<>>, n, go) # {}
    <3> HIDE DEF go, n, T
    <3> QED BY <1>1, <1>2, Iterates
  <2> HIDE DEF go, n, T
  <2> QED BY <2>1 DEF Runs
<1>4. ASSUME NEW i \in 0 .. n PROVE f[i] = IF i = 0 THEN <<>> ELSE Push(f[i - 1], p[i])
  <2>1. CASE i = 0
    BY <1>3, <2>1
  <2>2. CASE i # 0
    <3>1. i \in 1 .. n /\ i \in Nat /\ f[i - 1] \in T
      BY <1>1, <1>3, <2>2
    <3>2. go[i][f[i - 1]] = Push(f[i - 1], p[i])
      BY <3>1
    <3> HIDE DEF go, n, T
    <3> QED BY <1>3, <2>2, <3>1, <3>2
  <2> QED BY <2>1, <2>2
<1>5. f = Rec(f)
  <2> HIDE DEF n, T
  <2>1. f = [i \in 0 .. n |-> f[i]]
    BY <1>3
  <2> QED BY <1>4, <2>1, Zenon
<1>6. stack = Rec(stack)
  <2> HIDE DEF Rec
  <2> QED BY <1>5
<1>7. Normalize(p) = IF stack[n] = <<>> THEN <<Root>> ELSE stack[n]
  BY DEF Normalize
<1> HIDE DEF stack
<1>8. \A i \in 0 .. n : stack[i] = IF i = 0 THEN <<>> ELSE Push(stack[i - 1], p[i])
  <2>1. \A i \in 0 .. n : stack[i] = Rec(stack)[i]
    <3> HIDE DEF Rec
    <3> QED BY <1>6
  <2> HIDE DEF n
  <2>2. \A i \in 0 .. n : Rec(stack)[i] = IF i = 0 THEN <<>> ELSE Push(stack[i - 1], p[i])
    OBVIOUS
  <2> HIDE DEF Rec
  <2> QED BY <2>1, <2>2
<1> DEFINE P == {i \in 0 .. n : stack[i] \in T}
<1>9. \A i \in 0 .. n : i \in P
  <2> HIDE DEF n, T
  <2>1. 0 \in P
    BY <1>1, <1>8
  <2>2. ASSUME NEW i \in 0 .. n - 1, i \in P PROVE i + 1 \in P
    <3>1. i + 1 \in 0 .. n /\ i + 1 \in 1 .. n /\ i + 1 # 0 /\ (i + 1) - 1 = i
      BY <1>1
    <3>2. stack[i + 1] = Push(stack[i], p[i + 1])
      BY <1>8, <3>1
    <3>3. stack[i] \in T /\ p[i + 1] \in Names \cup {Root, Up, Here}
      BY <1>1, <2>2, <3>1
    <3> QED BY <3>1, <3>2, <3>3, PushTyped DEF T
  <2> HIDE DEF P
  <2> QED BY <1>1, <2>1, <2>2, UpTo
<1>10. stack \in [0 .. n -> T]
  <2> HIDE DEF n, T
  <2>1. stack = [i \in 0 .. n |-> Rec(stack)[i]]
    BY <1>6
  <2>2. \A i \in 0 .. n : Rec(stack)[i] \in T
    <3> HIDE DEF Rec
    <3> QED BY <1>6, <1>9
  <2> HIDE DEF Rec
  <2> QED BY <2>1, <2>2
<1>11. stack[0] = <<>> /\ \A i \in 1 .. n : stack[i] = Push(stack[i - 1], p[i])
  <2>1. 0 \in 0 .. n /\ \A i \in 1 .. n : i \in 0 .. n /\ i # 0
    BY <1>1
  <2> HIDE DEF n
  <2> QED BY <1>8, <2>1
<1> QED BY <1>7, <1>10, <1>11 DEF Stacks

\* The places of the names that stay to the end are those that Staying picks.
LEMMA StayingPlaces ==
  ASSUME NEW p, IsPath(p, Names), NEW h \in Ascending(Len(p), Held(p, Len(p)))
  PROVE  Staying(p) = [k \in 1 .. Len(h) |-> p[h[k]]]
<1> DEFINE n == Len(p)
           S == {i \in DOMAIN p : Stays(p, i)}
           kept == Only([i \in 1 .. n |-> i], S)
<1>1. n \in Nat /\ DOMAIN p = 1 .. n
  BY LenProperties DEF IsPath
<1>2. S = Held(p, n)
  BY <1>1, StaysToTheEnd DEF Held
<1>3. kept \in Ascending(n, S)
  <2> HIDE DEF n, S
  <2> QED BY <1>1, OnlyAscends
<1>4. kept = h
  <2> HIDE DEF kept, S
  <2> QED BY <1>1, <1>2, <1>3, AscendingAgree
<1>5. Staying(p) = [k \in 1 .. Len(kept) |-> p[kept[k]]]
  BY DEF Staying
<1> QED BY <1>4, <1>5

\* Normalize gives the root, if there is one or nothing else is left, and the
\* names that stay.
LEMMA Normalized ==
  ASSUME NEW p, IsPath(p, Names)
  PROVE  LET front == IF IsAbsolute(p) \/ Staying(p) = <<>> THEN <<Root>> ELSE <<>>
         IN /\ Normalize(p) = front \o Staying(p)
            /\ Staying(p) \in Seq(Names)
<1> DEFINE n == Len(p)
<1>1. n \in Nat /\ DOMAIN p = 1 .. n /\ \A i \in 1 .. n : p[i] \in Names \cup {Root, Up, Here}
  BY LenProperties DEF IsPath
<1>2. PICK stack \in Stacks(p) :
        Normalize(p) = IF stack[n] = <<>> THEN <<Root>> ELSE stack[n]
  BY NormalizeSteps
<1>3. /\ stack \in [0 .. n -> Seq(Stackable)] /\ stack[0] = <<>>
      /\ \A i \in 1 .. n : stack[i] = Push(stack[i - 1], p[i])
  BY DEF Stacks
<1> DEFINE P == {i \in 0 .. n : Kept(p, i, stack[i]) # {}}
<1>4. \A i \in 0 .. n : i \in P
  <2>1. 0 \in P
    <3>1. <<>> \in Kept(p, 0, <<>>)
      <4>1. <<>> \in Seq(Nat) /\ Len(<<>>) = 0 /\ RootOf(p, 0) = 0
        BY DEF RootOf
      <4>2. <<>> \in Ascending(0, Held(p, 0))
        BY <4>1 DEF Ascending
      <4> QED BY <4>1, <4>2 DEF Kept
    <3> QED BY <1>1, <1>3, <3>1
  <2>2. ASSUME NEW i \in 0 .. n - 1, i \in P PROVE i + 1 \in P
    <3>1. i + 1 \in 1 .. n /\ i + 1 \in 0 .. n /\ (i + 1) - 1 = i /\ stack[i] \in Seq(Stackable)
      BY <1>1, <1>3
    <3>2. stack[i + 1] = Push(stack[i], p[i + 1])
      BY <1>3, <3>1
    <3>3. Kept(p, i + 1, Push(stack[i], p[i + 1])) # {}
      BY <2>2, <3>1, PushOn
    <3> QED BY <3>1, <3>2, <3>3
  <2> HIDE DEF P
  <2> QED BY <1>1, <2>1, <2>2, UpTo
<1>5. PICK h : h \in Kept(p, n, stack[n])
  <2>1. n \in P
    BY <1>1, <1>4
  <2> QED BY <2>1
<1> DEFINE q == stack[n]
           f == RootOf(p, n)
           s == Staying(p)
<1> HIDE DEF n
<1>6. /\ h \in Ascending(n, Held(p, n)) /\ h \in Seq(Nat) /\ Len(h) \in Nat
      /\ \A k \in 1 .. Len(h) : h[k] \in 1 .. n /\ IsName(p[h[k]])
      /\ q \in Seq(Stackable) /\ Len(q) = f + Len(h) /\ f \in {0, 1}
      /\ f = 1 => q[1] = Root
      /\ \A k \in 1 .. Len(h) : q[f + k] = p[h[k]]
  <2>1. h \in Ascending(n, Held(p, n)) /\ h \in Seq(Nat) /\ Len(h) \in Nat
    BY <1>5, LenProperties DEF Kept, Ascending
  <2>2. \A k \in 1 .. Len(h) : h[k] \in 1 .. n /\ IsName(p[h[k]])
    BY <2>1 DEF Ascending, Held, StaysBy
  <2>3. q \in Seq(Stackable) /\ f \in {0, 1}
    BY <1>1, <1>3 DEF RootOf
  <2> QED BY <1>5, <2>1, <2>2, <2>3 DEF Kept
<1>7. s = [k \in 1 .. Len(h) |-> p[h[k]]]
  BY <1>6, StayingPlaces DEF n
<1>8. s \in Seq(Names) /\ Len(s) = Len(h) /\ \A k \in 1 .. Len(h) : s[k] = p[h[k]]
  <2>1. \A k \in 1 .. Len(h) : p[h[k]] \in Names
    BY <1>1, <1>6 DEF IsName
  <2> HIDE DEF s
  <2> QED BY <1>6, <1>7, <2>1
<1>9. IsAbsolute(p) <=> f = 1
  <2>1. IsAbsolute(p) <=> \E i \in 1 .. n : p[i] = Root
    BY <1>1 DEF IsAbsolute
  <2>2. \A i \in 1 .. n : p[i] = Root => i = 1
    BY <1>1 DEF IsPath
  <2> QED BY <1>1, <2>1, <2>2 DEF RootOf
<1> DEFINE front == IF IsAbsolute(p) \/ s = <<>> THEN <<Root>> ELSE <<>>
<1> HIDE DEF s, q, f
<1>10. s \in Seq(Stackable) /\ front \in Seq(Stackable)
  <2>1. Names \subseteq Stackable /\ Root \in Stackable
    BY DEF Stackable
  <2>2. s \in Seq(Stackable)
    BY <1>8, <2>1
  <2>3. <<Root>> \in Seq(Stackable) /\ <<>> \in Seq(Stackable)
    BY <2>1
  <2> QED BY <2>2, <2>3
<1>11. Normalize(p) = front \o s
  <2>1. CASE f = 1
    <3>1. front = <<Root>> /\ Len(front) = 1 /\ front[1] = Root
      BY <1>9, <2>1
    <3> HIDE DEF front
    <3>2. q # <<>> /\ Normalize(p) = q
      <4>1. Len(q) # 0
        BY <1>6, <2>1
      <4>2. q # <<>>
        BY <4>1
      <4> QED BY <1>2, <4>2 DEF q
    <3>3. q = front \o s
      <4>1. /\ front \o s \in Seq(Stackable) /\ Len(front \o s) = 1 + Len(s)
            /\ \A i \in 1 .. 1 + Len(s) :
                 (front \o s)[i] = IF i <= 1 THEN front[i] ELSE s[i - 1]
        BY <1>10, <3>1, ConcatProperties
      <4>2. ASSUME NEW i \in 1 .. Len(q) PROVE q[i] = (front \o s)[i]
        <5>1. CASE i = 1
          <6>1. 1 \in 1 .. 1 + Len(s)
            BY <1>6, <1>8
          <6> QED BY <1>6, <2>1, <3>1, <4>1, <5>1, <6>1
        <5>2. CASE i # 1
          <6>1. i - 1 \in 1 .. Len(h) /\ i \in 1 .. 1 + Len(s) /\ f + (i - 1) = i /\ ~(i <= 1)
            BY <1>6, <1>8, <2>1, <5>2
          <6>2. q[i] = p[h[i - 1]] /\ s[i - 1] = p[h[i - 1]]
            BY <1>6, <1>8, <6>1
          <6> QED BY <4>1, <6>1, <6>2
        <5> QED BY <5>1, <5>2
      <4> QED BY <1>6, <1>8, <2>1, <4>1, <4>2, SeqEqual
    <3> QED BY <3>2, <3>3
  <2>2. CASE f = 0 /\ Len(h) > 0
    <3>1. s # <<>> /\ front = <<>>
      BY <1>8, <1>9, <2>2
    <3>2. q # <<>> /\ Normalize(p) = q
      <4>1. Len(q) # 0
        BY <1>6, <2>2
      <4>2. q # <<>>
        BY <4>1
      <4> QED BY <1>2, <4>2 DEF q
    <3>3. q = s
      BY <1>6, <1>8, <1>10, <2>2, SeqEqual
    <3>4. <<>> \o s = s
      BY <1>10, ConcatEmptySeq
    <3> QED BY <3>1, <3>2, <3>3, <3>4
  <2>3. CASE f = 0 /\ Len(h) = 0
    <3>1. s = <<>> /\ q = <<>>
      BY <1>6, <1>8, <1>10, <2>3, EmptySeq
    <3>2. Normalize(p) = <<Root>> /\ front = <<Root>>
      BY <1>2, <3>1 DEF q
    <3>3. <<Root>> \o <<>> = <<Root>>
      <4>1. <<Root>> \in Seq(Stackable)
        BY DEF Stackable
      <4> QED BY <4>1, ConcatEmptySeq
    <3> QED BY <3>1, <3>2, <3>3
  <2> QED BY <1>6, <2>1, <2>2, <2>3
<1> QED BY <1>8, <1>11 DEF s

-----------------------------------------------------------------------------
(* Types *)

\* An iterator that is not finished has not passed the end of its cluster.
Iterators ==
  {i \in [cluster : 0 .. U32 - 1, entry : -1 .. EntriesPerCluster, finished : BOOLEAN] :
    ~i.finished => i.entry < EntriesPerCluster}

\* The inductive invariant.
IInv ==
  /\ vol \in Volumes /\ request \in Requests
  /\ path \in Seq(Stackable) /\ depth \in Nat
  /\ pc \in {"idle", "asked", "fetch", "use", "panicked"}
  /\ listing \in BOOLEAN
  /\ it \in Iterators
  /\ item \in Item
  /\ out \in Seq(Slot)
  /\ reply # NoReply <=> pc = "idle"

LEMMA Sizes ==
  /\ EntriesPerCluster \in Nat \ {0}
  /\ U32 \in Nat \ {0} /\ BytesPerCluster \in Nat \ {0} /\ EntryBytes \in Nat \ {0}
  /\ ReservedMarker \in 0 .. U32 /\ NumClusters \in Nat \ {0} /\ DeviceBytes \in Nat
<1>1. /\ U32 \in Nat \ {0} /\ BytesPerCluster \in Nat \ {0} /\ EntryBytes \in Nat \ {0}
      /\ ReservedMarker \in 0 .. U32 /\ NumClusters \in Nat \ {0} /\ DeviceBytes \in Nat
      /\ EntryBytes * 1 <= BytesPerCluster
  BY VolumeAssumption, DirectoryAssumption
<1>2. 1 <= BytesPerCluster \div EntryBytes /\ BytesPerCluster \div EntryBytes \in Nat
  BY <1>1, QuotientAtLeast, DivMod
<1> QED BY <1>1, <1>2 DEF EntriesPerCluster

LEMMA NewIteratorTyped ==
  ASSUME NEW c \in 0 .. U32 - 1 PROVE NewIterator(c) \in Iterators
BY Sizes DEF NewIterator, Iterators

\* Reads through cluster number 0 fail: the subtraction wraps.
LEMMA NothingBeforeOne ==
  ASSUME NEW place, place.cluster = 0, place.entry \in Nat
  PROVE  ~Readable(place)
<1>1. (0 - 1) % U32 = U32 - 1
  BY Sizes
<1>2. ClusterOffset(place.cluster) = (U32 - 1) * BytesPerCluster
  BY <1>1 DEF ClusterOffset
<1>3. DeviceBytes <= (U32 - 1) * BytesPerCluster /\ (U32 - 1) * BytesPerCluster \in Nat
  BY Sizes, DirectoryAssumption
<1>4. (place.entry + 1) * EntryBytes > 0
  <2>1. (place.entry + 1) * EntryBytes = (place.entry * EntryBytes) + EntryBytes
    BY Sizes
  <2>2. place.entry * EntryBytes \in Nat
    BY Sizes
  <2> QED BY <2>1, <2>2, Sizes
<1>5. (place.entry + 1) * EntryBytes \in Nat
  BY Sizes
<1> QED BY <1>2, <1>3, <1>4, <1>5, Sizes DEF Readable

\* Where a slot is read, there is one.
LEMMA PlaceTyped ==
  ASSUME vol \in Volumes, it \in Iterators, ~it.finished, HasPlace
  PROVE  /\ Place.cluster \in 0 .. U32 - 1 /\ Place.entry \in 0 .. EntriesPerCluster - 1
         /\ Crosses => Place.cluster \in 1 .. ReservedMarker - 1
         /\ ClusterAccepted(Place.cluster) /\ Readable(Place) =>
              /\ Place.cluster \in 1 .. NumClusters
              /\ vol.slots[Place.cluster][Place.entry] \in Slot
<1>1. it.cluster \in 0 .. U32 - 1 /\ it.entry \in -1 .. EntriesPerCluster
  BY DEF Iterators
<1>2. IsVolume(vol)
  BY DirectoryAssumption
<1>3. Crosses => Place.cluster \in 1 .. ReservedMarker - 1
  BY DEF Place, HasPlace, IsData
<1>4. Place.cluster \in 0 .. U32 - 1
  BY <1>1, <1>3, Sizes DEF Place
<1>5. Place.entry \in 0 .. EntriesPerCluster - 1
  BY <1>1, Sizes DEF Place, Crosses
<1>6. ClusterAccepted(Place.cluster) /\ Readable(Place) => Place.cluster \in 1 .. NumClusters
  <2>1. Place.cluster = 0 => ~Readable(Place)
    BY <1>5, NothingBeforeOne, Sizes
  <2> QED BY <1>4, <2>1, Sizes DEF ClusterAccepted
<1>7. Place.cluster \in 1 .. NumClusters => vol.slots[Place.cluster][Place.entry] \in Slot
  BY <1>2, <1>5 DEF IsVolume
<1> QED BY <1>3, <1>4, <1>5, <1>6, <1>7

LEMMA ReturnTyped ==
  ASSUME IInv, NEW outcome, outcome # NoReply, Return(outcome), UNCHANGED <<vol, request>>
  PROVE  IInv'
<1>1. NewIterator(0) \in Iterators
  BY NewIteratorTyped, Sizes
<1>2. <<Root>> \in Seq(Stackable) /\ <<>> \in Seq(Slot) /\ NoItem \in Item
  BY DEF Stackable, Item
<1> QED BY <1>1, <1>2 DEF IInv, Return

LEMMA ResolvedTyped ==
  ASSUME IInv, reply = NoReply, NEW slot, slot.first \in 0 .. U32 - 1, Resolved(slot),
         UNCHANGED <<vol, request>>
  PROVE  IInv'
<1>1. CASE Return(Found(slot)) \/ Return(Error("IsADirectory")) \/ Return(Error("NotADirectory"))
  <2>1. \A e : Found(slot) # NoReply /\ Error(e) # NoReply
    BY DEF Found, Error, NoReply
  <2> QED BY <1>1, <2>1, ReturnTyped
<1>2. CASE StartListing(slot.first)
  <2>1. NewIterator(slot.first) \in Iterators
    BY NewIteratorTyped
  <2>2. <<Root>> \in Seq(Stackable) /\ <<>> \in Seq(Slot) /\ NoItem \in Item
    BY DEF Stackable, Item
  <2> QED BY <1>2, <2>1, <2>2 DEF IInv, StartListing
<1> QED BY <1>1, <1>2 DEF Resolved

LEMMA NormalTyped ==
  ASSUME request \in Requests
  PROVE  Normalize(request.path) \in Seq(Stackable)
<1> DEFINE p == request.path
           front == IF IsAbsolute(p) \/ Staying(p) = <<>> THEN <<Root>> ELSE <<>>
<1>1. IsPath(p, Names)
  BY DirectoryAssumption
<1>2. Normalize(p) = front \o Staying(p) /\ Staying(p) \in Seq(Names)
  BY <1>1, Normalized
<1>3. Names \subseteq Stackable /\ Root \in Stackable
  BY DEF Stackable
<1>4. Staying(p) \in Seq(Stackable) /\ front \in Seq(Stackable)
  BY <1>2, <1>3
<1> HIDE DEF front, p
<1> QED BY <1>2, <1>4, ConcatProperties DEF p

LEMMA BeginTyped ==
  ASSUME IInv, Begin PROVE IInv'
<1> DEFINE normal == Normalize(request.path)
<1>1. pc = "asked" /\ reply = NoReply /\ UNCHANGED <<vol, request>>
  BY DEF Begin, IInv
<1>2. vol.root \in 0 .. U32 - 1
  BY DirectoryAssumption DEF IInv, IsVolume
<1>3. CASE Return(Error("NotFound"))
  <2>1. Error("NotFound") # NoReply
    BY DEF Error, NoReply
  <2> QED BY <1>1, <1>3, <2>1, ReturnTyped
<1>4. CASE Resolved(RootEntry(vol))
  <2>1. RootEntry(vol).first = vol.root
    BY DEF RootEntry
  <2> QED BY <1>1, <1>2, <1>4, <2>1, ResolvedTyped
<1>5. CASE /\ path' = normal /\ depth' = 2 /\ it' = NewIterator(vol.root) /\ pc' = "fetch"
           /\ UNCHANGED <<listing, item, out, reply>>
  <2>1. normal \in Seq(Stackable)
    BY NormalTyped DEF IInv
  <2>2. NewIterator(vol.root) \in Iterators
    BY <1>2, NewIteratorTyped
  <2> HIDE DEF normal
  <2> QED BY <1>1, <1>5, <2>1, <2>2 DEF IInv
<1> QED BY <1>3, <1>4, <1>5 DEF Begin

LEMMA FetchTyped ==
  ASSUME IInv, Fetch PROVE IInv'
<1>1. /\ pc = "fetch" /\ reply = NoReply
      /\ UNCHANGED <<vol, request, path, depth, listing, out, reply>>
  BY DEF Fetch, IInv
<1> SUFFICES it' \in Iterators /\ item' \in Item /\ pc' \in {"use", "panicked"}
  BY <1>1 DEF IInv
<1>2. it \in Iterators /\ item \in Item /\ vol \in Volumes
  BY DEF IInv
<1>3. CASE FetchFinished
  BY <1>2, <1>3 DEF FetchFinished, Item
<1>4. CASE FetchPanics
  BY <1>2, <1>4 DEF FetchPanics
<1>5. CASE FetchChainEnds
  <2>1. it.cluster \in 0 .. U32 - 1 /\ it.entry \in -1 .. EntriesPerCluster - 1
    BY <1>2, <1>5, Sizes DEF FetchChainEnds, Iterators
  <2>2. it' = [cluster |-> it.cluster, entry |-> it.entry + 1, finished |-> TRUE]
    BY <1>2, <1>5 DEF FetchChainEnds, Yield, Iterators
  <2>3. it' \in Iterators
    BY <2>1, <2>2, Sizes DEF Iterators
  <2> QED BY <1>5, <2>3 DEF FetchChainEnds, Yield, Item
<1>6. ASSUME ~it.finished, HasPlace, NEW finished \in BOOLEAN, NEW what \in Item,
             Yield(Place, finished, what)
      PROVE  it' \in Iterators /\ item' \in Item /\ pc' \in {"use", "panicked"}
  <2>1. Place.cluster \in 0 .. U32 - 1 /\ Place.entry \in 0 .. EntriesPerCluster - 1
    BY <1>2, <1>6, PlaceTyped
  <2> QED BY <1>6, <2>1, Sizes DEF Yield, Iterators
<1>7. CASE FetchRefused
  BY <1>6, <1>7 DEF FetchRefused, Item
<1>8. CASE FetchUnreadable
  BY <1>6, <1>8 DEF FetchUnreadable, Item
<1>9. CASE FetchSlot
  <2> DEFINE slot == vol.slots[Place.cluster][Place.entry]
  <2>1. slot \in Slot
    BY <1>2, <1>9, PlaceTyped DEF FetchSlot
  <2>2. Found(slot) \in Item /\ (slot.kind = "end") \in BOOLEAN
    BY <2>1 DEF Item
  <2> QED BY <1>6, <1>9, <2>2 DEF FetchSlot
<1> QED BY <1>3, <1>4, <1>5, <1>7, <1>8, <1>9 DEF Fetch

LEMMA UseInPathTyped ==
  ASSUME IInv, UseInPath PROVE IInv'
<1>1. pc = "use" /\ reply = NoReply /\ UNCHANGED <<vol, request>>
  BY DEF UseInPath, IInv
<1>2. item \in Item
  BY DEF IInv
<1>3. CASE item = NoItem /\ Return(Error("NotFound"))
  <2>1. Error("NotFound") # NoReply
    BY DEF Error, NoReply
  <2> QED BY <1>1, <1>3, <2>1, ReturnTyped
<1>4. CASE item.kind = "error" /\ Return(item)
  <2>1. item # NoReply
    BY <1>4 DEF NoReply
  <2> QED BY <1>1, <1>4, <2>1, ReturnTyped
<1>5. CASE item.kind = "entry"
  <2>1. item.entry \in Slot
    BY <1>2, <1>5 DEF Item, NoItem, Found, Error
  <2>2. item.entry.first \in 0 .. U32 - 1
    BY <2>1 DEF Slot
  <2>3. CASE Panic
    BY <1>1, <2>3 DEF Panic, IInv, locals
  <2>4. CASE FetchNext
    BY <1>1, <2>4 DEF FetchNext, IInv, locals
  <2>5. CASE Resolved(item.entry)
    BY <1>1, <2>2, <2>5, ResolvedTyped
  <2>6. CASE Descend
    <3>1. CASE Return(Error("NotADirectory"))
      <4>1. Error("NotADirectory") # NoReply
        BY DEF Error, NoReply
      <4> QED BY <1>1, <3>1, <4>1, ReturnTyped
    <3>2. CASE /\ it' = NewIterator(item.entry.first) /\ depth' = depth + 1
               /\ pc' = "fetch" /\ UNCHANGED <<path, listing, item, out, reply>>
      <4>1. NewIterator(item.entry.first) \in Iterators
        BY <2>2, NewIteratorTyped
      <4> QED BY <1>1, <3>2, <4>1 DEF IInv
    <3> QED BY <2>6, <3>1, <3>2 DEF Descend
  <2> QED BY <1>5, <2>3, <2>4, <2>5, <2>6 DEF UseInPath, NoItem
<1> QED BY <1>3, <1>4, <1>5 DEF UseInPath

LEMMA UseInListingTyped ==
  ASSUME IInv, UseInListing PROVE IInv'
<1>1. pc = "use" /\ reply = NoReply /\ UNCHANGED <<vol, request>>
  BY DEF UseInListing, IInv
<1>2. CASE Return(Listed(out))
  <2>1. Listed(out) # NoReply
    BY DEF Listed, NoReply
  <2> QED BY <1>1, <1>2, <2>1, ReturnTyped
<1>3. CASE Panic
  BY <1>1, <1>3 DEF Panic, IInv, locals
<1>4. CASE FetchNext
  BY <1>1, <1>4 DEF FetchNext, IInv, locals
<1>5. CASE /\ Shows /\ out' = Append(out, item.entry) /\ pc' = "fetch"
           /\ UNCHANGED <<path, depth, listing, it, item, reply>>
  <2>1. item.entry \in Slot
    BY <1>5 DEF IInv, Item, NoItem, Found, Error, Shows
  <2>2. out' \in Seq(Slot)
    BY <1>5, <2>1, AppendProperties DEF IInv
  <2> QED BY <1>1, <1>5, <2>2 DEF IInv
<1> QED BY <1>2, <1>3, <1>4, <1>5 DEF UseInListing

LEMMA InitTyped == Init => IInv
<1> SUFFICES ASSUME Init PROVE IInv
  OBVIOUS
<1>1. NewIterator(0) \in Iterators
  BY NewIteratorTyped, Sizes
<1>2. <<Root>> \in Seq(Stackable) /\ <<>> \in Seq(Slot) /\ NoItem \in Item
  BY DEF Stackable, Item
<1> QED BY <1>1, <1>2 DEF Init, IInv

LEMMA NextTyped ==
  ASSUME IInv, [Next]_vars PROVE IInv'
<1>1. CASE Ask
  BY <1>1 DEF Ask, IInv, locals
<1>2. CASE UNCHANGED vars
  BY <1>2 DEF vars, IInv
<1> QED BY <1>1, <1>2, BeginTyped, FetchTyped, UseInPathTyped, UseInListingTyped DEF Next, Scan

LEMMA Invariant == Spec => []IInv
BY InitTyped, NextTyped, PTL DEF Spec

\* The fields of the iterator keep within their ranges, no index of a slot
\* leaves its cluster, and a call has a reply when it is over and not before.
THEOREM TypeCorrect == Spec => []TypeOK
<1>1. IInv => TypeOK
  <2> SUFFICES ASSUME IInv PROVE TypeOK
    OBVIOUS
  <2>1. \A i \in DOMAIN path : path[i] \in Names \cup {Root}
    BY LenProperties DEF IInv, Stackable
  <2>2. \A i \in DOMAIN out : out[i] \in Slot
    BY LenProperties DEF IInv
  <2> QED BY <2>1, <2>2 DEF IInv, TypeOK, Iterators
<1> QED BY <1>1, Invariant, PTL

\* normalize_virtual_path keeps the names that no ".." takes away, for every
\* path that a call is made for.
THEOREM PathsNormalized == Spec => []NormalizedPath
<1>1. IInv => NormalizedPath
  <2> SUFFICES ASSUME IInv PROVE NormalizedPath
    OBVIOUS
  <2>1. IsPath(request.path, Names)
    BY DirectoryAssumption DEF IInv
  <2> QED BY <2>1, Normalized DEF NormalizedPath
<1> QED BY <1>1, Invariant, PTL

-----------------------------------------------------------------------------
(* The tree that a volume's clusters stand for. *)

\* A volume that is well formed does not stray.
LEMMA WellFormedHolds ==
  ASSUME NEW v, WellFormed(v) PROVE Unstraying(v)
BY DEF WellFormed, Unstraying, ChainHolds, CutsOff

SlotCount(v, d) == Len(v.chains[d]) * EntriesPerCluster

LEMMA SlotsTyped ==
  ASSUME NEW v \in Volumes, NEW d \in DOMAIN v.chains
  PROVE  /\ v.chains[d] \in Seq(DataCluster) /\ SlotCount(v, d) \in Nat
         /\ SlotsOf(v, d) \in Seq(Slot) /\ Len(SlotsOf(v, d)) = SlotCount(v, d)
         /\ \A i \in 1 .. SlotCount(v, d) :
              /\ (i - 1) \div EntriesPerCluster + 1 \in 1 .. Len(v.chains[d])
              /\ (i - 1) % EntriesPerCluster \in 0 .. EntriesPerCluster - 1
              /\ SlotsOf(v, d)[i] = v.slots[v.chains[d][(i - 1) \div EntriesPerCluster + 1]]
                                           [(i - 1) % EntriesPerCluster]
<1> DEFINE chain == v.chains[d]
           n == SlotCount(v, d)
<1>1. chain \in Seq(DataCluster) /\ Len(chain) \in Nat
  BY DirectoryAssumption, LenProperties DEF IsVolume
<1>2. n \in Nat /\ n = EntriesPerCluster * Len(chain)
  BY <1>1, Sizes DEF SlotCount
<1>3. ASSUME NEW i \in 1 .. n
      PROVE  /\ (i - 1) \div EntriesPerCluster + 1 \in 1 .. Len(chain)
             /\ (i - 1) % EntriesPerCluster \in 0 .. EntriesPerCluster - 1
  <2>1. i - 1 \in Nat /\ i - 1 < EntriesPerCluster * Len(chain)
    BY <1>2
  <2>2. (i - 1) \div EntriesPerCluster < Len(chain)
    BY <1>1, <2>1, Sizes, QuotientBelow
  <2>3. (i - 1) \div EntriesPerCluster \in Nat
        /\ (i - 1) % EntriesPerCluster \in 0 .. EntriesPerCluster - 1
    BY <2>1, Sizes, DivMod
  <2> QED BY <1>1, <2>2, <2>3
<1>4. SlotsOf(v, d) =
        [i \in 1 .. n |-> v.slots[chain[(i - 1) \div EntriesPerCluster + 1]]
                                [(i - 1) % EntriesPerCluster]]
  BY DEF SlotsOf, SlotCount
<1>5. \A i \in 1 .. n : v.slots[chain[(i - 1) \div EntriesPerCluster + 1]]
                               [(i - 1) % EntriesPerCluster] \in Slot
  <2>1. v.slots \in [1 .. NumClusters -> [0 .. EntriesPerCluster - 1 -> Slot]]
    BY DirectoryAssumption DEF IsVolume
  <2>2. \A k \in 1 .. Len(chain) : chain[k] \in 1 .. NumClusters
    BY <1>1, Sizes DEF DataCluster
  <2> HIDE DEF chain, n
  <2> QED BY <1>3, <2>1, <2>2
<1>6. SlotsOf(v, d) \in Seq(Slot) /\ Len(SlotsOf(v, d)) = n
  <2> HIDE DEF chain, n
  <2> QED BY <1>2, <1>4, <1>5
<1>7. \A i \in 1 .. n : SlotsOf(v, d)[i] = v.slots[chain[(i - 1) \div EntriesPerCluster + 1]]
                                           [(i - 1) % EntriesPerCluster]
  BY <1>4
<1> QED BY <1>1, <1>2, <1>3, <1>6, <1>7

\* The entries among the first n slots of a directory.
Valid == {slot \in Slot : IsValid(slot)}
Used(v, d, n) == Only(SubSeq(SlotsOf(v, d), 1, n), Valid)

LEMMA UsedOn ==
  ASSUME NEW v \in Volumes, NEW d \in DOMAIN v.chains, NEW n \in 0 .. SlotCount(v, d)
  PROVE  /\ Used(v, d, 0) = <<>>
         /\ Used(v, d, n) \in Seq(Valid)
         /\ n > 0 => Used(v, d, n) =
              IF IsValid(SlotsOf(v, d)[n])
                THEN Append(Used(v, d, n - 1), SlotsOf(v, d)[n]) ELSE Used(v, d, n - 1)
<1> DEFINE slots == SlotsOf(v, d)
<1>1. slots \in Seq(Slot) /\ Len(slots) = SlotCount(v, d)
  BY SlotsTyped
<1> HIDE DEF slots
<1>2. Slot \cap Valid = Valid
  BY DEF Valid
<1>3. n > 0 => (slots[n] \in Valid <=> IsValid(slots[n]))
  BY <1>1, LenProperties DEF Valid
<1>4. /\ Only(SubSeq(slots, 1, 0), Valid) = <<>>
      /\ Only(SubSeq(slots, 1, n), Valid) \in Seq(Slot \cap Valid)
  BY <1>1, OnlyFirst
<1>5. ASSUME n > 0
      PROVE  /\ slots[n] \in Valid => Only(SubSeq(slots, 1, n), Valid) =
                  Append(Only(SubSeq(slots, 1, n - 1), Valid), slots[n])
             /\ slots[n] \notin Valid => Only(SubSeq(slots, 1, n), Valid) =
                  Only(SubSeq(slots, 1, n - 1), Valid)
  <2>1. n \in 1 .. Len(slots)
    BY <1>1, <1>5
  <2> QED BY <1>1, <2>1, OnlyNext
<1> QED BY <1>2, <1>3, <1>4, <1>5 DEF Used, slots

\* They stay where they are as more slots follow, and come from the slots.
LEMMA UsedGrows ==
  ASSUME NEW v \in Volumes, NEW d \in DOMAIN v.chains, NEW m \in 0 .. SlotCount(v, d),
         NEW n \in 0 .. m
  PROVE  /\ Len(Used(v, d, n)) <= Len(Used(v, d, m))
         /\ \A i \in 1 .. Len(Used(v, d, n)) : Used(v, d, m)[i] = Used(v, d, n)[i]
<1>1. SlotsOf(v, d) \in Seq(Slot) /\ Len(SlotsOf(v, d)) = SlotCount(v, d)
  BY SlotsTyped
<1> QED BY <1>1, OnlyGrows DEF Used

LEMMA UsedFrom ==
  ASSUME NEW v \in Volumes, NEW d \in DOMAIN v.chains, NEW n \in 0 .. SlotCount(v, d)
  PROVE  \A k \in 1 .. Len(Used(v, d, n)) : \E i \in 1 .. n :
           IsValid(SlotsOf(v, d)[i]) /\ Used(v, d, n)[k] = SlotsOf(v, d)[i]
<1> DEFINE from(m) == \A k \in 1 .. Len(Used(v, d, m)) : \E i \in 1 .. m :
             IsValid(SlotsOf(v, d)[i]) /\ Used(v, d, m)[k] = SlotsOf(v, d)[i]
           P == {m \in 0 .. n : from(m)}
<1>1. SlotCount(v, d) \in Nat
  BY SlotsTyped
<1>2. 0 \in P
  <2>1. Len(Used(v, d, 0)) = 0
    BY <1>1, UsedOn
  <2> QED BY <1>1, <2>1
<1>3. ASSUME NEW m \in 0 .. n - 1, m \in P PROVE m + 1 \in P
  <2> DEFINE old == Used(v, d, m)
             new == Used(v, d, m + 1)
             slot == SlotsOf(v, d)[m + 1]
  <2>1. m + 1 \in 0 .. n /\ m + 1 > 0 /\ (m + 1) - 1 = m /\ m \in 0 .. SlotCount(v, d)
        /\ m + 1 \in 0 .. SlotCount(v, d)
    BY <1>1
  <2>2. new = IF IsValid(slot) THEN Append(old, slot) ELSE old
    BY <2>1, UsedOn
  <2>3. slot \in Slot
    BY <2>1, SlotsTyped, LenProperties
  <2>4. old \in Seq(Valid) /\ Len(old) \in Nat
    BY <2>1, UsedOn, LenProperties
  <2>5. IsValid(slot) => slot \in Valid
    BY <2>3 DEF Valid
  <2>6. \A k \in 1 .. Len(old) : \E i \in 1 .. m : IsValid(SlotsOf(v, d)[i]) /\ old[k] = SlotsOf(v, d)[i]
    BY <1>3
  <2>7. ASSUME NEW k \in 1 .. Len(new)
        PROVE  \E i \in 1 .. m + 1 : IsValid(SlotsOf(v, d)[i]) /\ new[k] = SlotsOf(v, d)[i]
    <3>1. CASE IsValid(slot)
      <4>1. Len(new) = Len(old) + 1 /\ new[Len(old) + 1] = slot /\ \A j \in 1 .. Len(old) : new[j] = old[j]
        <5> HIDE DEF old, new, slot
        <5> QED BY <2>2, <2>4, <2>5, <3>1, AppendProperties
      <4>2. CASE k = Len(old) + 1
        BY <2>1, <3>1, <4>1, <4>2
      <4>3. CASE k # Len(old) + 1
        <5>1. k \in 1 .. Len(old)
          BY <2>4, <4>1, <4>3
        <5>2. PICK i \in 1 .. m : IsValid(SlotsOf(v, d)[i]) /\ old[k] = SlotsOf(v, d)[i]
          BY <2>6, <5>1
        <5>3. i \in 1 .. m + 1
          OBVIOUS
        <5> QED BY <4>1, <5>1, <5>2, <5>3
      <4> QED BY <4>2, <4>3
    <3>2. CASE ~IsValid(slot)
      <4>1. new = old
        BY <2>2, <3>2
      <4>2. PICK i \in 1 .. m : IsValid(SlotsOf(v, d)[i]) /\ old[k] = SlotsOf(v, d)[i]
        BY <2>6, <4>1
      <4>3. i \in 1 .. m + 1
        OBVIOUS
      <4> QED BY <4>1, <4>2, <4>3
    <3> QED BY <3>1, <3>2
  <2> QED BY <2>1, <2>7
<1>4. n \in P
  <2>1. \A m \in 0 .. n : m \in P
    <3> HIDE DEF P
    <3> QED BY <1>2, <1>3, UpTo
  <2> QED BY <2>1
<1> QED BY <1>4

\* No end marker is among the first n slots,
Passed(v, d, n) == \A i \in 1 .. n : SlotsOf(v, d)[i].kind # "end"

\* and one comes next, or no slot at all.
Marked(v, d) ==
  {m \in 0 .. SlotCount(v, d) :
    /\ Passed(v, d, m)
    /\ m < SlotCount(v, d) => SlotsOf(v, d)[m + 1].kind = "end"}

LEMMA MarkIsNext ==
  ASSUME NEW v \in Volumes, NEW d \in DOMAIN v.chains, NEW m \in Marked(v, d),
         NEW n \in 0 .. SlotCount(v, d), Passed(v, d, n)
  PROVE  /\ n <= m
         /\ n < SlotCount(v, d) /\ SlotsOf(v, d)[n + 1].kind # "end" => n + 1 <= m
         /\ n \in Marked(v, d) => n = m
<1>1. SlotCount(v, d) \in Nat
  BY SlotsTyped
<1>2. ASSUME NEW i \in Marked(v, d), NEW j \in 0 .. SlotCount(v, d), Passed(v, d, j) PROVE j <= i
  <2> SUFFICES ASSUME i < j PROVE FALSE
    BY <1>1 DEF Marked
  <2>1. i + 1 \in 1 .. j /\ i < SlotCount(v, d)
    BY <1>1 DEF Marked
  <2> QED BY <1>2, <2>1 DEF Marked, Passed
<1>3. ASSUME n < SlotCount(v, d), SlotsOf(v, d)[n + 1].kind # "end" PROVE n + 1 <= m
  <2>1. n + 1 \in 0 .. SlotCount(v, d) /\ \A i \in 1 .. n + 1 : i \in 1 .. n \/ i = n + 1
    BY <1>1, <1>3
  <2>2. Passed(v, d, n + 1)
    BY <1>3, <2>1 DEF Passed
  <2> QED BY <1>2, <2>1, <2>2
<1>4. m \in 0 .. SlotCount(v, d) /\ Passed(v, d, m)
  BY DEF Marked
<1> QED BY <1>1, <1>2, <1>3, <1>4

LEMMA EntriesUsed ==
  ASSUME NEW v \in Volumes, NEW d \in DOMAIN v.chains
  PROVE  \E m \in Marked(v, d) :
           EntriesOf(v, d) = Used(v, d, m) /\ (IsEnded(v, d) <=> m < SlotCount(v, d))
<1> DEFINE slots == SlotsOf(v, d)
           n == SlotCount(v, d)
           ends == {i \in DOMAIN slots : slots[i].kind = "end"}
           before == {i \in DOMAIN slots : \A j \in ends : i < j}
<1>1. n \in Nat /\ DOMAIN slots = 1 .. n
  BY SlotsTyped, LenProperties
<1>2. IsEnded(v, d) <=> ends # {}
  BY DEF IsEnded
<1>3. EntriesOf(v, d) = Used(v, d, Cardinality(before))
  BY DEF EntriesOf, Used, Valid
<1> HIDE DEF slots, n
<1>4. \E m \in 0 .. n : /\ before = 1 .. m /\ (ends # {} <=> m < n)
                        /\ \A i \in 1 .. m : slots[i].kind # "end"
                        /\ m < n => slots[m + 1].kind = "end"
  <2>1. CASE ends = {}
    <3>1. before = 1 .. n /\ \A i \in 1 .. n : slots[i].kind # "end"
      BY <1>1, <2>1
    <3>2. n \in 0 .. n /\ ~(n < n)
      BY <1>1
    <3> HIDE DEF before, ends
    <3> QED BY <2>1, <3>1, <3>2
  <2>2. CASE ends # {}
    <3>1. ends \in SUBSET Nat
      BY <1>1
    <3>2. PICK e \in ends : \A j \in ends : e <= j
      <4> HIDE DEF ends
      <4> QED BY <2>2, <3>1, LeastOf
    <3>3. e \in 1 .. n /\ slots[e].kind = "end"
      BY <1>1, <3>2
    <3>4. before = 1 .. e - 1
      BY <1>1, <3>2, <3>3
    <3>5. \A i \in 1 .. e - 1 : slots[i].kind # "end"
      BY <1>1, <3>2, <3>3
    <3>6. e - 1 \in 0 .. n /\ e - 1 < n /\ (e - 1) + 1 = e
      BY <1>1, <3>3
    <3> HIDE DEF before, ends
    <3> QED BY <2>2, <3>3, <3>4, <3>5, <3>6
  <2> QED BY <2>1, <2>2
<1>5. PICK m \in 0 .. n : /\ before = 1 .. m /\ (ends # {} <=> m < n)
                          /\ \A i \in 1 .. m : slots[i].kind # "end"
                          /\ m < n => slots[m + 1].kind = "end"
  BY <1>4
<1> HIDE DEF before, ends
<1>6. Cardinality(before) = m
  <2>1. Cardinality(1 .. m) = m
    BY FS_Interval
  <2> QED BY <1>5, <2>1
<1>7. m \in Marked(v, d)
  BY <1>5 DEF Marked, Passed, slots, n
<1> QED BY <1>2, <1>3, <1>5, <1>6, <1>7 DEF n

LEMMA TreeParts ==
  ASSUME NEW v \in Volumes
  PROVE  /\ TreeOf[v].root = v.root /\ TreeOf[v].damaged = ~WellFormed(v)
         /\ DOMAIN TreeOf[v].dirs = DOMAIN v.chains
         /\ \A d \in DOMAIN v.chains : /\ TreeOf[v].dirs[d].entries = EntriesOf(v, d)
                                       /\ TreeOf[v].dirs[d].ended = IsEnded(v, d)
         /\ RootEntry(TreeOf[v]) = RootEntry(v)
<1> DEFINE ds == [d \in DOMAIN v.chains |-> [entries |-> EntriesOf(v, d), ended |-> IsEnded(v, d)]]
<1>1. TreeOf[v] = [root |-> v.root, damaged |-> ~WellFormed(v), dirs |-> ds]
  BY DEF TreeOf
<1>2. TreeOf[v].root = v.root /\ TreeOf[v].damaged = ~WellFormed(v) /\ TreeOf[v].dirs = ds
  <2> HIDE DEF ds
  <2> QED BY <1>1
<1>3. DOMAIN ds = DOMAIN v.chains
      /\ \A d \in DOMAIN v.chains : ds[d].entries = EntriesOf(v, d) /\ ds[d].ended = IsEnded(v, d)
  OBVIOUS
<1> HIDE DEF ds
<1> QED BY <1>2, <1>3 DEF RootEntry

LEMMA EntriesTyped ==
  ASSUME NEW v \in Volumes, NEW d \in DOMAIN v.chains
  PROVE  EntriesOf(v, d) \in Seq(Slot)
<1>1. PICK m \in Marked(v, d) : EntriesOf(v, d) = Used(v, d, m)
  BY EntriesUsed
<1>2. Used(v, d, m) \in Seq(Valid)
  BY UsedOn DEF Marked
<1>3. Valid \subseteq Slot
  BY DEF Valid
<1> QED BY <1>1, <1>2, <1>3

\* Directories lead to directories.
LEMMA TreeLeadsOn ==
  ASSUME NEW v \in Volumes, Unstraying(v)
  PROVE  LeadsOn(TreeOf[v], Slot)
<1>1. v.root \in DOMAIN v.chains
  BY DEF Unstraying
<1>2. ASSUME NEW d \in DOMAIN v.chains
      PROVE  /\ EntriesOf(v, d) \in Seq(Slot)
             /\ \A i \in DOMAIN EntriesOf(v, d) :
                  EntriesOf(v, d)[i].kind = "dir" => EntriesOf(v, d)[i].first \in DOMAIN v.chains
  BY EntriesTyped DEF Unstraying
<1>3. \A d \in DOMAIN TreeOf[v].dirs :
        /\ d \in DOMAIN v.chains /\ TreeOf[v].dirs[d].entries = EntriesOf(v, d)
        /\ DOMAIN TreeOf[v].dirs = DOMAIN v.chains
  BY TreeParts
<1> QED BY <1>1, <1>2, <1>3, TreeParts DEF LeadsOn

\* No valid one among the first n slots has the name.
Missed(v, d, n, name) ==
  \A i \in 1 .. n : IsValid(SlotsOf(v, d)[i]) => SlotsOf(v, d)[i].name # name

\* The first valid slot of a name, before the end marker, is the entry of that
\* name in the tree.
LEMMA MatchIsChild ==
  ASSUME NEW v \in Volumes, Unstraying(v), NEW d \in DOMAIN v.chains,
         NEW n \in 0 .. SlotCount(v, d) - 1, Passed(v, d, n), NEW slot,
         slot = SlotsOf(v, d)[n + 1], IsValid(slot), Missed(v, d, n, slot.name)
  PROVE  /\ Child(TreeOf[v], d, slot.name) = Found(slot)
         /\ slot.kind = "dir" => slot.first \in DOMAIN v.chains
<1>1. SlotCount(v, d) \in Nat /\ n + 1 \in 0 .. SlotCount(v, d) /\ n \in 0 .. SlotCount(v, d)
      /\ n + 1 > 0 /\ (n + 1) - 1 = n /\ n < SlotCount(v, d)
  BY SlotsTyped
<1>2. PICK m \in Marked(v, d) : EntriesOf(v, d) = Used(v, d, m)
  BY EntriesUsed
<1>3. m \in 0 .. SlotCount(v, d) /\ n + 1 \in 0 .. m
  <2>1. slot.kind # "end"
    BY DEF IsValid
  <2>2. n + 1 <= m
    BY <1>1, <2>1, MarkIsNext
  <2> QED BY <1>1, <2>2 DEF Marked
<1> DEFINE old == Used(v, d, n)
           new == Used(v, d, n + 1)
           entries == Used(v, d, m)
           k == Len(old) + 1
<1>4. /\ old \in Seq(Valid) /\ Len(old) \in Nat /\ new = Append(old, slot)
      /\ entries \in Seq(Valid) /\ Len(entries) \in Nat
  BY <1>1, <1>3, UsedOn, LenProperties
<1>5. slot \in Valid
  <2>1. slot \in Slot
    BY <1>1, SlotsTyped, LenProperties
  <2> QED BY <2>1 DEF Valid
<1>6. Len(new) = k /\ new[k] = slot /\ \A j \in 1 .. Len(old) : new[j] = old[j]
  <2> HIDE DEF old, new
  <2> QED BY <1>4, <1>5, AppendProperties
<1>7. Len(new) <= Len(entries) /\ \A j \in 1 .. Len(new) : entries[j] = new[j]
  BY <1>3, UsedGrows
<1>8. \A j \in 1 .. Len(old) : old[j].name # slot.name
  <2> SUFFICES ASSUME NEW j \in 1 .. Len(old) PROVE old[j].name # slot.name
    OBVIOUS
  <2>1. PICK i \in 1 .. n : IsValid(SlotsOf(v, d)[i]) /\ old[j] = SlotsOf(v, d)[i]
    BY <1>1, UsedFrom
  <2> QED BY <2>1 DEF Missed
<1> HIDE DEF old, new, entries, k
<1>9. k \in DOMAIN entries /\ entries[k] = slot
  <2>1. k \in 1 .. Len(new) /\ k \in 1 .. Len(entries) /\ DOMAIN entries = 1 .. Len(entries)
    BY <1>4, <1>6, <1>7, LenProperties DEF k
  <2> QED BY <1>6, <1>7, <2>1
<1>10. \A j \in DOMAIN entries : entries[j].name = slot.name => k <= j
  <2> SUFFICES ASSUME NEW j \in DOMAIN entries, j < k PROVE entries[j].name # slot.name
    BY <1>4, LenProperties DEF k
  <2>1. j \in 1 .. Len(old) /\ j \in 1 .. Len(new)
    BY <1>4, <1>6, LenProperties DEF k
  <2> QED BY <1>6, <1>7, <1>8, <2>1
<1>11. TreeOf[v].dirs[d].entries = entries /\ d \in DOMAIN TreeOf[v].dirs
  BY <1>2, TreeParts DEF entries
<1>12. Child(TreeOf[v], d, slot.name) = Found(slot)
  <2>1. Child(TreeOf[v], d, slot.name) = Found(TreeOf[v].dirs[d].entries[k])
    BY <1>9, <1>10, <1>11, TreeLeadsOn, ChildIsFirst
  <2> QED BY <1>9, <1>11, <2>1
<1>13. slot.kind = "dir" => slot.first \in DOMAIN v.chains
  <2>1. k \in DOMAIN EntriesOf(v, d) /\ EntriesOf(v, d)[k] = slot
    BY <1>2, <1>9 DEF entries
  <2> QED BY <2>1 DEF Unstraying
<1> QED BY <1>12, <1>13

\* Where all slots up to the end marker, or all there are, miss the name, the
\* tree has no entry of the name.
LEMMA NoMatchNoChild ==
  ASSUME NEW v \in Volumes, NEW d \in DOMAIN v.chains, NEW n \in Marked(v, d), NEW name,
         Missed(v, d, n, name)
  PROVE  Child(TreeOf[v], d, name)
           = Error(IF n < SlotCount(v, d) THEN "NotFound" ELSE "InvalidClusterChain")
<1>1. PICK m \in Marked(v, d) :
        EntriesOf(v, d) = Used(v, d, m) /\ (IsEnded(v, d) <=> m < SlotCount(v, d))
  BY EntriesUsed
<1>2. m = n /\ n \in 0 .. SlotCount(v, d)
  BY <1>1, MarkIsNext DEF Marked
<1> DEFINE entries == TreeOf[v].dirs[d].entries
<1>3. entries = Used(v, d, n) /\ (TreeOf[v].dirs[d].ended <=> n < SlotCount(v, d))
  BY <1>1, <1>2, TreeParts
<1>4. entries \in Seq(Valid)
  BY <1>2, <1>3, UsedOn
<1>5. {i \in DOMAIN entries : entries[i].name = name} = {}
  <2> SUFFICES ASSUME NEW i \in DOMAIN entries PROVE entries[i].name # name
    OBVIOUS
  <2>1. i \in 1 .. Len(Used(v, d, n))
    BY <1>3, <1>4, LenProperties
  <2>2. PICK j \in 1 .. n : IsValid(SlotsOf(v, d)[j]) /\ Used(v, d, n)[i] = SlotsOf(v, d)[j]
    BY <1>2, <2>1, UsedFrom
  <2> QED BY <1>3, <2>2 DEF Missed
<1>6. Child(TreeOf[v], d, name)
        = Error(IF TreeOf[v].dirs[d].ended THEN "NotFound" ELSE "InvalidClusterChain")
  BY <1>5 DEF Child
<1> QED BY <1>3, <1>6

\* The files and directories among the first n slots.
Files == {slot \in Slot : slot.kind \in {"file", "dir"}}
Shown(v, d, n) == Only(Used(v, d, n), Files)

LEMMA ShownOn ==
  ASSUME NEW v \in Volumes, NEW d \in DOMAIN v.chains, NEW n \in 0 .. SlotCount(v, d)
  PROVE  /\ Shown(v, d, 0) = <<>>
         /\ Shown(v, d, n) \in Seq(Slot)
         /\ n > 0 /\ SlotsOf(v, d)[n].kind \in {"file", "dir"}
              => Shown(v, d, n) = Append(Shown(v, d, n - 1), SlotsOf(v, d)[n])
         /\ n > 0 /\ SlotsOf(v, d)[n].kind \notin {"file", "dir"}
              => Shown(v, d, n) = Shown(v, d, n - 1)
<1> DEFINE slot == SlotsOf(v, d)[n]
<1>1. Shown(v, d, 0) = <<>>
  <2>1. Used(v, d, 0) = <<>>
    BY UsedOn
  <2> QED BY <2>1, OnlyNone DEF Shown
<1>2. Shown(v, d, n) \in Seq(Slot)
  <2>1. Used(v, d, n) \in Seq(Valid)
    BY UsedOn
  <2>2. Shown(v, d, n) \in Seq(Valid \cap Files)
    BY <2>1, OnlyTyped DEF Shown
  <2>3. Valid \cap Files \subseteq Slot
    BY DEF Files
  <2> QED BY <2>2, <2>3
<1>3. ASSUME n > 0
      PROVE  /\ slot.kind \in {"file", "dir"} => Shown(v, d, n) = Append(Shown(v, d, n - 1), slot)
             /\ slot.kind \notin {"file", "dir"} => Shown(v, d, n) = Shown(v, d, n - 1)
  <2> DEFINE old == Used(v, d, n - 1)
             new == Used(v, d, n)
  <2>1. SlotCount(v, d) \in Nat /\ n \in 1 .. SlotCount(v, d) /\ n - 1 \in 0 .. SlotCount(v, d)
    BY <1>3, SlotsTyped
  <2>2. slot \in Slot
    BY <2>1, SlotsTyped, LenProperties
  <2>3. old \in Seq(Valid) /\ new = IF IsValid(slot) THEN Append(old, slot) ELSE old
    BY <1>3, <2>1, UsedOn
  <2>4. slot.kind \in {"file", "dir"} <=> slot \in Files
    BY <2>2 DEF Files
  <2>5. slot \in Files => IsValid(slot)
    BY DEF Files, IsValid
  <2>6. IsValid(slot) => slot \in Valid
    BY <2>2 DEF Valid
  <2> HIDE DEF old, new, slot
  <2>7. CASE IsValid(slot)
    <3>1. Only(Append(old, slot), Files)
            = IF slot \in Files THEN Append(Only(old, Files), slot) ELSE Only(old, Files)
      BY <2>3, <2>6, <2>7, OnlyOn
    <3> QED BY <2>3, <2>4, <2>7, <3>1 DEF Shown, old, new
  <2>8. CASE ~IsValid(slot)
    BY <2>3, <2>4, <2>5, <2>8 DEF Shown, old, new
  <2> QED BY <2>7, <2>8
<1> QED BY <1>1, <1>2, <1>3

\* What an iteration over the first slots shows begins what one over more shows.
LEMMA ShownGrows ==
  ASSUME NEW v \in Volumes, NEW d \in DOMAIN v.chains, NEW m \in 0 .. SlotCount(v, d),
         NEW n \in 0 .. m
  PROVE  IsPrefix(Shown(v, d, n), Shown(v, d, m))
<1> DEFINE a == Used(v, d, n)
           b == Used(v, d, m)
           x == Only(a, Files)
           y == Only(b, Files)
<1>1. n \in 0 .. SlotCount(v, d)
  BY SlotsTyped
<1>2. a \in Seq(Valid) /\ b \in Seq(Valid) /\ x \in Seq(Slot) /\ y \in Seq(Slot)
  BY <1>1, UsedOn, ShownOn DEF Shown
<1>3. Len(a) <= Len(b) /\ \A i \in 1 .. Len(a) : b[i] = a[i]
  BY UsedGrows
<1> HIDE DEF a, b
<1>4. Len(a) \in 0 .. Len(b) /\ Len(b) \in 0 .. Len(b) /\ Len(a) \in 0 .. Len(b)
  BY <1>2, <1>3, LenProperties
<1>5. SubSeq(b, 1, Len(a)) = a
  BY <1>2, <1>3, <1>4, BeginsWith
<1>6. SubSeq(b, 1, Len(b)) = b
  BY <1>2, <1>4, FirstOnes
<1>7. Len(x) <= Len(y) /\ \A i \in 1 .. Len(x) : y[i] = x[i]
  <2>1. LET s == Only(SubSeq(b, 1, Len(a)), Files)
            u == Only(SubSeq(b, 1, Len(b)), Files)
        IN Len(s) <= Len(u) /\ \A i \in 1 .. Len(s) : u[i] = s[i]
    BY <1>2, <1>4, OnlyGrows
  <2> QED BY <1>5, <1>6, <2>1
<1> HIDE DEF x, y
<1>8. SubSeq(y, 1, Len(x)) = x
  BY <1>2, <1>7, BeginsWith
<1>9. SubSeq(x, 1, Len(x)) = x
  <2>1. Len(x) \in 0 .. Len(x)
    BY <1>2, LenProperties
  <2> QED BY <1>2, <2>1, FirstOnes
<1> QED BY <1>7, <1>8, <1>9 DEF IsPrefix, Shown, x, y, a, b

\* All slots up to the end marker, or all there are, show the listing.
LEMMA ShownAll ==
  ASSUME NEW v \in Volumes, NEW d \in DOMAIN v.chains, NEW n \in Marked(v, d)
  PROVE  Shown(v, d, n) = ShownIn(TreeOf[v], d)
<1>1. PICK m \in Marked(v, d) : EntriesOf(v, d) = Used(v, d, m)
  BY EntriesUsed
<1>2. m = n /\ n \in 0 .. SlotCount(v, d)
  BY <1>1, MarkIsNext DEF Marked
<1> DEFINE entries == Used(v, d, n)
           T == ToSet(entries)
           S == {e \in T : e.kind \in {"file", "dir"}}
<1>3. TreeOf[v].dirs[d].entries = entries
  BY <1>1, <1>2, TreeParts
<1>4. entries \in Seq(Valid)
  BY <1>2, UsedOn
<1>5. entries \in Seq(T)
  <2>1. Len(entries) \in Nat /\ entries = [i \in 1 .. Len(entries) |-> entries[i]]
        /\ \A i \in 1 .. Len(entries) : entries[i] \in T
    BY <1>4, LenProperties DEF ToSet
  <2> HIDE DEF entries, T
  <2> QED BY <2>1
<1>6. \A e \in T : e \in Slot
  BY <1>4, LenProperties DEF ToSet, Valid
<1>7. \A e \in T : e \in Files <=> e \in S
  BY <1>6 DEF Files
<1>8. Only(entries, Files) = Only(entries, S)
  <2> HIDE DEF entries, T, S
  <2> QED BY <1>5, <1>7, OnlySame
<1> QED BY <1>3, <1>8 DEF Shown, ShownIn

-----------------------------------------------------------------------------
(* The iterator goes from slot to slot. *)

\* It has yielded n slots of the directory.
At(d, n, i) ==
  IF n = 0 THEN i.cluster = d /\ i.entry = -1
  ELSE /\ i.cluster = vol.chains[d][(n - 1) \div EntriesPerCluster + 1]
       /\ i.entry = (n - 1) % EntriesPerCluster

LEMMA NextSlot ==
  ASSUME NEW B \in Nat \ {0}, NEW n \in Nat \ {0}
  PROVE  IF ((n - 1) % B) + 1 < B
           THEN n \div B = (n - 1) \div B /\ n % B = ((n - 1) % B) + 1
           ELSE n \div B = (n - 1) \div B + 1 /\ n % B = 0
<1> DEFINE q == (n - 1) \div B
           r == (n - 1) % B
           s == n \div B
           t == n % B
<1>1. n \in Nat /\ n - 1 \in Nat
  OBVIOUS
<1>2. q \in Nat /\ r \in 0 .. B - 1 /\ n - 1 = (B * q) + r
  BY <1>1, DivMod
<1>3. s \in Nat /\ t \in 0 .. B - 1 /\ n = (B * s) + t
  BY <1>1, DivMod
<1> HIDE DEF q, r, s, t
<1>4. CASE r + 1 < B
  <2>1. r + 1 \in 0 .. B - 1 /\ (B * q) + (r + 1) = (B * s) + t
    <3>1. B * q \in Nat /\ B * s \in Nat
      BY <1>2, <1>3
    <3> HIDE DEF q
    <3> QED BY <1>2, <1>3, <1>4, <3>1
  <2>2. q = s /\ r + 1 = t
    BY <1>2, <1>3, <2>1, DivModUnique
  <2> QED BY <1>4, <2>2 DEF q, r, s, t
<1>5. CASE ~(r + 1 < B)
  <2>1. (B * (q + 1)) + 0 = (B * s) + t
    <3>1. B * q \in Nat /\ B * s \in Nat /\ B * (q + 1) = (B * q) + B
      BY <1>2, <1>3
    <3>2. r = B - 1
      BY <1>2, <1>5
    <3> QED BY <1>2, <1>3, <3>1, <3>2
  <2>2. q + 1 = s /\ 0 = t
    BY <1>2, <1>3, <2>1, DivModUnique
  <2> QED BY <1>5, <2>2 DEF q, r, s, t
<1> QED BY <1>4, <1>5 DEF r

\* The clusters that a directory was written to can be read.
LEMMA SlotReadable ==
  ASSUME NEW place, place.cluster \in DataCluster, place.entry \in 0 .. EntriesPerCluster - 1
  PROVE  ClusterAccepted(place.cluster) /\ Readable(place)
<1> DEFINE c == place.cluster
           e == place.entry
           B == BytesPerCluster
<1>1. /\ c \in 1 .. NumClusters - 1 /\ NumClusters <= ReservedMarker /\ ReservedMarker <= U32
      /\ U32 \in Nat \ {0} /\ B \in Nat \ {0} /\ EntryBytes \in Nat \ {0}
      /\ NumClusters \in Nat \ {0} /\ ReservedMarker \in Nat /\ EntriesPerCluster \in Nat \ {0}
      /\ DataBytes \in (NumClusters - 1) * B .. NumClusters * B - 1
      /\ DeviceBytes \in Nat /\ DeviceBytes >= DataBytes
  BY Sizes, VolumeAssumption DEF DataCluster
<1>2. ClusterAccepted(c)
  BY <1>1 DEF ClusterAccepted
<1>3. (c - 1) % U32 = c - 1
  BY <1>1
<1>4. ClusterOffset(c) = (c - 1) * B
  BY <1>3 DEF ClusterOffset
<1> HIDE DEF c, e, B
<1>5. (e + 1) * EntryBytes <= B
  <2>1. e + 1 \in Nat /\ e + 1 <= EntriesPerCluster
    BY <1>1 DEF e
  <2>2. EntryBytes * EntriesPerCluster <= B
    BY <1>1, DivMod DEF EntriesPerCluster, B
  <2>3. e + 1 < EntriesPerCluster => (EntryBytes * (e + 1)) + EntryBytes <= EntryBytes * EntriesPerCluster
    BY <1>1, <2>1, NextMultiple
  <2>4. EntryBytes * (e + 1) \in Nat /\ EntryBytes * EntriesPerCluster \in Nat
        /\ (e + 1) * EntryBytes = EntryBytes * (e + 1)
    BY <1>1, <2>1
  <2>5. CASE e + 1 = EntriesPerCluster
    BY <1>1, <2>2, <2>4, <2>5
  <2>6. CASE e + 1 < EntriesPerCluster
    BY <1>1, <2>2, <2>3, <2>4, <2>6
  <2> QED BY <1>1, <2>1, <2>5, <2>6
<1>6. ((c - 1) * B) + B <= (NumClusters - 1) * B
  <2>1. c - 1 \in Nat /\ NumClusters - 1 \in Nat /\ c - 1 < NumClusters - 1
    BY <1>1
  <2>2. (B * (c - 1)) + B <= B * (NumClusters - 1)
    BY <1>1, <2>1, NextMultiple
  <2>3. B * (c - 1) = (c - 1) * B /\ B * (NumClusters - 1) = (NumClusters - 1) * B
    BY <1>1, <2>1
  <2> QED BY <2>2, <2>3
<1>7. /\ (c - 1) * B \in Nat /\ (NumClusters - 1) * B \in Nat /\ DataBytes \in Int
      /\ (NumClusters - 1) * B <= DataBytes /\ (e + 1) * EntryBytes \in Int
  <2>1. c - 1 \in Nat /\ NumClusters - 1 \in Nat /\ e + 1 \in Nat
    BY <1>1 DEF e
  <2>2. (c - 1) * B \in Nat /\ (NumClusters - 1) * B \in Nat /\ (e + 1) * EntryBytes \in Int
        /\ NumClusters * B \in Nat
    BY <1>1, <2>1
  <2> QED BY <1>1, <2>2
<1>8. ((c - 1) * B) + ((e + 1) * EntryBytes) <= DeviceBytes
  <2> DEFINE x == (c - 1) * B
             y == (e + 1) * EntryBytes
             z == (NumClusters - 1) * B
  <2>1. /\ x \in Nat /\ y \in Int /\ z \in Nat /\ y <= B /\ x + B <= z /\ z <= DataBytes
        /\ DataBytes \in Int
    BY <1>5, <1>6, <1>7
  <2> HIDE DEF x, y, z
  <2>2. x + y <= DeviceBytes
    BY <1>1, <2>1
  <2> QED BY <2>2 DEF x, y
<1> QED BY <1>2, <1>4, <1>8 DEF Readable, c, e

LEMMA NowhereElse ==
  ASSUME NEW v, NEW c, LeadsNowhere(v, c) PROVE c \notin DataCluster
<1> SUFFICES ASSUME c \in DataCluster PROVE FALSE
  OBVIOUS
<1> DEFINE place == [cluster |-> c, entry |-> 0]
<1>1. 0 \in 0 .. EntriesPerCluster - 1
  BY Sizes
<1>2. ClusterAccepted(c) /\ Readable(place)
  BY <1>1, SlotReadable
<1> QED BY <1>1, <1>2 DEF LeadsNowhere

\* From slot n it gets to slot n + 1, or to a cluster number where nothing can be
\* read, or, behind the last slot, back to a cluster it has been in, or to the
\* end of the chain: where the chain as written ends, or is cut off.
LEMMA NextPlace ==
  ASSUME vol \in Volumes, NEW d \in DOMAIN vol.chains, ChainHolds(vol, d),
         NEW n \in 0 .. SlotCount(vol, d), Passed(vol, d, n), At(d, n, it)
  PROVE  /\ HasPlace =>
              \/ /\ n < SlotCount(vol, d)
                 /\ Place.cluster = vol.chains[d][n \div EntriesPerCluster + 1]
                 /\ Place.entry = n % EntriesPerCluster
              \/ LeadsNowhere(vol, Place.cluster) /\ Place.entry = 0 /\ ~WellFormed(vol)
              \/ /\ n = SlotCount(vol, d) /\ GoesRound(vol, d)
                 /\ Place.cluster \in ToSet(vol.chains[d]) /\ Place.entry = 0
         /\ Crosses /\ ~IsData(vol.fat[it.cluster])
              => n = SlotCount(vol, d) \/ ~WellFormed(vol)
<1> DEFINE chain == vol.chains[d]
           B == EntriesPerCluster
           k == (n - 1) \div B
           e == (n - 1) % B
<1>1. /\ B \in Nat \ {0} /\ chain \in Seq(DataCluster) /\ Len(chain) \in Nat
      /\ SlotCount(vol, d) = Len(chain) * B /\ SlotCount(vol, d) \in Nat
  BY Sizes, SlotsTyped, LenProperties DEF SlotCount
<1>2. chain # <<>> => chain[1] = d /\ Len(chain) >= 1
  <2>1. chain # <<>> => chain[1] = d
    BY DEF ChainHolds
  <2> HIDE DEF chain
  <2> QED BY <1>1, <2>1, EmptySeq
<1>3. CASE n = 0
  <2>1. it.cluster = d /\ it.entry = -1
    BY <1>3 DEF At
  <2>2. ~Crosses
    BY <1>1, <2>1 DEF Crosses
  <2>3. Place.cluster = d /\ Place.entry = 0
    BY <2>1, <2>2 DEF Place
  <2>4. n \div B = 0 /\ n % B = 0
    <3>1. 0 \div B \in Nat /\ 0 % B \in 0 .. B - 1 /\ (B * 0) + 0 = (B * (0 \div B)) + (0 % B)
      BY <1>1, DivMod
    <3> QED BY <1>1, <1>3, <3>1, DivModUnique
  <2>5. CASE chain # <<>>
    <3>1. SlotCount(vol, d) > 0
      BY <1>1, <1>2, <2>5
    <3> HIDE DEF chain
    <3> QED BY <1>2, <1>3, <2>2, <2>3, <2>4, <2>5, <3>1 DEF chain
  <2>6. CASE chain = <<>>
    <3>1. LeadsNowhere(vol, d)
      BY <2>6 DEF ChainHolds
    <3>2. ~WellFormed(vol)
      BY <2>6 DEF WellFormed
    <3> QED BY <2>2, <2>3, <3>1, <3>2
  <2> QED BY <2>5, <2>6
<1>4. CASE n # 0
  <2>1. n \in Nat \ {0} /\ n \in 1 .. SlotCount(vol, d)
    BY <1>1, <1>4
  <2>2. k + 1 \in 1 .. Len(chain) /\ k \in Nat /\ e \in 0 .. B - 1
    <3>1. n - 1 \in Nat
      BY <2>1
    <3>2. k \in Nat /\ e \in 0 .. B - 1
      BY <1>1, <3>1, DivMod
    <3>3. k + 1 \in 1 .. Len(chain)
      BY <2>1, SlotsTyped
    <3> QED BY <3>2, <3>3
  <2>3. it.cluster = chain[k + 1] /\ it.entry = e
    BY <1>4 DEF At
  <2>4. Crosses <=> ~(e + 1 < B)
    BY <1>1, <2>2, <2>3 DEF Crosses
  <2>5. IF e + 1 < B THEN n \div B = k /\ n % B = e + 1 ELSE n \div B = k + 1 /\ n % B = 0
    BY <1>1, <2>1, NextSlot
  <2>6. n < SlotCount(vol, d) <=> n \div B < Len(chain)
    <3> DEFINE s == n \div B
               t == n % B
    <3>1. s \in Nat /\ t \in 0 .. B - 1 /\ n = (B * s) + t
      BY <1>1, <2>1, DivMod
    <3>2. s < Len(chain) => (B * s) + B <= B * Len(chain)
      BY <1>1, <3>1, NextMultiple
    <3>3. B * Len(chain) = SlotCount(vol, d) /\ B * s \in Nat
      BY <1>1, <3>1
    <3>4. n < B * Len(chain) => s < Len(chain)
      BY <1>1, <2>1, QuotientBelow
    <3> HIDE DEF s, t
    <3>5. s < Len(chain) => n < B * Len(chain)
      BY <1>1, <3>1, <3>2, <3>3
    <3> QED BY <3>3, <3>4, <3>5 DEF s
  <2>7. CASE ~Crosses
    <3>1. Place.cluster = chain[k + 1] /\ Place.entry = e + 1
      BY <2>3, <2>7 DEF Place
    <3>2. n \div B = k /\ n % B = e + 1
      BY <2>4, <2>5, <2>7
    <3>3. k < Len(chain)
      BY <1>1, <2>2
    <3> HIDE DEF k, e, chain, B
    <3> QED BY <2>6, <2>7, <3>1, <3>2, <3>3 DEF chain, B
  <2>8. CASE Crosses
    <3> DEFINE link == vol.fat[chain[k + 1]]
    <3>1. n \div B = k + 1 /\ n % B = 0 /\ (n < SlotCount(vol, d) <=> k + 1 < Len(chain))
      BY <2>4, <2>5, <2>6, <2>8
    <3>2. Place.cluster = link /\ Place.entry = 0 /\ vol.fat[it.cluster] = link
      BY <2>3, <2>8 DEF Place
    <3>3. HasPlace => IsData(link)
      BY <2>3, <2>8 DEF HasPlace
    <3>4. (k + 1) + 1 = k + 2 /\ chain # <<>> /\ k + 1 \in DOMAIN chain
      BY <1>1, <2>2, LenProperties
    <3>5. CASE k + 1 < Len(chain)
      <4>1. k + 1 \in 1 .. Len(chain) - 1 /\ (k + 1) + 1 \in 1 .. Len(chain)
        BY <1>1, <2>2, <3>5
      <4>2. link = chain[k + 2] \/ CutsOff(vol, link)
        BY <3>4, <4>1 DEF ChainHolds
      <4>3. chain[k + 2] \in DataCluster
        BY <1>1, <3>4, <4>1, LenProperties
      <4>4. WellFormed(vol) => link = chain[k + 2]
        BY <3>4, <4>1 DEF WellFormed
      <4>5. link \in DataCluster => IsData(link) /\ ~LeadsNowhere(vol, link)
        BY Sizes, VolumeAssumption, NowhereElse DEF IsData, DataCluster
      <4> HIDE DEF k, e, chain, B, link
      <4> QED BY <3>1, <3>2, <3>3, <3>4, <3>5, <4>2, <4>3, <4>4, <4>5 DEF CutsOff, chain, B
    <3>6. CASE ~(k + 1 < Len(chain))
      <4>1. n = SlotCount(vol, d) /\ k + 1 = Len(chain)
        <5> HIDE DEF k, e, chain, B
        <5> QED BY <1>1, <2>2, <3>1, <3>6
      <4>2. ~IsEnded(vol, d)
        <5>1. DOMAIN SlotsOf(vol, d) = 1 .. n
          BY <4>1, SlotsTyped, LenProperties
        <5> QED BY <5>1 DEF IsEnded, Passed
      <4>3. Last(chain) = chain[k + 1]
        BY <4>1 DEF Last
      <4>4. CutsOff(vol, link) \/ GoesRound(vol, d)
        BY <3>4, <4>2, <4>3 DEF ChainHolds
      <4>5. WellFormed(vol) => ~IsData(link)
        BY <4>2, <4>3 DEF WellFormed
      <4>6. GoesRound(vol, d) => link \in ToSet(chain)
        BY <3>4 DEF GoesRound
      <4> HIDE DEF k, e, chain, B, link
      <4> QED BY <2>8, <3>2, <3>3, <4>1, <4>4, <4>5, <4>6 DEF CutsOff, chain
    <3> QED BY <3>5, <3>6
  <2> QED BY <2>7, <2>8
<1> QED BY <1>3, <1>4

\* Each slot of each cluster of a directory is one of its slots.
LEMMA SlotHasIndex ==
  ASSUME NEW v \in Volumes, NEW d \in DOMAIN v.chains, NEW c \in ToSet(v.chains[d]),
         NEW e \in 0 .. EntriesPerCluster - 1
  PROVE  \E i \in 1 .. SlotCount(v, d) : SlotsOf(v, d)[i] = v.slots[c][e]
<1> DEFINE chain == v.chains[d]
           B == EntriesPerCluster
<1>1. /\ B \in Nat \ {0} /\ chain \in Seq(DataCluster) /\ Len(chain) \in Nat
      /\ DOMAIN chain = 1 .. Len(chain) /\ SlotCount(v, d) = Len(chain) * B
  BY Sizes, SlotsTyped, LenProperties DEF SlotCount
<1>2. PICK j \in 1 .. Len(chain) : c = chain[j]
  BY <1>1 DEF ToSet
<1> DEFINE p == (B * (j - 1)) + e
<1>3. p \in Nat /\ p \div B = j - 1 /\ p % B = e
  <2>1. B * (j - 1) \in Nat /\ j - 1 \in Nat
    BY <1>1
  <2>2. p \in Nat
    BY <2>1
  <2>3. p \div B \in Nat /\ p % B \in 0 .. B - 1 /\ p = (B * (p \div B)) + (p % B)
    BY <1>1, <2>2, DivMod
  <2>4. (B * (p \div B)) + (p % B) = (B * (j - 1)) + e
    BY <2>3
  <2> HIDE DEF p, B
  <2>5. p \div B = j - 1 /\ p % B = e
    BY <1>1, <2>1, <2>3, <2>4, DivModUnique DEF B
  <2> QED BY <2>2, <2>5
<1>4. p + 1 \in 1 .. SlotCount(v, d)
  <2>1. (B * (j - 1)) + B <= B * Len(chain)
    BY <1>1, NextMultiple
  <2>2. B * (j - 1) \in Nat /\ B * Len(chain) = SlotCount(v, d) /\ B * Len(chain) \in Nat
    BY <1>1
  <2> QED BY <1>1, <2>1, <2>2
<1> HIDE DEF p
<1>5. (p + 1) - 1 = p /\ (j - 1) + 1 = j
  BY <1>3
<1>6. SlotsOf(v, d)[p + 1] = v.slots[chain[p \div B + 1]][p % B]
  BY <1>4, <1>5, SlotsTyped
<1> QED BY <1>2, <1>3, <1>4, <1>5, <1>6

-----------------------------------------------------------------------------
(* Calls say what the tree says. *)

\* There are no more slots: all have been seen, or the chain has been cut off.
Cut(d, n) == n = SlotCount(vol, d) \/ ~WellFormed(vol)

\* The iteration ends after n slots: at an end marker, or, since a listing goes
\* on after an error, where the chain has ended.
Ends(d, n) ==
  \/ n < SlotCount(vol, d) /\ SlotsOf(vol, d)[n + 1].kind = "end"
  \/ listing /\ Cut(d, n)

\* The iterator is at a cluster number where nothing can be read,
Astray ==
  /\ ~WellFormed(vol) /\ LeadsNowhere(vol, it.cluster)
  /\ it.entry \in 0 .. EntriesPerCluster - 1

\* or goes once more round the clusters of directory d, none of which ends it.
Circles(d, n) ==
  /\ ~it.finished /\ n = SlotCount(vol, d) /\ GoesRound(vol, d)
  /\ it.cluster \in ToSet(vol.chains[d]) /\ it.entry \in 0 .. EntriesPerCluster - 1

\* n slots of directory d have been used, none of them an end marker.
Scanned(d, n) ==
  /\ Passed(vol, d, n)
  /\ \/ pc = "fetch" /\ ~it.finished /\ (At(d, n, it) \/ Astray \/ Circles(d, n))
     \/ pc = "fetch" /\ it.finished /\ Ends(d, n)
     \/ /\ pc = "use" /\ n < SlotCount(vol, d)
        /\ item = Found(SlotsOf(vol, d)[n + 1])
        /\ it.finished <=> SlotsOf(vol, d)[n + 1].kind = "end"
        /\ ~it.finished => At(d, n + 1, it)
     \/ /\ pc = "use" /\ Circles(d, n)
        /\ \E i \in 1 .. SlotCount(vol, d) : item = Found(SlotsOf(vol, d)[i])
     \/ pc = "use" /\ it.finished /\ item = Error("InvalidClusterChain") /\ Cut(d, n)
     \/ /\ pc = "use" /\ ~WellFormed(vol) /\ (it.finished \/ Astray)
        /\ item \in {Error("InvalidClusterChain"), Error("InvalidClusterNumber"), Error("Io")}
     \/ pc = "use" /\ it.finished /\ item = NoItem /\ Ends(d, n)

\* A lookup has come to directory d, and not found the next name there so far.
LooksIn(d, n) ==
  LET names == Staying(request.path)
      reached == Reached(TreeOf[vol], names, depth - 2)
  IN /\ IsAbsolute(request.path)
     /\ Len(path) = Len(names) + 1 /\ \A k \in 1 .. Len(names) : path[k + 1] = names[k]
     /\ depth \in 2 .. Len(path)
     /\ reached.kind = "entry" /\ reached.entry.kind = "dir" /\ reached.entry.first = d
     /\ Missed(vol, d, n, path[depth])

\* A listing of directory d has what its first slots show, and more only when it
\* goes round and never ends.
Lists(d, n) ==
  LET found == Resolve(TreeOf[vol], request.path)
  IN /\ request.op = "list"
     /\ found.kind = "entry" /\ found.entry.kind = "dir" /\ found.entry.first = d
     /\ out = Shown(vol, d, n) \/ Circles(d, n)

Scans(d, n) == Scanned(d, n) /\ IF listing THEN Lists(d, n) ELSE LooksIn(d, n)

Scanning == \E d \in DOMAIN vol.chains : \E n \in 0 .. SlotCount(vol, d) : Scans(d, n)

\* The inductive invariant of the refinement.
RInv ==
  /\ IInv
  /\ pc \in {"idle", "asked"} => ~listing
  /\ pc \in {"fetch", "use"} => Scanning

\* What a call may come back with.
Truthful(outcome) ==
  /\ outcome # NoReply
  /\ LET answer == Answer(TreeOf[vol], request)
     IN \/ outcome = answer
        \/ ~WellFormed(vol) /\ Abstract!FallsShort(outcome, answer)

\* A step of a call answers truthfully, or goes on.
Proceeds ==
  /\ UNCHANGED <<vol, request>>
  /\ \/ pc' = "panicked" /\ UNCHANGED reply
     \/ pc' = "idle" /\ ~listing' /\ Truthful(reply')
     \/ UNCHANGED reply /\ Scanning'

\* Going round stays going round, and goes nowhere else.
LEMMA FetchCircles ==
  ASSUME IInv, NEW d \in DOMAIN vol.chains, NEW n \in 0 .. SlotCount(vol, d),
         n = SlotCount(vol, d), GoesRound(vol, d), ~it.finished, HasPlace,
         Place.cluster \in ToSet(vol.chains[d]),
         UNCHANGED vol, FetchRefused \/ FetchUnreadable \/ FetchSlot
  PROVE  /\ pc' = "use" /\ Circles(d, n)'
         /\ \E i \in 1 .. SlotCount(vol, d) : item' = Found(SlotsOf(vol, d)[i])
<1> DEFINE c == Place.cluster
           e == Place.entry
<1>1. vol \in Volumes /\ it \in Iterators
  BY DEF IInv
<1>2. e \in 0 .. EntriesPerCluster - 1
  BY <1>1, PlaceTyped
<1>3. c \in DataCluster
  <2>1. vol.chains[d] \in Seq(DataCluster)
    BY <1>1, SlotsTyped
  <2> HIDE DEF c
  <2> QED BY <2>1, LenProperties DEF ToSet, c
<1>4. ClusterAccepted(c) /\ Readable(Place)
  BY <1>2, <1>3, SlotReadable
<1>5. PICK i \in 1 .. SlotCount(vol, d) : SlotsOf(vol, d)[i] = vol.slots[c][e]
  BY <1>1, <1>2, SlotHasIndex
<1>6. SlotsOf(vol, d)[i].kind # "end"
  <2>1. i \in DOMAIN SlotsOf(vol, d)
    BY <1>1, SlotsTyped, LenProperties
  <2> QED BY <2>1 DEF GoesRound, IsEnded
<1>7. FetchSlot
  <2>1. <<c, e>> \notin vol.bad
    BY <1>2 DEF GoesRound, ToSet, c, e
  <2> QED BY <1>4, <2>1 DEF FetchRefused, FetchUnreadable
<1>8. /\ pc' = "use" /\ item' = Found(SlotsOf(vol, d)[i])
      /\ it'.cluster = c /\ it'.entry = e /\ ~it'.finished
  BY <1>5, <1>6, <1>7 DEF FetchSlot, Yield
<1> QED BY <1>2, <1>8 DEF Circles

\* next yields the slots of the directory one by one.
LEMMA FetchScans ==
  ASSUME IInv, Unstraying(vol), NEW d \in DOMAIN vol.chains, NEW n \in 0 .. SlotCount(vol, d),
         Scans(d, n), Fetch
  PROVE  pc' = "panicked" \/ Scans(d, n)'
<1>1. /\ pc = "fetch" /\ UNCHANGED <<vol, request, path, depth, listing, out, reply>>
  BY DEF Fetch
<1>2. /\ vol \in Volumes /\ it \in Iterators /\ Passed(vol, d, n)
      /\ \/ ~it.finished /\ At(d, n, it)
         \/ ~it.finished /\ Astray
         \/ ~it.finished /\ Circles(d, n)
         \/ it.finished /\ Ends(d, n)
  BY <1>1 DEF IInv, Scans, Scanned
<1>3. SUFFICES ASSUME pc' # "panicked" PROVE Scanned(d, n)' /\ (Circles(d, n) => Circles(d, n)')
  BY <1>1 DEF Scans, Lists, LooksIn
<1>4. /\ SlotsOf(vol, d)' = SlotsOf(vol, d) /\ SlotCount(vol, d)' = SlotCount(vol, d)
      /\ Passed(vol, d, n)' /\ (Ends(d, n) => Ends(d, n)') /\ (Cut(d, n) => Cut(d, n)')
  BY <1>1, <1>2 DEF Ends, Cut
<1>5. ChainHolds(vol, d)
  BY DEF Unstraying
<1>6. SlotCount(vol, d) \in Nat
  BY <1>2, SlotsTyped
<1>7. ASSUME it.finished PROVE Scanned(d, n)' /\ (Circles(d, n) => Circles(d, n)')
  <2>1. FetchFinished /\ Ends(d, n) /\ ~Circles(d, n)
    BY <1>2, <1>7 DEF Fetch, FetchPanics, FetchChainEnds, FetchRefused, FetchUnreadable, FetchSlot,
                      Circles
  <2> QED BY <1>4, <1>7, <2>1 DEF FetchFinished, Scanned
<1>8. ASSUME ~it.finished, Crosses, ~EntryPanics(it.cluster), ~IsData(vol.fat[it.cluster]), FetchChainEnds
      PROVE  Scanned(d, n)' /\ ~Circles(d, n)
  <2>1. pc' = "use" /\ it'.finished /\ item' = Error("InvalidClusterChain")
    BY <1>8 DEF FetchChainEnds, Yield
  <2>2. ~Circles(d, n)
    <3> SUFFICES ASSUME Circles(d, n) PROVE FALSE
      OBVIOUS
    <3>1. vol.chains[d] \in Seq(DataCluster)
      BY <1>2, SlotsTyped
    <3>2. \A c \in ToSet(vol.chains[d]) :
            /\ c \in DataCluster
            /\ vol.fat[c] \in ToSet(vol.chains[d])
      BY <3>1, LenProperties DEF Circles, GoesRound, ToSet
    <3>3. vol.fat[it.cluster] \in DataCluster
      BY <3>2 DEF Circles
    <3> QED BY <1>8, <3>3, Sizes, VolumeAssumption DEF IsData, DataCluster
  <2>3. CASE At(d, n, it)
    <3>1. Cut(d, n)
      BY <1>2, <1>5, <1>8, <2>3, NextPlace DEF Cut
    <3> QED BY <1>4, <2>1, <2>2, <3>1 DEF Scanned
  <2>4. CASE Astray
    <3>1. ~WellFormed(vol)
      BY <2>4 DEF Astray
    <3> QED BY <1>1, <1>4, <2>1, <2>2, <3>1 DEF Scanned
  <2> QED BY <1>2, <1>8, <2>2, <2>3, <2>4
<1>9. ASSUME LeadsNowhere(vol, Place.cluster), Place.entry \in 0 .. EntriesPerCluster - 1,
             ~WellFormed(vol), FetchRefused \/ FetchUnreadable \/ FetchSlot
      PROVE  Scanned(d, n)'
  <2>1. ~(ClusterAccepted(Place.cluster) /\ Readable(Place))
    <3>1. Place = [cluster |-> Place.cluster, entry |-> Place.entry]
      BY DEF Place
    <3> QED BY <1>9, <3>1 DEF LeadsNowhere
  <2>2. CASE FetchRefused
    <3>1. /\ pc' = "use" /\ item' = Error("InvalidClusterNumber")
          /\ it'.cluster = Place.cluster /\ it'.entry = Place.entry
      BY <2>2 DEF FetchRefused, Yield
    <3>2. Astray'
      BY <1>1, <1>9, <3>1 DEF Astray
    <3> QED BY <1>1, <1>4, <1>9, <3>1, <3>2 DEF Scanned
  <2>3. CASE FetchUnreadable
    <3>1. pc' = "use" /\ item' = Error("Io") /\ it'.finished
      BY <2>3 DEF FetchUnreadable, Yield
    <3> QED BY <1>1, <1>4, <1>9, <3>1 DEF Scanned
  <2>4. CASE FetchSlot
    BY <2>1, <2>4 DEF FetchSlot
  <2> QED BY <1>9, <2>2, <2>3, <2>4
<1>10. ASSUME ~it.finished, HasPlace, At(d, n, it), FetchRefused \/ FetchUnreadable \/ FetchSlot
       PROVE  Scanned(d, n)'
  <2>1. CASE /\ n < SlotCount(vol, d)
             /\ Place.cluster = vol.chains[d][n \div EntriesPerCluster + 1]
             /\ Place.entry = n % EntriesPerCluster
    <3> DEFINE slot == SlotsOf(vol, d)[n + 1]
    <3>1. n + 1 \in 1 .. SlotCount(vol, d) /\ (n + 1) - 1 = n /\ n + 1 # 0
      BY <1>6, <2>1
    <3>2. /\ n \div EntriesPerCluster + 1 \in 1 .. Len(vol.chains[d])
          /\ n % EntriesPerCluster \in 0 .. EntriesPerCluster - 1
          /\ SlotsOf(vol, d)[n + 1] = vol.slots[vol.chains[d][n \div EntriesPerCluster + 1]]
                                               [n % EntriesPerCluster]
      BY <1>2, <3>1, SlotsTyped
    <3>3. vol.chains[d] \in Seq(DataCluster)
      BY <1>2, SlotsTyped
    <3>4. Place.cluster \in DataCluster /\ Place.entry \in 0 .. EntriesPerCluster - 1
      BY <2>1, <3>2, <3>3, LenProperties
    <3>a. ClusterAccepted(Place.cluster) /\ Readable(Place)
      BY <3>4, SlotReadable
    <3>b. ASSUME FetchUnreadable PROVE Scanned(d, n)'
      <4>1. ~WellFormed(vol)
        BY <3>a, <3>b DEF FetchUnreadable, WellFormed
      <4>2. pc' = "use" /\ item' = Error("Io") /\ it'.finished
        BY <3>b DEF FetchUnreadable, Yield
      <4> QED BY <1>1, <1>4, <4>1, <4>2 DEF Scanned
    <3>c. SUFFICES ASSUME ~FetchUnreadable PROVE Scanned(d, n)'
      BY <3>b
    <3>5. FetchSlot /\ vol.slots[Place.cluster][Place.entry] = slot
      BY <1>10, <2>1, <3>2, <3>a, <3>c DEF FetchRefused
    <3>6. /\ pc' = "use" /\ item' = Found(slot) /\ it'.finished = (slot.kind = "end")
          /\ it'.cluster = Place.cluster /\ it'.entry = Place.entry
      BY <3>5 DEF FetchSlot, Yield
    <3>7. At(d, n + 1, it)'
      BY <1>1, <2>1, <3>1, <3>6 DEF At
    <3> QED BY <1>4, <2>1, <3>6, <3>7 DEF Scanned
  <2>2. CASE LeadsNowhere(vol, Place.cluster) /\ Place.entry = 0 /\ ~WellFormed(vol)
    <3>1. Place.entry \in 0 .. EntriesPerCluster - 1
      BY <2>2, Sizes
    <3> QED BY <1>9, <1>10, <2>2, <3>1
  <2>3. CASE /\ n = SlotCount(vol, d) /\ GoesRound(vol, d)
             /\ Place.cluster \in ToSet(vol.chains[d]) /\ Place.entry = 0
    BY <1>1, <1>4, <1>10, <2>3, FetchCircles DEF Scanned
  <2> QED BY <1>2, <1>5, <1>10, <2>1, <2>2, <2>3, NextPlace
<1>11. ASSUME ~it.finished, HasPlace, Astray, FetchRefused \/ FetchUnreadable \/ FetchSlot
       PROVE  Scanned(d, n)'
  <2>1. ~Crosses
    BY <1>11 DEF Astray, LeadsNowhere, HasPlace
  <2>2. Place.cluster = it.cluster /\ Place.entry = it.entry + 1
    BY <2>1 DEF Place
  <2>3. Place.entry \in 0 .. EntriesPerCluster - 1
    BY <1>11, <2>1, <2>2, Sizes DEF Astray, Crosses
  <2> QED BY <1>9, <1>11, <2>2, <2>3 DEF Astray
<1>12. ASSUME ~it.finished, HasPlace, Circles(d, n), FetchRefused \/ FetchUnreadable \/ FetchSlot
       PROVE  Scanned(d, n)' /\ Circles(d, n)'
  <2>1. Place.cluster \in ToSet(vol.chains[d])
    <3>1. vol.chains[d] \in Seq(DataCluster)
      BY <1>2, SlotsTyped
    <3>2. \A c \in ToSet(vol.chains[d]) : vol.fat[c] \in ToSet(vol.chains[d])
      BY <1>12, <3>1, LenProperties DEF Circles, GoesRound, ToSet
    <3> QED BY <1>12, <3>2 DEF Circles, Place
  <2>2. n = SlotCount(vol, d) /\ GoesRound(vol, d)
    BY <1>12 DEF Circles
  <2> QED BY <1>1, <1>4, <1>12, <2>1, <2>2, FetchCircles DEF Scanned
<1>13. CASE FetchRefused \/ FetchUnreadable \/ FetchSlot
  <2>1. ~it.finished /\ HasPlace
    BY <1>13 DEF FetchRefused, FetchUnreadable, FetchSlot
  <2>2. CASE Circles(d, n)
    BY <1>12, <1>13, <2>1, <2>2
  <2>3. CASE ~Circles(d, n)
    BY <1>2, <1>10, <1>11, <1>13, <2>1, <2>3
  <2> QED BY <2>2, <2>3
<1>14. CASE FetchChainEnds
  BY <1>8, <1>14 DEF FetchChainEnds
<1>15. CASE FetchPanics
  BY <1>3, <1>15 DEF FetchPanics
<1>16. CASE FetchFinished
  BY <1>7, <1>16 DEF FetchFinished
<1> QED BY <1>13, <1>14, <1>15, <1>16 DEF Fetch

\* The normalized path is the root and the names to follow, or has no root.
LEMMA PathParts ==
  ASSUME request \in Requests
  PROVE  LET p == request.path
             names == Staying(p)
             normal == Normalize(p)
         IN /\ names \in Seq(Names)
            /\ normal[1] # Root => names # <<>> /\ ~IsAbsolute(p)
            /\ normal[1] = Root => /\ IsAbsolute(p) \/ names = <<>>
                                   /\ Len(normal) = Len(names) + 1
                                   /\ \A k \in 1 .. Len(names) : normal[k + 1] = names[k]
<1> DEFINE p == request.path
           names == Staying(p)
           normal == Normalize(p)
           front == IF IsAbsolute(p) \/ names = <<>> THEN <<Root>> ELSE <<>>
<1>1. IsPath(p, Names)
  BY DirectoryAssumption
<1>2. normal = front \o names /\ names \in Seq(Names)
  BY <1>1, Normalized
<1>3. Root \notin Names
  BY DirectoryAssumption
<1> HIDE DEF p, names, normal
<1>4. CASE IsAbsolute(p) \/ names = <<>>
  <2> DEFINE root == <<Root>>
             T == Names \cup {Root}
  <2>1. normal = root \o names /\ root \in Seq(T) /\ names \in Seq(T) /\ Len(root) = 1 /\ root[1] = Root
    BY <1>2, <1>4
  <2> HIDE DEF root, T
  <2>2. /\ Len(normal) = Len(root) + Len(names)
        /\ \A i \in 1 .. Len(root) + Len(names) :
             normal[i] = IF i <= Len(root) THEN root[i] ELSE names[i - Len(root)]
    BY <2>1, ConcatProperties
  <2>3. Len(names) \in Nat
    BY <1>2, LenProperties
  <2>4. normal[1] = Root
    BY <2>1, <2>2, <2>3
  <2>5. ASSUME NEW k \in 1 .. Len(names) PROVE normal[k + 1] = names[k]
    <3>1. k + 1 \in 1 .. Len(root) + Len(names) /\ ~(k + 1 <= Len(root)) /\ (k + 1) - Len(root) = k
      BY <2>1, <2>3
    <3> QED BY <2>2, <3>1
  <2>6. Len(normal) = Len(names) + 1
    BY <2>1, <2>2, <2>3
  <2> QED BY <1>2, <1>4, <2>4, <2>5, <2>6 DEF p, names, normal
<1>5. CASE ~(IsAbsolute(p) \/ names = <<>>)
  <2>1. normal = names
    BY <1>2, <1>5
  <2>2. names[1] \in Names
    <3>1. Len(names) \in Nat \ {0}
      BY <1>2, <1>5, LenProperties, EmptySeq
    <3> QED BY <1>2, <3>1, LenProperties
  <2> QED BY <1>2, <1>3, <1>5, <2>1, <2>2 DEF p, names, normal
<1> QED BY <1>4, <1>5

\* The answers of the tree are those of DirTree.
LEMMA SameAnswer ==
  ASSUME NEW tree, NEW r PROVE Abstract!Answer(tree, r) = Answer(tree, r)
<1>1. \A s, S : Abstract!Only(s, S) = Only(s, S)
  BY DEF Abstract!Only, Only
<1>2. \A p, i : Abstract!Stays(p, i) <=> Stays(p, i)
  BY DEF Abstract!Stays, Stays, Abstract!IsName, IsName, Abstract!Cardinality, Cardinality
<1>3. ASSUME NEW p PROVE Abstract!Staying(p) = Staying(p)
  <2> DEFINE S == {i \in DOMAIN p : Abstract!Stays(p, i)}
             T == {i \in DOMAIN p : Stays(p, i)}
  <2>1. S = T
    BY <1>2
  <2> HIDE DEF S, T
  <2>2. Abstract!Only([i \in 1 .. Len(p) |-> i], S) = Only([i \in 1 .. Len(p) |-> i], T)
    BY <1>1, <2>1
  <2> QED BY <2>2 DEF Abstract!Staying, Staying, S, T
<1>4. \A names : Abstract!Walk(tree, names) = Walk(tree, names)
  BY DEF Abstract!Walk, Walk, Abstract!Follow, Follow, Abstract!RootEntry, RootEntry,
         Abstract!Child, Child, Abstract!Found, Found, Abstract!Error, Error
<1>5. \A p : Abstract!Resolve(tree, p) = Resolve(tree, p)
  BY <1>3, <1>4 DEF Abstract!Resolve, Resolve, Abstract!IsAbsolute, IsAbsolute,
                    Abstract!Error, Error
<1>6. \A d : Abstract!ShownIn(tree, d) = ShownIn(tree, d)
  BY <1>1 DEF Abstract!ShownIn, ShownIn, Abstract!ToSet, ToSet
<1> DEFINE found == Resolve(tree, r.path)
           shown == ShownIn(tree, found.entry.first)
<1>7. Abstract!Resolve(tree, r.path) = found /\ Abstract!ShownIn(tree, found.entry.first) = shown
  BY <1>5, <1>6
<1>8. \A e : Abstract!Error(e) = Error(e) /\ Abstract!Listed(e) = Listed(e)
  BY DEF Abstract!Error, Error, Abstract!Listed, Listed
<1> DEFINE answer == CASE found.kind = "error" \/ r.op = "stat" -> found
                       [] found.kind # "error" /\ r.op = "open" ->
                            IF found.entry.kind = "file" THEN found ELSE Error("IsADirectory")
                       [] found.kind # "error" /\ r.op = "list" ->
                            IF found.entry.kind = "dir" THEN Listed(shown) ELSE Error("NotADirectory")
<1>9. Answer(tree, r) = answer
  BY DEF Answer
<1> HIDE DEF found, shown
<1>10. Abstract!Answer(tree, r) = answer
  BY <1>7, <1>8 DEF Abstract!Answer
<1> HIDE DEF answer
<1> QED BY <1>9, <1>10

\* What is answered for a path, given what it leads to.
LEMMA AnswerFor ==
  ASSUME NEW tree, NEW r, r.op \in {"stat", "open", "list"}
  PROVE  LET found == Resolve(tree, r.path)
         IN /\ found.kind = "error" \/ r.op = "stat" => Answer(tree, r) = found
            /\ found.kind # "error" /\ r.op = "open" => Answer(tree, r) =
                 IF found.entry.kind = "file" THEN found ELSE Error("IsADirectory")
            /\ found.kind # "error" /\ r.op = "list" => Answer(tree, r) =
                 IF found.entry.kind = "dir"
                   THEN Listed(ShownIn(tree, found.entry.first)) ELSE Error("NotADirectory")
<1> DEFINE found == Resolve(tree, r.path)
<1> HIDE DEF found
<1>1. Answer(tree, r) =
        CASE found.kind = "error" \/ r.op = "stat" -> found
          [] found.kind # "error" /\ r.op = "open" ->
               IF found.entry.kind = "file" THEN found ELSE Error("IsADirectory")
          [] found.kind # "error" /\ r.op = "list" ->
               IF found.entry.kind = "dir"
                 THEN Listed(ShownIn(tree, found.entry.first)) ELSE Error("NotADirectory")
  BY DEF Answer, found
<1> QED BY <1>1 DEF found

\* stat and open answer truthfully for what the path leads to; a listing starts.
LEMMA ResolvedProceeds ==
  ASSUME IInv, reply = NoReply, NEW slot, Resolve(TreeOf[vol], request.path) = Found(slot),
         slot.kind = "dir" => slot.first \in DOMAIN vol.chains,
         Resolved(slot), UNCHANGED <<vol, request>>
  PROVE  Proceeds
<1>1. request \in Requests /\ request.op \in {"stat", "open", "list"} /\ vol \in Volumes
  BY DirectoryAssumption DEF IInv
<1>2. Found(slot).kind = "entry" /\ Found(slot).entry = slot
  BY DEF Found
<1>3. \A e : Found(slot) # NoReply /\ Error(e) # NoReply
  BY DEF Found, Error, NoReply
<1>4. /\ request.op = "stat" => Answer(TreeOf[vol], request) = Found(slot)
      /\ request.op = "open" => Answer(TreeOf[vol], request) =
           IF slot.kind = "file" THEN Found(slot) ELSE Error("IsADirectory")
      /\ request.op = "list" /\ slot.kind # "dir"
           => Answer(TreeOf[vol], request) = Error("NotADirectory")
  BY <1>1, <1>2, AnswerFor
<1>5. CASE \/ request.op = "stat" /\ Return(Found(slot))
           \/ /\ request.op = "open"
              /\ Return(IF slot.kind = "file" THEN Found(slot) ELSE Error("IsADirectory"))
           \/ /\ request.op = "list" /\ slot.kind # "dir"
              /\ Return(Error("NotADirectory"))
  <2>1. /\ pc' = "idle" /\ ~listing'
        /\ reply' = Answer(TreeOf[vol], request) /\ reply' # NoReply
    BY <1>3, <1>4, <1>5 DEF Return
  <2>2. Truthful(reply')
    BY <2>1 DEF Truthful
  <2> QED BY <2>1, <2>2 DEF Proceeds
<1>6. CASE request.op = "list" /\ slot.kind = "dir" /\ StartListing(slot.first)
  <2> DEFINE d == slot.first
  <2>1. d \in DOMAIN vol.chains /\ SlotCount(vol, d) \in Nat
    BY <1>1, <1>6, SlotsTyped
  <2>2. /\ pc' = "fetch" /\ listing' /\ out' = <<>> /\ UNCHANGED reply
        /\ it'.cluster = d /\ it'.entry = -1 /\ ~it'.finished
    BY <1>6 DEF StartListing, NewIterator
  <2>3. Shown(vol, d, 0) = <<>> /\ 0 \in 0 .. SlotCount(vol, d)
    BY <1>1, <2>1, ShownOn
  <2> HIDE DEF d
  <2>4. Passed(vol, d, 0)
    BY DEF Passed
  <2>5. Scanned(d, 0)'
    BY <2>2, <2>4 DEF Scanned, At
  <2>6. Lists(d, 0)'
    BY <1>2, <1>6, <2>2, <2>3 DEF Lists, d
  <2>7. Scans(d, 0)'
    BY <2>2, <2>5, <2>6 DEF Scans
  <2> QED BY <2>1, <2>2, <2>3, <2>7 DEF Proceeds, Scanning
<1> QED BY <1>5, <1>6 DEF Resolved

\* Going round again yields nothing but slots that have been used.
LEMMA UsedAgain ==
  ASSUME vol \in Volumes, NEW d \in DOMAIN vol.chains, NEW n \in 0 .. SlotCount(vol, d),
         Scanned(d, n), pc = "use", Circles(d, n)
  PROVE  \E i \in 1 .. n : item = Found(SlotsOf(vol, d)[i])
<1>1. ~Astray
  <2> SUFFICES ASSUME Astray PROVE FALSE
    OBVIOUS
  <2>1. vol.chains[d] \in Seq(DataCluster)
    BY SlotsTyped
  <2>2. it.cluster \in DataCluster
    BY <2>1, LenProperties DEF Circles, ToSet
  <2> QED BY <2>2, NowhereElse DEF Astray
<1>2. n = SlotCount(vol, d) /\ ~it.finished /\ ~(n < SlotCount(vol, d))
  BY SlotsTyped DEF Circles
<1> QED BY <1>1, <1>2 DEF Scanned

LEMMA CirclesOn ==
  ASSUME NEW d, NEW n, Passed(vol, d, n), Circles(d, n), UNCHANGED <<vol, it, listing>>,
         pc' = "fetch"
  PROVE  Scanned(d, n)' /\ Circles(d, n)'
BY DEF Circles, Scanned

\* What the next name of a lookup leads to, given the entry of that name.
LEMMA NextName ==
  ASSUME IInv, Unstraying(vol), NEW d \in DOMAIN vol.chains,
         NEW n \in 0 .. SlotCount(vol, d), LooksIn(d, n)
  PROVE  LET tree == TreeOf[vol]
             names == Staying(request.path)
             child == Child(tree, d, path[depth])
             whole == Resolve(tree, request.path)
         IN /\ Reached(tree, names, depth - 1) = child
            /\ depth = Len(path) \/ child.kind = "error" => whole = child
            /\ depth < Len(path) /\ child.kind = "entry" /\ child.entry.kind # "dir"
                 => whole = Error("NotADirectory")
<1> DEFINE tree == TreeOf[vol]
           names == Staying(request.path)
           child == Child(tree, d, path[depth])
           whole == Resolve(tree, request.path)
           before == Reached(tree, names, depth - 2)
<1>1. vol \in Volumes /\ request \in Requests
  BY DEF IInv
<1>2. names \in Seq(Names) /\ Len(names) \in Nat
  BY <1>1, PathParts, LenProperties
<1>3. /\ IsAbsolute(request.path) /\ Len(path) = Len(names) + 1
      /\ \A k \in 1 .. Len(names) : path[k + 1] = names[k]
      /\ depth \in 2 .. Len(path)
      /\ before.kind = "entry" /\ before.entry.kind = "dir" /\ before.entry.first = d
  BY DEF LooksIn
<1>4. /\ depth - 1 \in 0 .. Len(names) /\ depth - 1 > 0 /\ (depth - 1) - 1 = depth - 2
      /\ depth - 1 \in 1 .. Len(names) /\ (depth - 1) + 1 = depth
  BY <1>2, <1>3
<1>5. path[depth] = names[depth - 1]
  BY <1>3, <1>4
<1>6. LeadsOn(tree, Slot)
  BY <1>1, TreeLeadsOn
<1>7. whole = Walk(tree, names)
  BY <1>3 DEF Resolve
<1> HIDE DEF tree, names, whole
<1>8. Reached(tree, names, depth - 1) = Follow(tree, before, names[depth - 1])
  BY <1>2, <1>4, <1>6, ReachedOn
<1>9. Follow(tree, before, names[depth - 1]) = child
  BY <1>3, <1>5 DEF Follow
<1> HIDE DEF child, before
<1>10. ASSUME depth = Len(path) PROVE whole = child
  <2>1. depth - 1 = Len(names)
    BY <1>2, <1>3, <1>10
  <2>2. Reached(tree, names, Len(names)) = Walk(tree, names)
    BY <1>2, <1>4, <1>6, ReachedOn
  <2> QED BY <1>7, <1>8, <1>9, <2>1, <2>2
<1>11. ASSUME child.kind = "error" PROVE whole = child
  BY <1>2, <1>4, <1>6, <1>7, <1>8, <1>9, <1>11, WalkFails
<1>12. ASSUME depth < Len(path), child.kind = "entry", child.entry.kind # "dir"
       PROVE  whole = Error("NotADirectory")
  <2>1. depth \in 0 .. Len(names) /\ depth > 0
    BY <1>2, <1>3, <1>12
  <2>2. Reached(tree, names, depth) = Follow(tree, Reached(tree, names, depth - 1), names[depth])
    BY <1>2, <1>6, <2>1, ReachedOn
  <2>3. Reached(tree, names, depth) = Error("NotADirectory")
    BY <1>8, <1>9, <1>12, <2>2 DEF Follow
  <2>4. Reached(tree, names, depth).kind = "error"
    BY <2>3 DEF Error
  <2> QED BY <1>2, <1>6, <1>7, <2>1, <2>3, <2>4, WalkFails
<1> QED BY <1>8, <1>9, <1>10, <1>11, <1>12 DEF tree, names, child, whole

\* An error that the tree answers, or a broken chain on a damaged volume.
LEMMA ErrorTruthful ==
  ASSUME IInv, NEW e,
         \/ Resolve(TreeOf[vol], request.path) = Error(e)
         \/ /\ ~WellFormed(vol)
            /\ e \in {"InvalidClusterChain", "InvalidClusterNumber", "Io"}
  PROVE  Truthful(Error(e))
<1>1. Error(e) # NoReply /\ Error(e).kind = "error" /\ Error(e).error = e
  BY DEF Error, NoReply
<1>2. request.op \in {"stat", "open", "list"}
  BY DirectoryAssumption DEF IInv
<1>3. CASE Resolve(TreeOf[vol], request.path) = Error(e)
  <2>1. Answer(TreeOf[vol], request) = Error(e)
    BY <1>1, <1>2, <1>3, AnswerFor
  <2> QED BY <1>1, <2>1 DEF Truthful
<1>4. CASE /\ ~WellFormed(vol)
           /\ e \in {"InvalidClusterChain", "InvalidClusterNumber", "Io"}
  BY <1>1, <1>4 DEF Truthful, Abstract!FallsShort
<1> QED BY <1>3, <1>4

\* A slot that is not an end marker has been used, for the first time.
LEMMA SlotPassed ==
  ASSUME vol \in Volumes, NEW d \in DOMAIN vol.chains, NEW n \in 0 .. SlotCount(vol, d),
         Scanned(d, n), pc = "use", item.kind = "entry", ~Circles(d, n),
         UNCHANGED <<vol, it, listing>>, pc' = "fetch"
  PROVE  /\ n < SlotCount(vol, d) /\ item.entry = SlotsOf(vol, d)[n + 1]
         /\ IF item.entry.kind = "end" THEN Scanned(d, n)'
            ELSE n + 1 \in 0 .. SlotCount(vol, d) /\ Scanned(d, n + 1)'
<1>1. /\ Passed(vol, d, n) /\ n < SlotCount(vol, d) /\ item = Found(SlotsOf(vol, d)[n + 1])
      /\ it.finished <=> SlotsOf(vol, d)[n + 1].kind = "end"
      /\ ~it.finished => At(d, n + 1, it)
  BY DEF Scanned, Found, Error, NoItem
<1>2. item.entry = SlotsOf(vol, d)[n + 1] /\ SlotCount(vol, d) \in Nat
  BY <1>1, SlotsTyped DEF Found
<1>3. CASE item.entry.kind = "end"
  BY <1>1, <1>2, <1>3 DEF Scanned, Ends
<1>4. CASE item.entry.kind # "end"
  <2>1. n + 1 \in 0 .. SlotCount(vol, d) /\ \A i \in 1 .. n + 1 : i \in 1 .. n \/ i = n + 1
    BY <1>1, <1>2
  <2>2. Passed(vol, d, n + 1)
    BY <1>1, <1>2, <1>4, <2>1 DEF Passed
  <2>3. At(d, n + 1, it)'
    BY <1>1, <1>2, <1>4 DEF At
  <2> QED BY <1>1, <1>2, <1>4, <2>1, <2>2, <2>3 DEF Scanned
<1> QED BY <1>1, <1>2, <1>3, <1>4

LEMMA UseInPathProceeds ==
  ASSUME IInv, Unstraying(vol), NEW d \in DOMAIN vol.chains, NEW n \in 0 .. SlotCount(vol, d),
         Scans(d, n), UseInPath
  PROVE  Proceeds
<1> DEFINE tree == TreeOf[vol]
           slots == SlotsOf(vol, d)
           names == Staying(request.path)
           name == path[depth]
           child == Child(tree, d, name)
           whole == Resolve(tree, request.path)
<1>1. /\ pc = "use" /\ ~listing /\ reply = NoReply /\ vol \in Volumes
      /\ UNCHANGED <<vol, request>>
  BY DEF UseInPath, IInv
<1>2. Scanned(d, n) /\ LooksIn(d, n) /\ Passed(vol, d, n) /\ Missed(vol, d, n, name)
  BY <1>1 DEF Scans, Scanned, LooksIn
<1>3. /\ Reached(tree, names, depth - 1) = child
      /\ depth = Len(path) \/ child.kind = "error" => whole = child
      /\ depth < Len(path) /\ child.kind = "entry" /\ child.entry.kind # "dir"
           => whole = Error("NotADirectory")
  BY <1>2, NextName
<1>4. SlotCount(vol, d) \in Nat
  BY <1>1, SlotsTyped
<1>5. ASSUME n \in Marked(vol, d)
      PROVE  whole = Error(IF n < SlotCount(vol, d) THEN "NotFound" ELSE "InvalidClusterChain")
  <2>1. child = Error(IF n < SlotCount(vol, d) THEN "NotFound" ELSE "InvalidClusterChain")
    BY <1>1, <1>2, <1>5, NoMatchNoChild
  <2>2. child.kind = "error"
    BY <2>1 DEF Error
  <2> HIDE DEF child, whole
  <2> QED BY <1>3, <2>1, <2>2
<1> HIDE DEF tree, names, whole, child
<1>6. ASSUME item = NoItem, Return(Error("NotFound")) PROVE Proceeds
  <2>1. n < SlotCount(vol, d) /\ slots[n + 1].kind = "end"
    BY <1>1, <1>2, <1>6 DEF Scanned, Ends, NoItem, Found, Error
  <2>2. n \in Marked(vol, d)
    BY <1>2, <2>1 DEF Marked
  <2>3. Truthful(Error("NotFound"))
    BY <1>5, <2>1, <2>2, ErrorTruthful DEF whole, tree
  <2> QED BY <1>1, <1>6, <2>3 DEF Return, Proceeds
<1>7. ASSUME item.kind = "error", Return(item) PROVE Proceeds
  <2>1. \/ item = Error("InvalidClusterChain") /\ Cut(d, n)
        \/ /\ ~WellFormed(vol)
           /\ item \in {Error("InvalidClusterChain"), Error("InvalidClusterNumber"), Error("Io")}
    BY <1>1, <1>2, <1>7 DEF Scanned, NoItem, Found
  <2>2. Truthful(item)
    <3>1. CASE n = SlotCount(vol, d) /\ item = Error("InvalidClusterChain")
      <4>1. n \in Marked(vol, d) /\ ~(n < SlotCount(vol, d))
        BY <1>2, <1>4, <3>1 DEF Marked
      <4>2. whole = Error("InvalidClusterChain")
        BY <1>5, <4>1
      <4> QED BY <3>1, <4>2, ErrorTruthful DEF whole, tree
    <3>2. CASE ~WellFormed(vol)
      <4>1. PICK e \in {"InvalidClusterChain", "InvalidClusterNumber", "Io"} : item = Error(e)
        BY <2>1
      <4>2. Truthful(Error(e))
        BY <3>2, ErrorTruthful
      <4> QED BY <4>1, <4>2
    <3> QED BY <2>1, <3>1, <3>2 DEF Cut
  <2> QED BY <1>1, <1>7, <2>2 DEF Return, Proceeds
<1>8. ASSUME item.kind = "entry", ~Circles(d, n)
      PROVE  /\ n < SlotCount(vol, d) /\ item.entry = slots[n + 1]
             /\ n \in 0 .. SlotCount(vol, d) - 1
  BY <1>1, <1>2, <1>4, <1>8 DEF Scanned, NoItem, Found, Error
<1>9. ASSUME Circles(d, n) PROVE item.kind = "entry" /\ ~Matches
  <2>1. PICK i \in 1 .. n : item = Found(slots[i])
    BY <1>1, <1>2, <1>9, UsedAgain
  <2>2. IsValid(slots[i]) => slots[i].name # name
    BY <1>2 DEF Missed
  <2> QED BY <2>1, <2>2 DEF Matches, Found
<1>10. ASSUME item.kind = "entry", Panic PROVE Proceeds
  BY <1>1, <1>10 DEF Panic, Proceeds
<1>11. ASSUME item.kind = "entry", ~Matches, FetchNext PROVE Proceeds
  <2>1. pc' = "fetch" /\ UNCHANGED <<path, depth, listing, it, item, out, reply>>
    BY <1>11 DEF FetchNext, locals
  <2>2. ASSUME ~Circles(d, n)
        PROVE  IF item.entry.kind = "end" THEN Scanned(d, n)'
               ELSE n + 1 \in 0 .. SlotCount(vol, d) /\ Scanned(d, n + 1)'
    BY <1>1, <1>2, <1>11, <2>1, <2>2, SlotPassed
  <2>3. CASE Circles(d, n) \/ item.entry.kind = "end"
    <3>1. LooksIn(d, n)'
      BY <1>1, <1>2, <2>1 DEF LooksIn
    <3>2. Scanned(d, n)'
      BY <1>1, <1>2, <2>1, <2>2, <2>3, CirclesOn
    <3>3. Scans(d, n)'
      BY <1>1, <2>1, <3>1, <3>2 DEF Scans
    <3> QED BY <1>1, <2>1, <3>3 DEF Proceeds, Scanning
  <2>4. CASE ~Circles(d, n) /\ item.entry.kind # "end"
    <3>1. n + 1 \in 0 .. SlotCount(vol, d) /\ \A i \in 1 .. n + 1 : i \in 1 .. n \/ i = n + 1
      BY <2>2, <2>4
    <3>2. IsValid(slots[n + 1]) => slots[n + 1].name # name
      BY <1>8, <1>11, <2>4 DEF Matches
    <3>3. Missed(vol, d, n + 1, name)
      BY <1>2, <3>1, <3>2 DEF Missed
    <3>4. LooksIn(d, n + 1)
      BY <1>2, <3>3 DEF LooksIn
    <3>5. LooksIn(d, n + 1)'
      BY <1>1, <2>1, <3>4 DEF LooksIn
    <3>6. Scans(d, n + 1)'
      BY <1>1, <2>1, <2>2, <2>4, <3>5 DEF Scans
    <3> QED BY <1>1, <2>1, <3>1, <3>6 DEF Proceeds, Scanning
  <2> QED BY <2>3, <2>4
<1>12. ASSUME item.kind = "entry", Matches
       PROVE  /\ child = Found(item.entry)
              /\ item.entry.kind = "dir" => item.entry.first \in DOMAIN vol.chains
  <2>1. IsValid(item.entry) /\ item.entry.name = name
    BY <1>12 DEF Matches
  <2>2. /\ Child(TreeOf[vol], d, item.entry.name) = Found(item.entry)
        /\ item.entry.kind = "dir" => item.entry.first \in DOMAIN vol.chains
    BY <1>1, <1>2, <1>8, <1>12, <1>9, <2>1, MatchIsChild
  <2> QED BY <2>1, <2>2 DEF child, tree
<1>13. ASSUME item.kind = "entry", Matches, depth = Len(path), Resolved(item.entry) PROVE Proceeds
  <2>1. whole = Found(item.entry)
    BY <1>3, <1>12, <1>13
  <2> QED BY <1>1, <1>12, <1>13, <2>1, ResolvedProceeds DEF whole, tree
<1>14. ASSUME item.kind = "entry", Matches, depth < Len(path), Descend PROVE Proceeds
  <2>1. child.kind = "entry" /\ child.entry = item.entry
    BY <1>12, <1>14 DEF Found
  <2>2. CASE item.entry.kind # "dir" /\ Return(Error("NotADirectory"))
    <3>1. whole = Error("NotADirectory")
      BY <1>3, <1>14, <2>1, <2>2
    <3>2. Truthful(Error("NotADirectory"))
      BY <3>1, ErrorTruthful DEF whole, tree
    <3> QED BY <1>1, <2>2, <3>2 DEF Return, Proceeds
  <2>3. CASE /\ item.entry.kind = "dir"
             /\ it' = NewIterator(item.entry.first) /\ depth' = depth + 1
             /\ pc' = "fetch" /\ UNCHANGED <<path, listing, item, out, reply>>
    <3>1. PICK e \in DOMAIN vol.chains : e = item.entry.first
      BY <1>12, <1>14, <2>3
    <3>2. 0 \in 0 .. SlotCount(vol, e)
      <4>1. SlotCount(vol, e) \in Nat
        BY <1>1, SlotsTyped
      <4> QED BY <4>1
    <3>3. it'.cluster = e /\ it'.entry = -1 /\ ~it'.finished
      BY <2>3, <3>1 DEF NewIterator
    <3>4. Passed(vol, e, 0)
      BY DEF Passed
    <3>5. Scanned(e, 0)'
      BY <1>1, <2>3, <3>3, <3>4 DEF Scanned, At
    <3>6. depth \in 2 .. Len(path) /\ Len(path) \in Nat
      BY <1>2, LenProperties DEF LooksIn, IInv
    <3>7. depth + 1 \in 2 .. Len(path) /\ (depth + 1) - 2 = depth - 1
      BY <1>14, <3>6
    <3>8. Reached(TreeOf[vol], Staying(request.path), (depth + 1) - 2) = child
      BY <1>3, <3>7 DEF tree, names
    <3>9. Missed(vol, e, 0, path[depth + 1])
      BY DEF Missed
    <3>10. LooksIn(e, 0)'
      BY <1>1, <1>2, <2>1, <2>3, <3>1, <3>7, <3>8, <3>9 DEF LooksIn
    <3>11. Scans(e, 0)'
      BY <1>1, <2>3, <3>5, <3>10 DEF Scans
    <3> QED BY <1>1, <2>3, <3>2, <3>11 DEF Proceeds, Scanning
  <2> QED BY <1>14, <2>2, <2>3 DEF Descend
<1> QED BY <1>6, <1>7, <1>10, <1>11, <1>13, <1>14 DEF UseInPath

LEMMA UseInListingProceeds ==
  ASSUME IInv, NEW d \in DOMAIN vol.chains, NEW n \in 0 .. SlotCount(vol, d),
         Scans(d, n), UseInListing
  PROVE  Proceeds
<1> DEFINE tree == TreeOf[vol]
           slots == SlotsOf(vol, d)
           shown == ShownIn(tree, d)
<1>1. /\ pc = "use" /\ listing /\ reply = NoReply /\ vol \in Volumes
      /\ UNCHANGED <<vol, request>>
  BY DEF UseInListing, IInv
<1>2. /\ Scanned(d, n) /\ Lists(d, n) /\ Passed(vol, d, n)
      /\ out = Shown(vol, d, n) \/ Circles(d, n)
  BY <1>1 DEF Scans, Scanned, Lists
<1>3. SlotCount(vol, d) \in Nat
  BY <1>1, SlotsTyped
<1>4. Answer(tree, request) = Listed(shown)
  <2> DEFINE found == Resolve(tree, request.path)
  <2>1. request.op = "list" /\ found.kind = "entry" /\ found.entry.kind = "dir" /\ found.entry.first = d
    BY <1>2 DEF Lists
  <2> HIDE DEF found, tree
  <2>2. Answer(tree, request)
          = IF found.entry.kind = "dir"
              THEN Listed(ShownIn(tree, found.entry.first)) ELSE Error("NotADirectory")
    BY <2>1, AnswerFor DEF found
  <2> QED BY <2>1, <2>2
<1>5. ASSUME Circles(d, n) PROVE item.kind = "entry"
  BY <1>1, <1>2, <1>5, UsedAgain DEF Found
<1>6. ASSUME Circles(d, n), pc' = "fetch", UNCHANGED <<listing, it, reply>> PROVE Proceeds
  <2>1. Scanned(d, n)' /\ Circles(d, n)'
    BY <1>1, <1>2, <1>6, CirclesOn
  <2>2. Scans(d, n)'
    BY <1>1, <1>2, <1>6, <2>1 DEF Scans, Lists
  <2> QED BY <1>1, <1>6, <2>2 DEF Proceeds, Scanning
<1>7. ASSUME item = NoItem, Return(Listed(out)) PROVE Proceeds
  <2>1. ~Circles(d, n)
    BY <1>7, <1>5 DEF NoItem
  <2>2. Ends(d, n)
    BY <1>1, <1>2, <1>7 DEF Scanned, NoItem, Found, Error
  <2>3. Listed(out) # NoReply /\ Listed(out).kind = "list" /\ Listed(out).entries = out
        /\ Listed(shown).kind = "list" /\ Listed(shown).entries = shown
    BY DEF Listed, NoReply
  <2>4. CASE n \in Marked(vol, d)
    <3>1. out = shown
      BY <1>1, <1>2, <2>1, <2>4, ShownAll
    <3> QED BY <1>1, <1>4, <1>7, <2>3, <3>1 DEF Truthful, Return, Proceeds
  <2>5. CASE ~WellFormed(vol)
    <3>1. PICK m \in Marked(vol, d) : EntriesOf(vol, d) = Used(vol, d, m)
      BY <1>1, EntriesUsed
    <3>2. m \in 0 .. SlotCount(vol, d) /\ n \in 0 .. m
      <4>1. n <= m
        BY <1>1, <1>2, MarkIsNext
      <4> QED BY <1>3, <4>1 DEF Marked
    <3>3. IsPrefix(out, shown)
      BY <1>1, <1>2, <2>1, <3>2, ShownGrows, ShownAll
    <3>4. Abstract!FallsShort(Listed(out), Listed(shown))
      <4> HIDE DEF shown
      <4> QED BY <2>3, <3>3 DEF Abstract!FallsShort, Abstract!IsPrefix, IsPrefix
    <3>5. Truthful(Listed(out))
      BY <1>4, <2>3, <2>5, <3>4 DEF Truthful
    <3> QED BY <1>1, <1>7, <3>5 DEF Return, Proceeds
  <2>6. n \in Marked(vol, d) \/ ~WellFormed(vol)
    BY <1>2, <1>3, <2>2 DEF Ends, Cut, Marked
  <2> QED BY <2>4, <2>5, <2>6
<1>8. ASSUME Panic PROVE Proceeds
  BY <1>1, <1>8 DEF Panic, Proceeds
<1>9. ASSUME ~Circles(d, n), item.kind = "entry", item.entry.kind # "end", pc' = "fetch",
             UNCHANGED <<listing, it, reply>>,
             out' = IF Shows THEN Append(out, item.entry) ELSE out
      PROVE  Proceeds
  <2>1. /\ n < SlotCount(vol, d) /\ item.entry = slots[n + 1]
        /\ n + 1 \in 0 .. SlotCount(vol, d) /\ Scanned(d, n + 1)'
    BY <1>1, <1>2, <1>9, SlotPassed
  <2>2. n + 1 > 0 /\ (n + 1) - 1 = n
    BY <1>3
  <2>3. Shows <=> slots[n + 1].kind \in {"file", "dir"}
    BY <1>9, <2>1 DEF Shows
  <2>4. Shown(vol, d, n + 1) = IF Shows THEN Append(Shown(vol, d, n), slots[n + 1]) ELSE Shown(vol, d, n)
    <3>1. /\ n + 1 > 0 /\ slots[n + 1].kind \in {"file", "dir"}
               => Shown(vol, d, n + 1) = Append(Shown(vol, d, (n + 1) - 1), slots[n + 1])
          /\ n + 1 > 0 /\ slots[n + 1].kind \notin {"file", "dir"}
               => Shown(vol, d, n + 1) = Shown(vol, d, (n + 1) - 1)
      BY <1>1, <2>1, ShownOn
    <3> QED BY <2>2, <2>3, <3>1
  <2>5. out' = Shown(vol, d, n + 1)
    BY <1>2, <1>9, <2>1, <2>4
  <2>6. Lists(d, n + 1)'
    BY <1>1, <1>2, <2>5 DEF Lists
  <2>7. Scans(d, n + 1)'
    BY <1>1, <1>9, <2>1, <2>6 DEF Scans
  <2> QED BY <1>1, <1>9, <2>1, <2>7 DEF Proceeds, Scanning
<1>10. ASSUME Shows, out' = Append(out, item.entry), pc' = "fetch",
              UNCHANGED <<path, depth, listing, it, item, reply>>
       PROVE  Proceeds
  <2>1. CASE Circles(d, n)
    BY <1>10, <1>6, <2>1
  <2>2. CASE ~Circles(d, n)
    BY <1>9, <1>10, <2>2 DEF Shows
  <2> QED BY <2>1, <2>2
<1>11. ASSUME item # NoItem, ~Shows, FetchNext PROVE Proceeds
  <2>1. pc' = "fetch" /\ UNCHANGED <<path, depth, listing, it, item, out, reply>>
    BY <1>11 DEF FetchNext, locals
  <2>2. ASSUME Scanned(d, n)' PROVE Proceeds
    <3>1. Lists(d, n)'
      BY <1>1, <1>2, <2>1 DEF Lists, Circles
    <3>2. Scans(d, n)'
      BY <1>1, <2>1, <2>2, <3>1 DEF Scans
    <3> QED BY <1>1, <2>1, <3>2 DEF Proceeds, Scanning
  <2>3. CASE Circles(d, n)
    BY <1>6, <2>1, <2>3
  <2>4. CASE ~Circles(d, n) /\ item.kind = "entry" /\ item.entry.kind # "end"
    BY <1>9, <1>11, <2>1, <2>4
  <2>5. CASE ~Circles(d, n) /\ item.kind = "entry" /\ item.entry.kind = "end"
    BY <1>1, <1>2, <2>1, <2>2, <2>5, SlotPassed
  <2>6. CASE item.kind # "entry"
    <3>1. (it.finished /\ Cut(d, n)) \/ (~it.finished /\ Astray)
      BY <1>1, <1>2, <1>11, <2>6 DEF Scanned, Found, Cut
    <3>2. CASE it.finished /\ Cut(d, n)
      BY <1>1, <1>2, <2>1, <2>2, <3>2 DEF Scanned, Ends, Cut
    <3>3. CASE ~it.finished /\ Astray
      BY <1>1, <1>2, <2>1, <2>2, <3>3 DEF Scanned, Astray
    <3> QED BY <3>1, <3>2, <3>3
  <2> QED BY <2>4, <2>5, <2>6, <2>3
<1> QED BY <1>7, <1>8, <1>10, <1>11 DEF UseInListing

LEMMA BeginProceeds ==
  ASSUME IInv, ~listing, Unstraying(vol), Begin PROVE Proceeds
<1> DEFINE names == Staying(request.path)
           normal == Normalize(request.path)
           tree == TreeOf[vol]
<1>1. /\ pc = "asked" /\ reply = NoReply /\ vol \in Volumes /\ request \in Requests
      /\ UNCHANGED <<vol, request>>
  BY DEF Begin, IInv
<1>2. /\ names \in Seq(Names)
      /\ normal[1] # Root => names # <<>> /\ ~IsAbsolute(request.path)
      /\ normal[1] = Root => /\ IsAbsolute(request.path) \/ names = <<>>
                             /\ Len(normal) = Len(names) + 1
                             /\ \A k \in 1 .. Len(names) : normal[k + 1] = names[k]
  BY <1>1, PathParts
<1>3. LeadsOn(tree, Slot) /\ vol.root \in DOMAIN vol.chains /\ RootEntry(tree) = RootEntry(vol)
  BY <1>1, TreeLeadsOn, TreeParts DEF Unstraying
<1>4. Len(names) \in Nat
  BY <1>2, LenProperties
<1> HIDE DEF tree, normal
<1>5. ASSUME normal[1] # Root, Return(Error("NotFound")) PROVE Proceeds
  <2>1. Resolve(TreeOf[vol], request.path) = Error("NotFound")
    BY <1>2, <1>5 DEF Resolve
  <2>2. Truthful(Error("NotFound"))
    BY <2>1, ErrorTruthful
  <2> QED BY <1>1, <1>5, <2>2 DEF Return, Proceeds
<1>6. ASSUME normal = <<Root>>, Resolved(RootEntry(vol)) PROVE Proceeds
  <2>1. normal[1] = Root /\ Len(normal) = 1
    BY <1>6
  <2>2. names = <<>>
    <3>1. Len(names) = 0
      BY <1>2, <1>4, <2>1
    <3> HIDE DEF names
    <3> QED BY <1>2, <3>1, EmptySeq
  <2>3. Resolve(tree, request.path) = Walk(tree, <<>>)
    BY <2>2 DEF Resolve
  <2>4. Resolve(tree, request.path) = Found(RootEntry(vol))
    BY <1>3, <2>3, WalkNowhere
  <2>5. RootEntry(vol).first \in DOMAIN vol.chains
    BY <1>3 DEF RootEntry
  <2> QED BY <1>1, <1>6, <2>4, <2>5, ResolvedProceeds DEF tree
<1>7. ASSUME normal[1] = Root, Len(normal) > 1, path' = normal, depth' = 2,
             it' = NewIterator(vol.root), pc' = "fetch", UNCHANGED <<listing, item, out, reply>>
      PROVE  Proceeds
  <2> DEFINE d == vol.root
  <2>1. d \in DOMAIN vol.chains /\ 0 \in 0 .. SlotCount(vol, d)
    <3>1. SlotCount(vol, d) \in Nat
      BY <1>1, <1>3, SlotsTyped
    <3> QED BY <1>3, <3>1
  <2>2. it'.cluster = d /\ it'.entry = -1 /\ ~it'.finished
    BY <1>7 DEF NewIterator
  <2>3. Passed(vol, d, 0) /\ Missed(vol, d, 0, normal[2])
    BY DEF Passed, Missed
  <2>4. Scanned(d, 0)'
    BY <1>1, <1>7, <2>2, <2>3 DEF Scanned, At
  <2>5. IsAbsolute(request.path)
    <3>1. Len(names) > 0
      BY <1>2, <1>4, <1>7
    <3>2. names # <<>>
      BY <3>1
    <3> QED BY <1>2, <1>7, <3>2
  <2>6. Reached(tree, names, 0) = Found(RootEntry(vol))
    <3> HIDE DEF names
    <3>1. 0 \in 0 .. Len(names)
      BY <1>4
    <3> QED BY <1>2, <1>3, <3>1, ReachedOn
  <2>7. 2 \in 2 .. Len(normal) /\ 2 - 2 = 0
    BY <1>2, <1>4, <1>7
  <2>8. LooksIn(d, 0)'
    BY <1>1, <1>2, <1>7, <2>3, <2>5, <2>6, <2>7 DEF LooksIn, Found, RootEntry, tree
  <2>9. Scans(d, 0)'
    BY <1>7, <2>4, <2>8 DEF Scans
  <2> QED BY <1>1, <1>7, <2>1, <2>9 DEF Proceeds, Scanning
<1> QED BY <1>5, <1>6, <1>7 DEF Begin, normal

LEMMA ScanProceeds ==
  ASSUME RInv, Unstraying(vol), Scan PROVE Proceeds
<1>1. CASE Begin
  BY <1>1, BeginProceeds DEF RInv, Begin
<1>2. CASE Fetch \/ UseInPath \/ UseInListing
  <2>1. IInv /\ pc \in {"fetch", "use"}
    BY <1>2 DEF RInv, Fetch, UseInPath, UseInListing
  <2> PICK d \in DOMAIN vol.chains : \E n \in 0 .. SlotCount(vol, d) : Scans(d, n)
    BY <2>1 DEF RInv, Scanning
  <2>2. PICK n \in 0 .. SlotCount(vol, d) : Scans(d, n)
    OBVIOUS
  <2>3. CASE Fetch
    <3>1. UNCHANGED <<vol, request, reply>>
      BY <2>3 DEF Fetch
    <3>2. pc' = "panicked" \/ Scans(d, n)'
      BY <2>1, <2>2, <2>3, FetchScans
    <3> QED BY <3>1, <3>2 DEF Proceeds, Scanning
  <2>4. CASE UseInPath
    BY <2>1, <2>2, <2>4, UseInPathProceeds
  <2>5. CASE UseInListing
    BY <2>1, <2>2, <2>5, UseInListingProceeds
  <2> QED BY <1>2, <2>3, <2>4, <2>5
<1> QED BY <1>1, <1>2 DEF Scan

LEMMA RefinesNext ==
  ASSUME RInv, \A v \in Volumes : Unstraying(v), [Next]_vars
  PROVE  RInv' /\ [Abstract!Ask \/ Abstract!Respond]_Abstract!vars
<1>1. IInv /\ IInv' /\ Unstraying(vol)
  BY NextTyped DEF RInv, IInv
<1>2. NoReply = Abstract!NoReply
  BY DEF NoReply, Abstract!NoReply
<1>3. CASE UNCHANGED vars
  <2>1. UNCHANGED Abstract!vars
    BY <1>3 DEF vars, Abstract!vars
  <2>2. ASSUME NEW d, NEW n, Scans(d, n) PROVE Scans(d, n)'
    <3>1. /\ At(d, n, it) <=> At(d, n, it)'
          /\ At(d, n + 1, it) <=> At(d, n + 1, it)'
      BY <1>3 DEF vars, At
    <3>2. (Astray <=> Astray') /\ (Circles(d, n) <=> Circles(d, n)')
      BY <1>3 DEF vars, Astray, Circles
    <3>3. (Ends(d, n) <=> Ends(d, n)') /\ (Cut(d, n) <=> Cut(d, n)')
      BY <1>3 DEF vars, Ends, Cut
    <3>4. Scanned(d, n)'
      BY <1>3, <2>2, <3>1, <3>2, <3>3 DEF vars, Scans, Scanned
    <3>5. IF listing THEN Lists(d, n)' ELSE LooksIn(d, n)'
      BY <1>3, <2>2, <3>2 DEF vars, Scans, Lists, LooksIn
    <3> QED BY <1>3, <3>4, <3>5 DEF vars, Scans
  <2>3. Scanning => Scanning'
    BY <1>3, <2>2 DEF vars, Scanning
  <2> QED BY <1>1, <1>3, <2>1, <2>3 DEF RInv, vars
<1>4. CASE Ask
  <2>1. RInv'
    BY <1>1, <1>4 DEF Ask, RInv, locals
  <2>2. Abstract!Ask
    BY <1>1, <1>2, <1>4 DEF Ask, Abstract!Ask, IInv
  <2> QED BY <2>1, <2>2
<1>5. CASE Scan
  <2>1. Proceeds
    BY <1>1, <1>5, ScanProceeds
  <2>2. reply = NoReply /\ UNCHANGED <<vol, request>>
    BY <1>1, <1>5, <2>1 DEF Scan, Begin, Fetch, UseInPath, UseInListing, IInv, Proceeds
  <2>3. CASE pc' = "panicked" /\ UNCHANGED reply
    BY <1>1, <2>2, <2>3 DEF RInv, Abstract!vars
  <2>4. CASE pc' = "idle" /\ ~listing' /\ Truthful(reply')
    <3>1. Abstract!Respond
      <4> DEFINE answer == Answer(TreeOf[vol], request)
      <4>1. /\ reply' # NoReply
            /\ \/ reply' = answer
               \/ ~WellFormed(vol) /\ Abstract!FallsShort(reply', answer)
        BY <2>4 DEF Truthful
      <4>2. Abstract!Answer(TreeOf[vol], request) = answer
        BY SameAnswer
      <4>3. TreeOf[vol].damaged = ~WellFormed(vol)
        BY <1>1, TreeParts DEF IInv
      <4>4. UNCHANGED <<TreeOf[vol], request>>
        BY <2>2
      <4> HIDE DEF answer
      <4> QED BY <1>2, <2>2, <4>1, <4>2, <4>3, <4>4 DEF Abstract!Respond
    <3> QED BY <1>1, <2>4, <3>1 DEF RInv
  <2>5. CASE UNCHANGED reply /\ Scanning'
    <3>1. pc' # "idle"
      BY <1>1, <2>2, <2>5 DEF IInv
    <3>2. pc' # "asked"
      BY <1>5, <1>1, <2>2 DEF Scan, Begin, Resolved, Return, StartListing, Fetch, FetchFinished,
         FetchPanics, FetchChainEnds, FetchRefused, FetchUnreadable, FetchSlot, Yield,
         UseInPath, UseInListing, Panic, FetchNext, Descend
    <3> QED BY <1>1, <2>2, <2>5, <3>1, <3>2 DEF RInv, Abstract!vars
  <2> QED BY <2>1, <2>3, <2>4, <2>5 DEF Proceeds
<1> QED BY <1>3, <1>4, <1>5 DEF Next

\* Calls are answered as the tree of entries says, on volumes of any size whose
\* chains, where they are damaged, are cut off and do not stray.
THEOREM AnswersAsTree ==
  ASSUME \A v \in Volumes : Unstraying(v) PROVE Spec => ImplementsDirTree
<1>1. Init => RInv /\ Abstract!Init
  <2> SUFFICES ASSUME Init PROVE RInv /\ Abstract!Init
    OBVIOUS
  <2>1. IInv
    BY InitTyped
  <2> QED BY <2>1 DEF Init, RInv, Abstract!Init, NoReply, Abstract!NoReply
<1>2. RInv /\ [Next]_vars => RInv' /\ [Abstract!Ask \/ Abstract!Respond]_Abstract!vars
  BY RefinesNext
<1> QED BY <1>1, <1>2, PTL DEF Spec, ImplementsDirTree, Abstract!Spec
=============================================================================
