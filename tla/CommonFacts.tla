---------------------------- MODULE CommonFacts -----------------------------
(***************************************************************************)
(* Facts that the proofs about several components rest on: quotients and   *)
(* remainders (offsets within one cluster, whole clusters of an area);     *)
(* induction in the form the provers can use, with a set in place of a     *)
(* predicate; and what the operators of Subsequence and DirAnswers give,   *)
(* for every sequence, every path and every tree.                          *)
(***************************************************************************)
EXTENDS DirAnswers, SequenceTheorems, FiniteSetTheorems, WellFoundedInduction, TLAPS

-----------------------------------------------------------------------------
(* Numbers. *)

\* Division with remainder.
LEMMA DivMod ==
  ASSUME NEW B \in Nat \ {0}, NEW p \in Nat
  PROVE  /\ p \div B \in Nat
         /\ p % B \in 0 .. B - 1
         /\ p = (B * (p \div B)) + (p % B)
OBVIOUS

\* Clusters with different indexes do not overlap.
LEMMA NextMultiple ==
  ASSUME NEW B \in Nat \ {0}, NEW m \in Nat, NEW n \in Nat, m < n
  PROVE  (B * m) + B <= B * n
<1>1. PICK d \in Nat : n = (m + 1) + d
  <2>1. (n - m) - 1 \in Nat
    OBVIOUS
  <2> QED BY <2>1
<1>2. B * n = ((B * m) + B) + (B * d)
  BY <1>1
<1>3. B * d >= 0
  OBVIOUS
<1>4. B * m \in Nat /\ B * d \in Nat /\ B * n \in Nat
  OBVIOUS
<1> QED BY <1>2, <1>3, <1>4

\* Quotient and remainder are determined.
LEMMA DivModUnique ==
  ASSUME NEW B \in Nat \ {0}, NEW q \in Nat, NEW s \in Nat,
         NEW r \in 0 .. B - 1, NEW t \in 0 .. B - 1,
         (B * q) + r = (B * s) + t
  PROVE  q = s /\ r = t
<1>1. B * q \in Nat /\ B * s \in Nat
  OBVIOUS
<1>2. ~(q < s)
  BY <1>1, NextMultiple
<1>3. ~(s < q)
  BY <1>1, NextMultiple
<1>4. q = s
  BY <1>2, <1>3
<1> QED BY <1>1, <1>4

\* Moving on by j bytes without leaving the cluster.
LEMMA SameCluster ==
  ASSUME NEW B \in Nat \ {0}, NEW p \in Nat, NEW j \in Nat, (p % B) + j < B
  PROVE  /\ (p + j) \div B = p \div B
         /\ (p + j) % B = (p % B) + j
<1> DEFINE q == p \div B
           r == p % B
           s == (p + j) \div B
           t == (p + j) % B
<1>1. q \in Nat /\ r \in 0 .. B - 1 /\ p = (B * q) + r
  BY DivMod
<1>2. p + j \in Nat
  OBVIOUS
<1>3. s \in Nat /\ t \in 0 .. B - 1 /\ p + j = (B * s) + t
  BY <1>2, DivMod
<1>4. r + j \in 0 .. B - 1
  BY <1>1
<1> HIDE DEF q, r, s, t
<1>5. B * q \in Nat /\ B * s \in Nat
  BY <1>1, <1>3
<1>6. (B * q) + (r + j) = (B * s) + t
  BY <1>1, <1>3, <1>5
<1>7. q = s /\ r + j = t
  BY <1>1, <1>3, <1>4, <1>6, DivModUnique
<1> QED BY <1>7 DEF q, r, s, t

\* A later byte is in the same cluster of the file or in a later one.
LEMMA DivMonotone ==
  ASSUME NEW B \in Nat \ {0}, NEW p \in Nat, NEW q \in Nat, p <= q
  PROVE  p \div B <= q \div B
BY DivMod, NextMultiple

\* Fewer than n whole clusters fit in less than n clusters.
LEMMA QuotientBelow ==
  ASSUME NEW B \in Nat \ {0}, NEW p \in Nat, NEW n \in Nat, p < B * n
  PROVE  p \div B < n
<1>1. p \div B \in Nat /\ B * (p \div B) <= p
  BY DivMod
<1>2. CASE p \div B = n
  BY <1>1, <1>2
<1>3. CASE n < p \div B
  BY <1>1, <1>3, NextMultiple
<1> QED BY <1>1, <1>2, <1>3

\* n clusters fit where there is room for n clusters.
LEMMA QuotientAtLeast ==
  ASSUME NEW B \in Nat \ {0}, NEW p \in Nat, NEW n \in Nat, B * n <= p
  PROVE  n <= p \div B
<1>1. p \div B \in Nat /\ p < (B * (p \div B)) + B
  BY DivMod
<1>2. CASE p \div B < n
  <2>1. (B * (p \div B)) + B <= B * n
    BY <1>1, <1>2, NextMultiple
  <2>2. B * (p \div B) \in Nat /\ B * n \in Nat
    BY <1>1
  <2> QED BY <1>1, <2>1, <2>2
<1> QED BY <1>1, <1>2

\* Larger clusters are no more.
LEMMA QuotientOfMultiple ==
  ASSUME NEW B \in Nat \ {0}, NEW k \in Nat \ {0}, NEW p \in Nat
  PROVE  p \div (k * B) <= p \div B
<1> DEFINE q == p \div (k * B)
<1>1. k * B \in Nat \ {0}
  OBVIOUS
<1>2. q \in Nat /\ (k * B) * q <= p
  <2>1. \A b \in Nat \ {0} : p \div b \in Nat /\ b * (p \div b) <= p
    BY DivMod
  <2> QED BY <1>1, <2>1
<1> HIDE DEF q
<1>3. B * q <= (k * B) * q
  <2>1. PICK m \in Nat : k = m + 1
    <3>1. k - 1 \in Nat
      OBVIOUS
    <3> QED BY <3>1
  <2>2. (k * B) * q = ((m * B) * q) + (B * q)
    BY <1>2, <2>1
  <2>3. (m * B) * q \in Nat /\ B * q \in Nat
    BY <1>2
  <2> QED BY <2>2, <2>3
<1>4. B * q \in Nat /\ (k * B) * q \in Nat
  BY <1>1, <1>2
<1>5. B * q <= p
  BY <1>2, <1>3, <1>4
<1>6. q <= p \div B
  BY <1>2, <1>5, QuotientAtLeast
<1> QED BY <1>6 DEF q

-----------------------------------------------------------------------------
\* A set of naturals that is not empty has a least member.
LEMMA LeastOf ==
  ASSUME NEW S \in SUBSET Nat, S # {}
  PROVE  \E m \in S : \A k \in S : m <= k
<1>1. PICK m \in S : \A k \in S : ~(<<k, m>> \in OpToRel(<, Nat))
  BY NatLessThanWellFounded, WFMin, Zenon
<1>2. \A k \in S : ~(k < m)
  BY <1>1 DEF OpToRel
<1> QED BY <1>2

\* A set with 0 and the successor of each of its numbers below n has all up to n.
LEMMA UpTo ==
  ASSUME NEW n \in Nat, NEW P, 0 \in P, \A i \in 0 .. n - 1 : i \in P => i + 1 \in P
  PROVE  \A i \in 0 .. n : i \in P
<1> DEFINE Missing == {i \in 0 .. n : i \notin P}
<1> SUFFICES ASSUME Missing # {} PROVE FALSE
  OBVIOUS
<1>1. PICK m \in Missing : \A k \in Missing : m <= k
  <2>1. Missing \in SUBSET Nat
    OBVIOUS
  <2> HIDE DEF Missing
  <2> QED BY <2>1, LeastOf
<1>2. m # 0 /\ m - 1 \in 0 .. n - 1
  OBVIOUS
<1>3. m - 1 \in P
  BY <1>1, <1>2
<1>4. (m - 1) + 1 \in P
  BY <1>2, <1>3
<1> QED BY <1>1, <1>4

\* The functions that start with c and go on by the steps.
Runs(T, c, n, step) ==
  {f \in [0 .. n -> T] : f[0] = c /\ \A i \in 1 .. n : f[i] = step[i][f[i - 1]]}

\* There is one.
LEMMA Iterates ==
  ASSUME NEW T, NEW c \in T, NEW n \in Nat, NEW step \in [Nat -> [T -> T]]
  PROVE  Runs(T, c, n, step) # {}
<1> DEFINE Good(k) == \E f \in [0 .. k -> T] :
             f[0] = c /\ \A i \in 1 .. k : f[i] = step[i][f[i - 1]]
<1> DEFINE P == {k \in Nat : Good(k)}
<1>1. 0 \in P
  <2> DEFINE f == [i \in 0 .. 0 |-> c]
  <2>1. f \in [0 .. 0 -> T] /\ f[0] = c /\ \A i \in 1 .. 0 : f[i] = step[i][f[i - 1]]
    OBVIOUS
  <2> QED BY <2>1
<1>2. ASSUME NEW k \in 0 .. n - 1, k \in P PROVE k + 1 \in P
  <2>1. PICK f \in [0 .. k -> T] :
             f[0] = c /\ \A i \in 1 .. k : f[i] = step[i][f[i - 1]]
    BY <1>2
  <2> DEFINE g == [i \in 0 .. k + 1 |-> IF i = k + 1 THEN step[k + 1][f[k]] ELSE f[i]]
  <2>2. g \in [0 .. k + 1 -> T] /\ g[0] = c
    BY <2>1
  <2>3. ASSUME NEW i \in 1 .. k + 1
        PROVE  g[i] = step[i][g[i - 1]]
    <3>1. CASE i = k + 1
      BY <3>1
    <3>2. CASE i # k + 1
      BY <2>1, <3>2
    <3> QED BY <3>1, <3>2
  <2>4. Good(k + 1)
    <3> HIDE DEF g
    <3> QED BY <2>2, <2>3
  <2>5. k + 1 \in Nat
    OBVIOUS
  <2> HIDE DEF Good
  <2> QED BY <2>4, <2>5
<1>3. \A i \in 0 .. n : i \in P
  <2> HIDE DEF P
  <2> QED BY <1>1, <1>2, UpTo
<1> QED BY <1>3 DEF Runs

-----------------------------------------------------------------------------
(* Members of a set, in the order of a sequence. *)

\* The sequences that come up when Only goes through s from left to right.
Steps(T, s, S) ==
  {kept \in [0 .. Len(s) -> Seq(T)] :
    /\ kept[0] = <<>>
    /\ \A i \in 1 .. Len(s) :
         kept[i] = IF s[i] \in S THEN Append(kept[i - 1], s[i]) ELSE kept[i - 1]}

\* The last of them is what Only gives.
LEMMA OnlySteps ==
  ASSUME NEW T, NEW s \in Seq(T), NEW S
  PROVE  \E kept \in Steps(T, s, S) : Only(s, S) = kept[Len(s)]
<1> DEFINE n == Len(s)
<1> DEFINE Rec(g) ==
      [i \in 0 .. n |-> IF i = 0 THEN <<>>
                        ELSE IF s[i] \in S THEN Append(g[i - 1], s[i]) ELSE g[i - 1]]
<1> DEFINE step ==
      [i \in Nat |-> [q \in Seq(T) |-> IF i \in 1 .. n /\ s[i] \in S THEN Append(q, s[i]) ELSE q]]
<1>1. n \in Nat /\ <<>> \in Seq(T) /\ \A i \in 1 .. n : s[i] \in T
  BY LenProperties, EmptySeq
<1>2. step \in [Nat -> [Seq(T) -> Seq(T)]]
  BY <1>1
<1>3. PICK f \in [0 .. n -> Seq(T)] :
         f[0] = <<>> /\ \A i \in 1 .. n : f[i] = step[i][f[i - 1]]
  <2>1. Runs(Seq(T), <<>>, n, step) # {}
    <3> HIDE DEF step, n
    <3> QED BY <1>1, <1>2, Iterates
  <2> HIDE DEF step, n
  <2> QED BY <2>1 DEF Runs
<1>5. ASSUME NEW i \in 1 .. n
      PROVE  f[i] = IF s[i] \in S THEN Append(f[i - 1], s[i]) ELSE f[i - 1]
  <2>1. i \in 0 .. n /\ i # 0 /\ i \in Nat /\ f[i - 1] \in Seq(T)
    BY <1>1
  <2>2. step[i][f[i - 1]] = IF s[i] \in S THEN Append(f[i - 1], s[i]) ELSE f[i - 1]
    BY <2>1
  <2> HIDE DEF step
  <2> QED BY <1>3, <2>1, <2>2
<1>6. f = Rec(f)
  <2>2. ASSUME NEW i \in 0 .. n
        PROVE  f[i] = IF i = 0 THEN <<>>
                      ELSE IF s[i] \in S THEN Append(f[i - 1], s[i]) ELSE f[i - 1]
    <3>1. i # 0 => i \in 1 .. n
      BY <1>1
    <3> HIDE DEF step, n
    <3> QED BY <1>3, <1>5, <3>1, Zenon
  <2>3. f = [i \in 0 .. n |-> f[i]]
    OBVIOUS
  <2> HIDE DEF step, n
  <2> QED BY <2>2, <2>3, Zenon
<1> DEFINE kept == CHOOSE g : g = Rec(g)
<1>7. kept = Rec(kept)
  <2> HIDE DEF Rec
  <2> QED BY <1>6
<1>8. Only(s, S) = kept[n]
  BY DEF Only
<1>9. /\ kept[0] = <<>>
      /\ \A i \in 1 .. n :
           kept[i] = IF s[i] \in S THEN Append(kept[i - 1], s[i]) ELSE kept[i - 1]
  <2>1. \A i \in 0 .. n : kept[i] = Rec(kept)[i]
    <3> HIDE DEF kept, Rec
    <3> QED BY <1>7
  <2>2. 0 \in 0 .. n /\ \A i \in 1 .. n : i \in 0 .. n /\ i # 0
    BY <1>1
  <2>3. \A i \in 0 .. n : Rec(kept)[i] =
          IF i = 0 THEN <<>>
          ELSE IF s[i] \in S THEN Append(kept[i - 1], s[i]) ELSE kept[i - 1]
    <3> HIDE DEF kept, n
    <3> QED OBVIOUS
  <2> HIDE DEF kept, Rec, n
  <2> QED BY <2>1, <2>2, <2>3
<1>10. \A i \in 0 .. n : i \in {k \in 0 .. n : kept[k] \in Seq(T)}
  <2> HIDE DEF kept, n
  <2>1. 0 \in {k \in 0 .. n : kept[k] \in Seq(T)}
    <3>1. 0 \in 0 .. n
      BY <1>1
    <3>2. kept[0] \in Seq(T)
      BY <1>1, <1>9, Zenon
    <3> QED BY <3>1, <3>2
  <2>2. ASSUME NEW i \in 0 .. n - 1, kept[i] \in Seq(T)
        PROVE  kept[i + 1] \in Seq(T)
    <3>1. i + 1 \in 1 .. n /\ (i + 1) - 1 = i
      BY <1>1
    <3>2. kept[i + 1] = IF s[i + 1] \in S THEN Append(kept[i], s[i + 1]) ELSE kept[i]
      BY <1>9, <3>1
    <3> QED BY <1>1, <2>2, <3>1, <3>2
  <2>3. \A i \in 0 .. n - 1 : i + 1 \in 0 .. n
    BY <1>1
  <2> QED BY <1>1, <2>1, <2>2, <2>3, UpTo
<1>11. kept \in [0 .. n -> Seq(T)]
  <2> HIDE DEF Rec, kept, n
  <2>1. kept = [i \in 0 .. n |-> kept[i]]
    <3> USE DEF Rec
    <3> QED BY <1>7
  <2> QED BY <1>10, <2>1
<1> HIDE DEF kept
<1>12. kept \in Steps(T, s, S)
  BY <1>9, <1>11 DEF Steps
<1> HIDE DEF n
<1> QED BY <1>8, <1>12 DEF n

\* Two runs of Only agree as long as their sequences and sets do.
LEMMA OnlyAgrees ==
  ASSUME NEW T, NEW s \in Seq(T), NEW t \in Seq(T), NEW S, NEW R,
         NEW n \in Nat, n <= Len(s), n <= Len(t),
         \A i \in 1 .. n : s[i] = t[i] /\ (s[i] \in S <=> t[i] \in R),
         NEW a \in Steps(T, s, S), NEW b \in Steps(T, t, R)
  PROVE  a[n] = b[n]
<1>1. /\ a[0] = <<>> /\ b[0] = <<>> /\ Len(s) \in Nat /\ Len(t) \in Nat
      /\ \A i \in 1 .. Len(s) : a[i] = IF s[i] \in S THEN Append(a[i - 1], s[i]) ELSE a[i - 1]
      /\ \A i \in 1 .. Len(t) : b[i] = IF t[i] \in R THEN Append(b[i - 1], t[i]) ELSE b[i - 1]
  BY LenProperties DEF Steps
<1> DEFINE P == {i \in Nat : a[i] = b[i]}
<1>2. 0 \in P
  BY <1>1
<1>3. ASSUME NEW i \in 0 .. n - 1, i \in P PROVE i + 1 \in P
  <2>1. i + 1 \in 1 .. n /\ i + 1 \in 1 .. Len(s) /\ i + 1 \in 1 .. Len(t) /\ (i + 1) - 1 = i
    BY <1>1
  <2>2. /\ a[i + 1] = IF s[i + 1] \in S THEN Append(a[i], s[i + 1]) ELSE a[i]
        /\ b[i + 1] = IF t[i + 1] \in R THEN Append(b[i], t[i + 1]) ELSE b[i]
    BY <1>1, <2>1
  <2> QED BY <1>3, <2>1, <2>2
<1>4. \A i \in 0 .. n : i \in P
  <2> HIDE DEF P
  <2> QED BY <1>2, <1>3, UpTo
<1> QED BY <1>4

\* So its result depends on no other members of the set,
LEMMA OnlySame ==
  ASSUME NEW T, NEW s \in Seq(T), NEW S, NEW R, \A x \in T : x \in S <=> x \in R
  PROVE  Only(s, S) = Only(s, R)
<1>1. PICK a \in Steps(T, s, S) : Only(s, S) = a[Len(s)]
  BY OnlySteps
<1>2. PICK b \in Steps(T, s, R) : Only(s, R) = b[Len(s)]
  BY OnlySteps
<1>3. Len(s) \in Nat /\ \A i \in 1 .. Len(s) : s[i] \in T
  BY LenProperties
<1>4. a[Len(s)] = b[Len(s)]
  BY <1>3, OnlyAgrees
<1> QED BY <1>1, <1>2, <1>4

\* and it grows with the sequence.
LEMMA OnlyNone ==
  ASSUME NEW S PROVE Only(<<>>, S) = <<>>
<1> DEFINE e == <<>>
<1>1. e \in Seq({}) /\ Len(e) = 0
  OBVIOUS
<1> HIDE DEF e
<1>2. PICK a \in Steps({}, e, S) : Only(e, S) = a[Len(e)]
  BY <1>1, OnlySteps
<1> QED BY <1>1, <1>2 DEF Steps, e

LEMMA OnlyOn ==
  ASSUME NEW T, NEW s \in Seq(T), NEW S, NEW x \in T
  PROVE  Only(Append(s, x), S) = IF x \in S THEN Append(Only(s, S), x) ELSE Only(s, S)
<1> DEFINE more == Append(s, x)
           n == Len(s)
<1>2. /\ more \in Seq(T) /\ n \in Nat /\ Len(more) = n + 1 /\ more[n + 1] = x
      /\ \A i \in 1 .. n : more[i] = s[i]
  BY AppendProperties, LenProperties
<1> HIDE DEF more
<1>3. PICK a \in Steps(T, s, S) : Only(s, S) = a[n]
  BY OnlySteps
<1>4. PICK b \in Steps(T, more, S) : Only(more, S) = b[n + 1]
  BY <1>2, OnlySteps
<1> HIDE DEF n
<1>5. a[n] = b[n]
  <2>1. n <= Len(s) /\ n <= Len(more) /\ \A i \in 1 .. n : s[i] = more[i]
    BY <1>2 DEF n
  <2> QED BY <1>2, <2>1, OnlyAgrees
<1>6. b[n + 1] = IF more[n + 1] \in S THEN Append(b[n], more[n + 1]) ELSE b[n]
  <2>1. n + 1 \in 1 .. Len(more) /\ (n + 1) - 1 = n
    BY <1>2
  <2> QED BY <2>1 DEF Steps
<1> QED BY <1>2, <1>3, <1>4, <1>5, <1>6 DEF more

\* Its members are members of the sequence and of the set.
LEMMA OnlyTyped ==
  ASSUME NEW T, NEW s \in Seq(T), NEW S
  PROVE  Only(s, S) \in Seq(T \cap S)
<1>0. PICK kept \in Steps(T, s, S) : Only(s, S) = kept[Len(s)]
  BY OnlySteps
<1>1. /\ kept \in [0 .. Len(s) -> Seq(T)] /\ kept[0] = <<>>
      /\ \A i \in 1 .. Len(s) :
           kept[i] = IF s[i] \in S THEN Append(kept[i - 1], s[i]) ELSE kept[i - 1]
      /\ Len(s) \in Nat
  BY LenProperties DEF Steps
<1> DEFINE P == {i \in Nat : kept[i] \in Seq(T \cap S)}
<1>2. 0 \in P
  BY <1>1
<1>3. ASSUME NEW i \in 0 .. Len(s) - 1, i \in P PROVE i + 1 \in P
  <2>1. i + 1 \in 1 .. Len(s) /\ i + 1 \in Nat /\ (i + 1) - 1 = i /\ s[i + 1] \in T
    BY LenProperties
  <2>2. kept[i + 1] = IF s[i + 1] \in S THEN Append(kept[i], s[i + 1]) ELSE kept[i]
    BY <1>1, <2>1
  <2>3. kept[i] \in Seq(T \cap S)
    BY <1>3
  <2>4. s[i + 1] \in S => Append(kept[i], s[i + 1]) \in Seq(T \cap S)
    BY <2>1, <2>3, AppendProperties
  <2> QED BY <2>1, <2>2, <2>3, <2>4
<1>4. \A i \in 0 .. Len(s) : i \in P
  <2> HIDE DEF P
  <2> QED BY <1>1, <1>2, <1>3, UpTo
<1> QED BY <1>0, <1>1, <1>4

\* All of them, when all are members of the set.
LEMMA OnlyAll ==
  ASSUME NEW T, NEW s \in Seq(T), NEW S, \A i \in 2 .. Len(s) : s[i] \in S,
         s # <<>>, s[1] \notin S
  PROVE  Only(s, S) = Tail(s)
<1>0. PICK kept \in Steps(T, s, S) : Only(s, S) = kept[Len(s)]
  BY OnlySteps
<1>1. /\ kept \in [0 .. Len(s) -> Seq(T)] /\ kept[0] = <<>>
      /\ \A i \in 1 .. Len(s) :
           kept[i] = IF s[i] \in S THEN Append(kept[i - 1], s[i]) ELSE kept[i - 1]
      /\ Len(s) \in Nat
  BY LenProperties DEF Steps
<1> DEFINE n == Len(s) - 1
<1> DEFINE P == {i \in Nat : Len(kept[i + 1]) = i /\ \A k \in 1 .. i : kept[i + 1][k] = s[k + 1]}
<1>2. n \in Nat
  BY <1>1, EmptySeq
<1>3. 0 \in P
  BY <1>1, <1>2
<1>4. ASSUME NEW i \in 0 .. n - 1, i \in P PROVE i + 1 \in P
  <2>1. /\ i + 1 \in 0 .. Len(s) /\ i + 2 \in 2 .. Len(s) /\ i + 1 \in Nat
        /\ (i + 2) - 1 = i + 1 /\ s[i + 2] \in T
    BY <1>2, LenProperties
  <2>2. kept[i + 2] = Append(kept[i + 1], s[i + 2])
    <3>1. s[i + 2] \in S /\ i + 2 \in 1 .. Len(s)
      BY <2>1
    <3>2. kept[i + 2] = Append(kept[(i + 2) - 1], s[i + 2])
      BY <1>1, <3>1, Zenon
    <3> QED BY <2>1, <3>2
  <2>3. kept[i + 1] \in Seq(T) /\ Len(kept[i + 1]) = i /\ \A k \in 1 .. i : kept[i + 1][k] = s[k + 1]
    BY <1>1, <1>4, <2>1
  <2>4. Len(kept[i + 2]) = i + 1
    BY <2>1, <2>2, <2>3, AppendProperties
  <2>5. ASSUME NEW k \in 1 .. i + 1 PROVE kept[i + 2][k] = s[k + 1]
    BY <2>1, <2>2, <2>3, AppendProperties
  <2> QED BY <2>1, <2>4, <2>5
<1>5. \A i \in 0 .. n : i \in P
  <2> HIDE DEF P, n
  <2> QED BY <1>2, <1>3, <1>4, UpTo
<1>6. kept[Len(s)] \in Seq(T) /\ Len(kept[Len(s)]) = n /\ \A k \in 1 .. n : kept[Len(s)][k] = s[k + 1]
  <2>1. n \in P /\ n + 1 = Len(s) /\ Len(s) \in 0 .. Len(s)
    BY <1>1, <1>2, <1>5
  <2> QED BY <1>1, <2>1
<1>7. Tail(s) \in Seq(T) /\ Len(Tail(s)) = n /\ \A k \in 1 .. n : Tail(s)[k] = s[k + 1]
  BY <1>1, HeadTailProperties
<1> HIDE DEF n
<1> QED BY <1>0, <1>6, <1>7, SeqEqual

\* All but the last of a sequence.
LEMMA FrontOf ==
  ASSUME NEW T, NEW s \in Seq(T), s # <<>>
  PROVE  /\ Len(s) \in Nat \ {0}
         /\ Front(s) \in Seq(T) /\ Len(Front(s)) = Len(s) - 1
         /\ \A i \in 1 .. Len(s) - 1 : Front(s)[i] = s[i]
         /\ Last(s) = s[Len(s)]
<1> DEFINE n == Len(s) - 1
<1>1. n \in Nat /\ 1 \in Int /\ \A i \in 1 .. n : s[i] \in T
  BY LenProperties, EmptySeq
<1>2. Front(s) = SubSeq(s, 1, n)
  BY DEF Front
<1> HIDE DEF n
<1>3. /\ SubSeq(s, 1, n) \in Seq(T)
      /\ Len(SubSeq(s, 1, n)) = IF 1 <= n THEN n - 1 + 1 ELSE 0
      /\ \A i \in 1 .. n - 1 + 1 : SubSeq(s, 1, n)[i] = s[1 + i - 1]
  <2>1. n \in Int
    BY <1>1
  <2> QED BY <1>1, <2>1, SubSeqProperties
<1>4. Len(Front(s)) = n /\ \A i \in 1 .. n : Front(s)[i] = s[i]
  BY <1>1, <1>2, <1>3
<1> QED BY <1>1, <1>2, <1>3, <1>4, LenProperties DEF n, Last

\* The members of S up to n, in ascending order.
Ascending(n, S) ==
  {s \in Seq(Nat) :
    /\ \A i, j \in 1 .. Len(s) : i < j => s[i] < s[j]
    /\ \A i \in 1 .. Len(s) : s[i] \in S /\ s[i] \in 1 .. n
    /\ \A x \in 1 .. n : x \in S => \E i \in 1 .. Len(s) : s[i] = x}

\* With n + 1, if that is a member, they are those up to n + 1.
LEMMA AscendingOn ==
  ASSUME NEW n \in Nat, NEW S, NEW s \in Ascending(n, S)
  PROVE  (IF n + 1 \in S THEN Append(s, n + 1) ELSE s) \in Ascending(n + 1, S)
<1>1. /\ s \in Seq(Nat) /\ Len(s) \in Nat
      /\ \A i, j \in 1 .. Len(s) : i < j => s[i] < s[j]
      /\ \A i \in 1 .. Len(s) : s[i] \in S /\ s[i] \in 1 .. n
      /\ \A x \in 1 .. n : x \in S => \E i \in 1 .. Len(s) : s[i] = x
  BY LenProperties DEF Ascending
<1>2. CASE n + 1 \in S
  <2> DEFINE more == Append(s, n + 1)
  <2>1. /\ more \in Seq(Nat) /\ Len(more) = Len(s) + 1 /\ more[Len(s) + 1] = n + 1
        /\ \A i \in 1 .. Len(s) : more[i] = s[i]
    BY <1>1, AppendProperties
  <2> HIDE DEF more
  <2>2. \A i \in 1 .. Len(more) : i \in 1 .. Len(s) \/ i = Len(s) + 1
    BY <1>1, <2>1
  <2>3. ASSUME NEW i \in 1 .. Len(more) PROVE more[i] \in S /\ more[i] \in 1 .. n + 1
    <3>1. CASE i \in 1 .. Len(s)
      <4>1. s[i] \in S /\ s[i] \in 1 .. n /\ more[i] = s[i]
        BY <1>1, <2>1, <3>1
      <4> QED BY <4>1
    <3>2. CASE i = Len(s) + 1
      BY <1>2, <2>1, <3>2
    <3> QED BY <2>2, <3>1, <3>2
  <2>4. \A i, j \in 1 .. Len(more) : i < j => more[i] < more[j]
    <3> SUFFICES ASSUME NEW i \in 1 .. Len(more), NEW j \in 1 .. Len(more), i < j
                 PROVE  more[i] < more[j]
      OBVIOUS
    <3>1. i \in 1 .. Len(s)
      BY <1>1, <2>1
    <3>2. more[i] = s[i] /\ s[i] \in 1 .. n
      BY <1>1, <2>1, <3>1
    <3>3. CASE j = Len(s) + 1
      BY <2>1, <3>2, <3>3
    <3>4. CASE j \in 1 .. Len(s)
      BY <1>1, <2>1, <3>1, <3>4
    <3> QED BY <2>2, <3>3, <3>4
  <2>5. ASSUME NEW x \in 1 .. n + 1, x \in S PROVE \E i \in 1 .. Len(more) : more[i] = x
    <3>1. CASE x = n + 1
      <4>1. Len(s) + 1 \in 1 .. Len(more)
        BY <1>1, <2>1
      <4> QED BY <2>1, <3>1, <4>1
    <3>2. CASE x # n + 1
      <4>1. x \in 1 .. n
        BY <3>2
      <4>2. PICK i \in 1 .. Len(s) : s[i] = x
        BY <1>1, <2>5, <4>1
      <4>3. i \in 1 .. Len(more)
        BY <1>1, <2>1
      <4> QED BY <2>1, <4>2, <4>3
    <3> QED BY <3>1, <3>2
  <2>6. more \in Ascending(n + 1, S)
    BY <2>1, <2>3, <2>4, <2>5 DEF Ascending
  <2> QED BY <1>2, <2>6 DEF more
<1>3. CASE n + 1 \notin S
  <2>1. \A x \in 1 .. n + 1 : x \in S => x \in 1 .. n
    BY <1>3
  <2>2. \A i \in 1 .. Len(s) : s[i] \in S /\ s[i] \in 1 .. n + 1
    BY <1>1
  <2>3. s \in Ascending(n + 1, S)
    BY <1>1, <2>1, <2>2 DEF Ascending
  <2> QED BY <1>3, <2>3
<1> QED BY <1>2, <1>3

\* Only gives them, from the numbers up to n.
LEMMA OnlyAscends ==
  ASSUME NEW n \in Nat, NEW S
  PROVE  Only([i \in 1 .. n |-> i], S) \in Ascending(n, S)
<1> DEFINE places == [i \in 1 .. n |-> i]
<1>1. places \in Seq(Nat) /\ Len(places) = n /\ \A i \in 1 .. n : places[i] = i
  OBVIOUS
<1> HIDE DEF places
<1>2. PICK kept \in Steps(Nat, places, S) : Only(places, S) = kept[n]
  BY <1>1, OnlySteps
<1>3. /\ kept[0] = <<>>
      /\ \A i \in 1 .. n :
           kept[i] = IF i \in S THEN Append(kept[i - 1], i) ELSE kept[i - 1]
  BY <1>1 DEF Steps
<1> DEFINE P == {i \in Nat : kept[i] \in Ascending(i, S)}
<1>4. 0 \in P
  <2>1. <<>> \in Ascending(0, S)
    <3>1. <<>> \in Seq(Nat) /\ Len(<<>>) = 0 /\ \A i \in 1 .. 0 : FALSE
      OBVIOUS
    <3> QED BY <3>1 DEF Ascending
  <2> QED BY <1>3, <2>1
<1>5. ASSUME NEW i \in 0 .. n - 1, i \in P PROVE i + 1 \in P
  <2>1. i + 1 \in 1 .. n /\ i + 1 \in Nat /\ i \in Nat /\ (i + 1) - 1 = i
    OBVIOUS
  <2>2. kept[i + 1] = IF i + 1 \in S THEN Append(kept[i], i + 1) ELSE kept[i]
    BY <1>3, <2>1
  <2>3. kept[i] \in Ascending(i, S)
    BY <1>5
  <2>4. kept[i + 1] \in Ascending(i + 1, S)
    BY <2>1, <2>2, <2>3, AscendingOn
  <2> QED BY <2>1, <2>4
<1>6. \A i \in 0 .. n : i \in P
  <2> HIDE DEF P
  <2> QED BY <1>4, <1>5, UpTo
<1> QED BY <1>2, <1>6 DEF places

\* There is only one such sequence.
LEMMA AscendingAgree ==
  ASSUME NEW n \in Nat, NEW S, NEW s \in Ascending(n, S), NEW t \in Ascending(n, S)
  PROVE  s = t
<1>1. ASSUME NEW a \in Ascending(n, S), NEW b \in Ascending(n, S)
      PROVE  /\ a \in Seq(Nat) /\ Len(a) \in Nat /\ Len(b) \in Nat
             /\ \A i \in 1 .. Len(a) : a[i] \in Nat /\ \E k \in 1 .. Len(b) : b[k] = a[i]
             /\ \A i, j \in 1 .. Len(a) : i < j => a[i] < a[j]
  <2>1. /\ a \in Seq(Nat) /\ b \in Seq(Nat)
        /\ \A i, j \in 1 .. Len(a) : i < j => a[i] < a[j]
        /\ \A i \in 1 .. Len(a) : a[i] \in S /\ a[i] \in 1 .. n
        /\ \A x \in 1 .. n : x \in S => \E k \in 1 .. Len(b) : b[k] = x
    BY DEF Ascending
  <2>2. Len(a) \in Nat /\ Len(b) \in Nat
    BY <2>1, LenProperties
  <2> QED BY <2>1, <2>2
<1> DEFINE P == {k \in Nat : \A i \in 1 .. k : /\ i <= Len(s) <=> i <= Len(t)
                                               /\ i <= Len(s) => s[i] = t[i]}
<1>2. 0 \in P
  OBVIOUS
<1>3. ASSUME NEW a \in Ascending(n, S), NEW b \in Ascending(n, S), NEW k \in Nat,
             \A i \in 1 .. k : i <= Len(a) => i <= Len(b) /\ a[i] = b[i],
             \A i \in 1 .. k : i <= Len(b) => i <= Len(a), k + 1 <= Len(a)
      PROVE  k + 1 <= Len(b) /\ b[k + 1] <= a[k + 1]
  <2>1. k + 1 \in 1 .. Len(a)
    BY <1>1, <1>3
  <2>2. PICK m \in 1 .. Len(b) : b[m] = a[k + 1]
    BY <1>1, <2>1
  <2>3. ~(m <= k)
    <3> SUFFICES ASSUME m <= k PROVE FALSE
      OBVIOUS
    <3>1. m \in 1 .. k /\ m <= Len(b) /\ m \in 1 .. Len(a)
      BY <1>1, <1>3
    <3>2. a[m] = b[m] /\ a[m] < a[k + 1]
      BY <1>1, <1>3, <2>1, <3>1
    <3>3. a[k + 1] \in Nat
      BY <1>1, <2>1
    <3> QED BY <2>2, <3>2, <3>3
  <2>4. k + 1 \in 1 .. Len(b)
    BY <1>1, <2>3
  <2>5. k + 1 = m \/ b[k + 1] < b[m]
    BY <1>1, <2>3, <2>4
  <2>6. b[k + 1] \in Nat /\ a[k + 1] \in Nat
    BY <1>1, <2>1, <2>4
  <2>7. b[k + 1] <= a[k + 1]
    BY <2>2, <2>5, <2>6
  <2> QED BY <1>1, <2>4, <2>7
<1>4. ASSUME NEW k \in Nat, k \in P PROVE k + 1 \in P
  <2>1. k + 1 <= Len(s) => k + 1 <= Len(t) /\ t[k + 1] <= s[k + 1]
    BY <1>3, <1>4
  <2>2. k + 1 <= Len(t) => k + 1 <= Len(s) /\ s[k + 1] <= t[k + 1]
    BY <1>1, <1>3, <1>4
  <2>3. k + 1 <= Len(s) => s[k + 1] = t[k + 1]
    <3> SUFFICES ASSUME k + 1 <= Len(s) PROVE s[k + 1] = t[k + 1]
      OBVIOUS
    <3>1. k + 1 \in 1 .. Len(s) /\ k + 1 \in 1 .. Len(t)
      BY <1>1, <2>1
    <3>2. s[k + 1] \in Nat /\ t[k + 1] \in Nat
      BY <1>1, <3>1
    <3> QED BY <2>1, <2>2, <3>2
  <2>4. \A i \in 1 .. k + 1 : i \in 1 .. k \/ i = k + 1
    OBVIOUS
  <2> QED BY <1>4, <2>1, <2>2, <2>3, <2>4
<1>5. \A k \in Nat : k \in P
  <2>1. ASSUME NEW k \in Nat PROVE k \in P
    <3>1. \A i \in 0 .. k : i \in P
      <4>1. \A i \in 0 .. k - 1 : i \in P => i + 1 \in P
        BY <1>4
      <4> HIDE DEF P
      <4> QED BY <1>2, <4>1, UpTo
    <3> QED BY <3>1
  <2> QED BY <2>1
<1>6. Len(s) \in Nat /\ Len(t) \in Nat /\ s \in Seq(Nat) /\ t \in Seq(Nat)
  BY <1>1
<1>7. \A i \in Nat \ {0} : (i <= Len(s) <=> i <= Len(t)) /\ (i <= Len(s) => s[i] = t[i])
  <2>1. ASSUME NEW i \in Nat \ {0}
        PROVE  (i <= Len(s) <=> i <= Len(t)) /\ (i <= Len(s) => s[i] = t[i])
    BY <1>5
  <2> QED BY <2>1
<1>8. Len(s) = Len(t)
  BY <1>6, <1>7
<1> QED BY <1>6, <1>7, <1>8, SeqEqual

\* The first k of a sequence.
LEMMA FirstOnes ==
  ASSUME NEW T, NEW s \in Seq(T), NEW k \in 0 .. Len(s)
  PROVE  /\ SubSeq(s, 1, k) \in Seq(T)
         /\ SubSeq(s, 1, 0) = <<>>
         /\ k > 0 => s[k] \in T /\ SubSeq(s, 1, k) = Append(SubSeq(s, 1, k - 1), s[k])
         /\ SubSeq(s, 1, Len(s)) = s
<1>1. Len(s) \in Nat /\ \A i \in 1 .. Len(s) : s[i] \in T
  BY LenProperties
<1>2. ASSUME NEW m \in 0 .. Len(s)
      PROVE  /\ SubSeq(s, 1, m) \in Seq(T) /\ Len(SubSeq(s, 1, m)) = m
             /\ \A i \in 1 .. m : SubSeq(s, 1, m)[i] = s[i]
  <2>1. m \in Int /\ 1 \in Int /\ \A i \in 1 .. m : s[i] \in T
    BY <1>1
  <2>2. /\ SubSeq(s, 1, m) \in Seq(T)
        /\ Len(SubSeq(s, 1, m)) = IF 1 <= m THEN m - 1 + 1 ELSE 0
        /\ \A i \in 1 .. m - 1 + 1 : SubSeq(s, 1, m)[i] = s[1 + i - 1]
    BY <2>1, SubSeqProperties
  <2> QED BY <1>1, <2>2
<1>3. SubSeq(s, 1, 0) = <<>>
  BY SubSeqEmpty
<1>4. SubSeq(s, 1, Len(s)) = s
  BY <1>1, <1>2, SeqEqual
<1>5. ASSUME k > 0 PROVE s[k] \in T /\ SubSeq(s, 1, k) = Append(SubSeq(s, 1, k - 1), s[k])
  <2> DEFINE less == SubSeq(s, 1, k - 1)
             all == SubSeq(s, 1, k)
  <2>1. k - 1 \in 0 .. Len(s) /\ k \in 1 .. Len(s)
    BY <1>1, <1>5
  <2>2. /\ less \in Seq(T) /\ Len(less) = k - 1 /\ \A i \in 1 .. k - 1 : less[i] = s[i]
        /\ all \in Seq(T) /\ Len(all) = k /\ \A i \in 1 .. k : all[i] = s[i]
    BY <1>2, <2>1
  <2> HIDE DEF less, all
  <2>3. /\ Append(less, s[k]) \in Seq(T) /\ Len(Append(less, s[k])) = k
        /\ Append(less, s[k])[k] = s[k]
        /\ \A i \in 1 .. k - 1 : Append(less, s[k])[i] = less[i]
    BY <1>1, <2>1, <2>2, AppendProperties
  <2>4. ASSUME NEW i \in 1 .. k PROVE all[i] = Append(less, s[k])[i]
    <3>1. CASE i = k
      BY <2>2, <2>3, <3>1
    <3>2. CASE i # k
      <4>1. i \in 1 .. k - 1
        BY <3>2
      <4> QED BY <2>2, <2>3, <4>1
    <3> QED BY <3>1, <3>2
  <2>5. all = Append(less, s[k])
    BY <2>2, <2>3, <2>4, SeqEqual
  <2> QED BY <1>1, <2>1, <2>5 DEF less, all
<1> QED BY <1>2, <1>3, <1>4, <1>5

LEMMA BeginsWith ==
  ASSUME NEW T, NEW s \in Seq(T), NEW t \in Seq(T), Len(s) <= Len(t),
         \A i \in 1 .. Len(s) : t[i] = s[i]
  PROVE  SubSeq(t, 1, Len(s)) = s
<1>1. Len(s) \in Nat /\ Len(t) \in Nat /\ \A i \in 1 .. Len(t) : t[i] \in T
  BY LenProperties
<1> DEFINE front == SubSeq(t, 1, Len(s))
<1>2. 1 \in Int /\ Len(s) \in Int /\ \A i \in 1 .. Len(s) : t[i] \in T
  BY <1>1
<1>3. /\ front \in Seq(T)
      /\ Len(front) = IF 1 <= Len(s) THEN Len(s) - 1 + 1 ELSE 0
      /\ \A i \in 1 .. Len(s) - 1 + 1 : front[i] = t[1 + i - 1]
  BY <1>2, SubSeqProperties
<1> HIDE DEF front
<1>4. Len(front) = Len(s) /\ \A i \in 1 .. Len(s) : front[i] = s[i]
  BY <1>1, <1>3
<1> QED BY <1>3, <1>4, SeqEqual DEF front

\* What Only gives for them.
LEMMA OnlyFirst ==
  ASSUME NEW T, NEW s \in Seq(T), NEW S, NEW n \in 0 .. Len(s)
  PROVE  /\ Only(SubSeq(s, 1, 0), S) = <<>>
         /\ Only(SubSeq(s, 1, n), S) \in Seq(T \cap S)
         /\ Only(SubSeq(s, 1, Len(s)), S) = Only(s, S)
<1> DEFINE all == SubSeq(s, 1, n)
<1>1. /\ all \in Seq(T)
      /\ SubSeq(s, 1, 0) = <<>>
      /\ SubSeq(s, 1, Len(s)) = s
  BY FirstOnes
<1> HIDE DEF all
<1>2. Only(all, S) \in Seq(T \cap S)
  BY <1>1, OnlyTyped
<1>3. Only(SubSeq(s, 1, 0), S) = <<>>
  BY <1>1, OnlyNone
<1> QED BY <1>1, <1>2, <1>3 DEF all

LEMMA OnlyNext ==
  ASSUME NEW T, NEW s \in Seq(T), NEW S, NEW n \in 1 .. Len(s)
  PROVE  /\ s[n] \in S
              => Only(SubSeq(s, 1, n), S) = Append(Only(SubSeq(s, 1, n - 1), S), s[n])
         /\ s[n] \notin S
              => Only(SubSeq(s, 1, n), S) = Only(SubSeq(s, 1, n - 1), S)
<1> DEFINE less == SubSeq(s, 1, n - 1)
           all == SubSeq(s, 1, n)
           x == s[n]
<1>1. n \in 0 .. Len(s) /\ n - 1 \in 0 .. Len(s) /\ n > 0
  BY LenProperties
<1>2. less \in Seq(T) /\ x \in T /\ all = Append(less, x)
  BY <1>1, FirstOnes
<1> HIDE DEF less, all, x
<1>3. Only(all, S) = IF x \in S THEN Append(Only(less, S), x) ELSE Only(less, S)
  BY <1>2, OnlyOn
<1> QED BY <1>3 DEF less, all, x

\* It stays as it is when more follow.
LEMMA OnlyGrows ==
  ASSUME NEW T, NEW s \in Seq(T), NEW S, NEW m \in 0 .. Len(s), NEW n \in 0 .. m
  PROVE  LET a == Only(SubSeq(s, 1, n), S)
             b == Only(SubSeq(s, 1, m), S)
         IN Len(a) <= Len(b) /\ \A i \in 1 .. Len(a) : b[i] = a[i]
<1> DEFINE of(i) == Only(SubSeq(s, 1, i), S)
           a == of(n)
           P == {i \in Nat : Len(a) <= Len(of(n + i)) /\ \A j \in 1 .. Len(a) : of(n + i)[j] = a[j]}
<1>1. Len(s) \in Nat /\ m - n \in Nat /\ n + (m - n) = m
  BY LenProperties
<1>2. \A i \in 0 .. Len(s) : of(i) \in Seq(T \cap S) /\ Len(of(i)) \in Nat
  BY OnlyFirst, LenProperties
<1>3. \A i \in 1 .. Len(s) : of(i) = IF s[i] \in S THEN Append(of(i - 1), s[i]) ELSE of(i - 1)
  <2> SUFFICES ASSUME NEW i \in 1 .. Len(s)
               PROVE  of(i) = IF s[i] \in S THEN Append(of(i - 1), s[i]) ELSE of(i - 1)
    OBVIOUS
  <2>1. /\ s[i] \in S => of(i) = Append(of(i - 1), s[i])
        /\ s[i] \notin S => of(i) = of(i - 1)
    BY OnlyNext
  <2> QED BY <2>1
<1> HIDE DEF of
<1>4. 0 \in P
  BY <1>1, <1>2
<1>5. ASSUME NEW i \in 0 .. (m - n) - 1, i \in P PROVE i + 1 \in P
  <2> DEFINE old == of(n + i)
             new == of(n + i + 1)
             x == s[n + i + 1]
  <2>1. n + i \in 0 .. Len(s) /\ n + i + 1 \in 1 .. Len(s) /\ (n + i + 1) - 1 = n + i
        /\ n + (i + 1) = n + i + 1
    BY <1>1
  <2>2. new = IF x \in S THEN Append(old, x) ELSE old
    BY <1>3, <2>1
  <2>3. old \in Seq(T \cap S) /\ Len(old) \in Nat /\ x \in T
    BY <1>2, <2>1, LenProperties
  <2>4. Len(a) <= Len(old) /\ (\A j \in 1 .. Len(a) : old[j] = a[j]) /\ Len(a) \in Nat
    BY <1>1, <1>2, <1>5
  <2> HIDE DEF old, new, x, a
  <2>5. Len(old) <= Len(new) /\ Len(new) \in Nat /\ \A j \in 1 .. Len(old) : new[j] = old[j]
    <3>1. CASE x \in S
      <4>1. x \in T \cap S /\ new = Append(old, x)
        BY <2>2, <2>3, <3>1
      <4>2. Len(new) = Len(old) + 1 /\ \A j \in 1 .. Len(old) : new[j] = old[j]
        BY <2>3, <4>1, AppendProperties
      <4> QED BY <2>3, <4>2
    <3>2. CASE x \notin S
      BY <2>2, <2>3, <3>2
    <3> QED BY <3>1, <3>2
  <2>6. Len(a) <= Len(new) /\ \A j \in 1 .. Len(a) : new[j] = a[j]
    BY <2>3, <2>4, <2>5
  <2> QED BY <2>1, <2>6 DEF new
<1>6. m - n \in P
  <2>1. \A i \in 0 .. m - n : i \in P
    <3> HIDE DEF P
    <3> QED BY <1>1, <1>4, <1>5, UpTo
  <2> QED BY <1>1, <2>1
<1>7. Len(a) <= Len(of(m)) /\ \A j \in 1 .. Len(a) : of(m)[j] = a[j]
  BY <1>1, <1>6
<1> QED BY <1>7 DEF of

\* It leaves out no member of the set.
LEMMA OnlyHas ==
  ASSUME NEW T, NEW s \in Seq(T), NEW S, NEW n \in 1 .. Len(s), s[n] \in S
  PROVE  \E k \in DOMAIN Only(s, S) : Only(s, S)[k] = s[n]
<1> DEFINE a == Only(SubSeq(s, 1, n), S)
           less == Only(SubSeq(s, 1, n - 1), S)
           b == Only(SubSeq(s, 1, Len(s)), S)
<1>1. /\ Len(s) \in Nat /\ s[n] \in T \cap S
      /\ n \in 0 .. Len(s) /\ n - 1 \in 0 .. Len(s) /\ Len(s) \in 0 .. Len(s) /\ n \in 0 .. Len(s)
  BY LenProperties
<1>2. a = Append(less, s[n])
  BY OnlyNext
<1>3. less \in Seq(T \cap S) /\ b \in Seq(T \cap S) /\ b = Only(s, S)
  BY <1>1, OnlyFirst
<1>4. Len(a) <= Len(b) /\ \A i \in 1 .. Len(a) : b[i] = a[i]
  BY <1>1, OnlyGrows
<1> HIDE DEF a, less, b
<1>5. Len(less) \in Nat /\ Len(a) = Len(less) + 1 /\ a[Len(less) + 1] = s[n]
  BY <1>1, <1>2, <1>3, AppendProperties, LenProperties
<1>6. Len(a) \in DOMAIN b /\ b[Len(a)] = s[n]
  BY <1>3, <1>4, <1>5, LenProperties
<1> QED BY <1>3, <1>6

-----------------------------------------------------------------------------
(* Walks through a tree whose directories lead to directories. *)

\* The entries are of E, and directories lead on.
LeadsOn(tree, E) ==
  /\ tree.root \in DOMAIN tree.dirs
  /\ \A d \in DOMAIN tree.dirs :
       /\ tree.dirs[d].entries \in Seq(E)
       /\ \A i \in DOMAIN tree.dirs[d].entries :
            tree.dirs[d].entries[i].kind = "dir"
              => tree.dirs[d].entries[i].first \in DOMAIN tree.dirs

\* What a walk may come to.
Outcome(tree, E) ==
  {Error(e) : e \in {"NotFound", "InvalidClusterChain", "NotADirectory"}}
  \cup {Found(e) : e \in {e \in E \cup {RootEntry(tree)} :
                           e.kind = "dir" => e.first \in DOMAIN tree.dirs}}

\* The first entry of a name is the one that Child finds.
LEMMA ChildIsFirst ==
  ASSUME NEW tree, NEW E, LeadsOn(tree, E), NEW d \in DOMAIN tree.dirs, NEW name,
         NEW i \in DOMAIN tree.dirs[d].entries, tree.dirs[d].entries[i].name = name,
         \A j \in DOMAIN tree.dirs[d].entries : tree.dirs[d].entries[j].name = name => i <= j
  PROVE  Child(tree, d, name) = Found(tree.dirs[d].entries[i])
<1> DEFINE entries == tree.dirs[d].entries
           named == {k \in DOMAIN entries : entries[k].name = name}
           first == CHOOSE k \in named : \A j \in named : k <= j
<1>1. i \in named /\ \A j \in named : i <= j
  OBVIOUS
<1>2. \A k \in named : k \in Nat
  BY LenProperties DEF LeadsOn
<1>3. first \in named /\ \A j \in named : first <= j
  BY <1>1
<1>4. first = i
  BY <1>1, <1>2, <1>3
<1>5. Child(tree, d, name) = Found(entries[first])
  BY <1>1 DEF Child
<1> QED BY <1>4, <1>5

\* Should there be one, Child finds one; it never leads out of the tree.
LEMMA ChildTyped ==
  ASSUME NEW tree, NEW E, LeadsOn(tree, E), NEW d \in DOMAIN tree.dirs, NEW name
  PROVE  Child(tree, d, name) \in Outcome(tree, E)
<1> DEFINE entries == tree.dirs[d].entries
           named == {k \in DOMAIN entries : entries[k].name = name}
<1>1. entries \in Seq(E) /\ DOMAIN entries = 1 .. Len(entries)
  BY LenProperties DEF LeadsOn
<1>2. CASE named # {}
  <2>1. named \in SUBSET Nat
    BY <1>1
  <2>2. PICK i \in named : \A j \in named : i <= j
    <3> HIDE DEF named
    <3> QED BY <1>2, <2>1, LeastOf
  <2>3. Child(tree, d, name) = Found(entries[i])
    BY <2>2, ChildIsFirst
  <2>4. entries[i] \in E /\ (entries[i].kind = "dir" => entries[i].first \in DOMAIN tree.dirs)
    BY <1>1 DEF LeadsOn
  <2> QED BY <2>3, <2>4 DEF Outcome
<1>3. CASE named = {}
  BY <1>3 DEF Child, Outcome
<1> QED BY <1>2, <1>3

\* So does each step of a walk.
LEMMA FollowTyped ==
  ASSUME NEW tree, NEW E, LeadsOn(tree, E), NEW outcome \in Outcome(tree, E), NEW name
  PROVE  Follow(tree, outcome, name) \in Outcome(tree, E)
<1>1. CASE outcome.kind = "error"
  BY <1>1 DEF Follow
<1>2. CASE outcome.kind # "error" /\ outcome.entry.kind # "dir"
  BY <1>2 DEF Follow, Outcome
<1>3. CASE outcome.kind # "error" /\ outcome.entry.kind = "dir"
  <2>1. outcome.entry.first \in DOMAIN tree.dirs
    BY <1>3 DEF Outcome, Error, Found
  <2> QED BY <1>3, <2>1, ChildTyped DEF Follow
<1> QED BY <1>1, <1>2, <1>3

\* What a walk comes to, name by name.
Walks(tree, E, names) ==
  {step \in [0 .. Len(names) -> Outcome(tree, E)] :
    /\ step[0] = Found(RootEntry(tree))
    /\ \A i \in 1 .. Len(names) : step[i] = Follow(tree, step[i - 1], names[i])}

\* Walk gives the last of it.
LEMMA WalkSteps ==
  ASSUME NEW tree, NEW E, LeadsOn(tree, E), NEW N, NEW names \in Seq(N)
  PROVE  \E step \in Walks(tree, E, names) : Walk(tree, names) = step[Len(names)]
<1> DEFINE n == Len(names)
           Root0 == Found(RootEntry(tree))
           Rec(g) == [i \in 0 .. n |-> IF i = 0 THEN Root0 ELSE Follow(tree, g[i - 1], names[i])]
           go == [i \in Nat |-> [x \in Outcome(tree, E) |-> Follow(tree, x, names[i])]]
           step == CHOOSE g : g = Rec(g)
<1>1. n \in Nat
  BY LenProperties
<1>2. Root0 \in Outcome(tree, E)
  BY DEF Outcome, RootEntry, LeadsOn
<1>3. go \in [Nat -> [Outcome(tree, E) -> Outcome(tree, E)]]
  BY FollowTyped
<1>4. PICK f : f \in Runs(Outcome(tree, E), Root0, n, go)
  <2> DEFINE T == Outcome(tree, E)
  <2>1. Root0 \in T /\ go \in [Nat -> [T -> T]]
    BY <1>2, <1>3
  <2>2. Runs(T, Root0, n, go) # {}
    <3> HIDE DEF n, go, Root0, T
    <3> QED BY <1>1, <2>1, Iterates
  <2> QED BY <2>2
<1>5. /\ f \in [0 .. n -> Outcome(tree, E)] /\ f[0] = Root0
      /\ \A i \in 1 .. n : f[i] = go[i][f[i - 1]]
  <2> HIDE DEF n, go, Root0
  <2> QED BY <1>4 DEF Runs
<1>6. ASSUME NEW i \in 0 .. n
      PROVE  f[i] = IF i = 0 THEN Root0 ELSE Follow(tree, f[i - 1], names[i])
  <2>1. CASE i = 0
    BY <1>5, <2>1
  <2>2. CASE i # 0
    <3>1. i \in 1 .. n /\ i \in Nat /\ f[i - 1] \in Outcome(tree, E)
      BY <1>1, <1>5, <2>2
    <3>2. go[i][f[i - 1]] = Follow(tree, f[i - 1], names[i])
      BY <3>1
    <3> HIDE DEF go, n
    <3> QED BY <1>5, <2>2, <3>1, <3>2
  <2> QED BY <2>1, <2>2
<1>7. f = Rec(f)
  <2> HIDE DEF n, Root0
  <2>1. f = [i \in 0 .. n |-> f[i]]
    BY <1>5
  <2> QED BY <1>6, <2>1, Zenon
<1>8. step = Rec(step)
  <2> HIDE DEF Rec
  <2> QED BY <1>7
<1>9. Walk(tree, names) = step[n]
  BY DEF Walk
<1> HIDE DEF step
<1>10. \A i \in 0 .. n :
         step[i] = IF i = 0 THEN Root0 ELSE Follow(tree, step[i - 1], names[i])
  <2>1. \A i \in 0 .. n : step[i] = Rec(step)[i]
    <3> HIDE DEF Rec
    <3> QED BY <1>8
  <2> HIDE DEF n, Root0
  <2>2. \A i \in 0 .. n : Rec(step)[i] =
          IF i = 0 THEN Root0 ELSE Follow(tree, step[i - 1], names[i])
    OBVIOUS
  <2> HIDE DEF Rec
  <2> QED BY <2>1, <2>2
<1> DEFINE P == {i \in 0 .. n : step[i] \in Outcome(tree, E)}
<1>11. \A i \in 0 .. n : i \in P
  <2> HIDE DEF n, Root0
  <2>1. 0 \in P
    BY <1>1, <1>2, <1>10
  <2>2. ASSUME NEW i \in 0 .. n - 1, i \in P PROVE i + 1 \in P
    <3>1. i + 1 \in 0 .. n /\ i + 1 # 0 /\ (i + 1) - 1 = i
      BY <1>1
    <3>2. step[i + 1] = Follow(tree, step[i], names[i + 1])
      BY <1>10, <3>1
    <3> QED BY <2>2, <3>1, <3>2, FollowTyped
  <2> HIDE DEF P
  <2> QED BY <1>1, <2>1, <2>2, UpTo
<1>12. step \in [0 .. n -> Outcome(tree, E)]
  <2> HIDE DEF n, Root0
  <2>1. step = [i \in 0 .. n |-> Rec(step)[i]]
    BY <1>8
  <2>2. \A i \in 0 .. n : Rec(step)[i] \in Outcome(tree, E)
    <3> HIDE DEF Rec
    <3> QED BY <1>8, <1>11
  <2> HIDE DEF Rec
  <2> QED BY <2>1, <2>2
<1>13. step[0] = Found(RootEntry(tree)) /\ \A i \in 1 .. n : step[i] = Follow(tree, step[i - 1], names[i])
  <2>1. 0 \in 0 .. n /\ \A i \in 1 .. n : i \in 0 .. n /\ i # 0
    BY <1>1
  <2> HIDE DEF n
  <2> QED BY <1>10, <2>1
<1> QED BY <1>9, <1>12, <1>13 DEF Walks

\* Without names it stays at the root.
LEMMA WalkNowhere ==
  ASSUME NEW tree, NEW E, LeadsOn(tree, E)
  PROVE  Walk(tree, <<>>) = Found(RootEntry(tree))
<1> DEFINE names == <<>>
<1>1. names \in Seq({}) /\ Len(names) = 0
  BY EmptySeq
<1> HIDE DEF names
<1>2. PICK step \in Walks(tree, E, names) : Walk(tree, names) = step[Len(names)]
  BY <1>1, WalkSteps
<1>3. step[0] = Found(RootEntry(tree))
  BY DEF Walks
<1> QED BY <1>1, <1>2, <1>3 DEF names

\* It never leaves the tree.
LEMMA WalkTyped ==
  ASSUME NEW tree, NEW E, LeadsOn(tree, E), NEW N, NEW names \in Seq(N)
  PROVE  Walk(tree, names) \in Outcome(tree, E)
<1>1. PICK step \in Walks(tree, E, names) : Walk(tree, names) = step[Len(names)]
  BY WalkSteps
<1> QED BY <1>1, LenProperties DEF Walks

\* With one more name it goes on from where it was.
LEMMA WalkOn ==
  ASSUME NEW tree, NEW E, LeadsOn(tree, E), NEW N, NEW names \in Seq(N), NEW name \in N
  PROVE  Walk(tree, Append(names, name)) = Follow(tree, Walk(tree, names), name)
<1> DEFINE more == Append(names, name)
           n == Len(names)
<1>1. /\ more \in Seq(N) /\ Len(more) = n + 1 /\ n \in Nat /\ more[n + 1] = name
      /\ \A i \in 1 .. n : more[i] = names[i]
  BY AppendProperties, LenProperties
<1>2. PICK f \in Walks(tree, E, names) : Walk(tree, names) = f[n]
  BY WalkSteps
<1>3. PICK g \in Walks(tree, E, more) : Walk(tree, more) = g[n + 1]
  <2> HIDE DEF more
  <2> QED BY <1>1, WalkSteps
<1> HIDE DEF more, n
<1> DEFINE P == {i \in 0 .. n : g[i] = f[i]}
<1>4. /\ f[0] = g[0]
      /\ \A i \in 1 .. n : f[i] = Follow(tree, f[i - 1], names[i])
      /\ \A i \in 1 .. n + 1 : g[i] = Follow(tree, g[i - 1], more[i])
  BY <1>1, <1>2, <1>3 DEF Walks, n
<1>5. 0 \in P
  BY <1>1, <1>4
<1>6. ASSUME NEW i \in 0 .. n - 1, i \in P PROVE i + 1 \in P
  <2>1. i + 1 \in 1 .. n /\ i + 1 \in 1 .. n + 1 /\ i + 1 \in 0 .. n /\ (i + 1) - 1 = i
    BY <1>1
  <2>2. f[i + 1] = Follow(tree, f[i], names[i + 1]) /\ g[i + 1] = Follow(tree, g[i], more[i + 1])
    BY <1>4, <2>1
  <2> QED BY <1>1, <1>6, <2>1, <2>2
<1>7. g[n] = f[n]
  <2>1. \A i \in 0 .. n : i \in P
    <3> HIDE DEF P
    <3> QED BY <1>1, <1>5, <1>6, UpTo
  <2> QED BY <1>1, <2>1
<1>8. g[n + 1] = Follow(tree, g[n], name)
  <2>1. n + 1 \in 1 .. n + 1 /\ (n + 1) - 1 = n
    BY <1>1
  <2> QED BY <1>1, <1>4, <2>1
<1> QED BY <1>2, <1>3, <1>7, <1>8 DEF more

\* What the first k names lead to,
Reached(tree, names, k) == Walk(tree, SubSeq(names, 1, k))

\* name by name.
LEMMA ReachedOn ==
  ASSUME NEW tree, NEW E, LeadsOn(tree, E), NEW N, NEW names \in Seq(N),
         NEW k \in 0 .. Len(names)
  PROVE  /\ Reached(tree, names, 0) = Found(RootEntry(tree))
         /\ Reached(tree, names, k) \in Outcome(tree, E)
         /\ k > 0 => Reached(tree, names, k) = Follow(tree, Reached(tree, names, k - 1), names[k])
         /\ Reached(tree, names, Len(names)) = Walk(tree, names)
<1>1. Reached(tree, names, 0) = Found(RootEntry(tree))
  BY FirstOnes, WalkNowhere DEF Reached
<1>2. Reached(tree, names, k) \in Outcome(tree, E)
  BY FirstOnes, WalkTyped DEF Reached
<1>3. Reached(tree, names, Len(names)) = Walk(tree, names)
  BY FirstOnes DEF Reached
<1>4. ASSUME k > 0
      PROVE  Reached(tree, names, k) = Follow(tree, Reached(tree, names, k - 1), names[k])
  <2>1. k - 1 \in 0 .. Len(names)
    BY <1>4, LenProperties
  <2>2. SubSeq(names, 1, k - 1) \in Seq(N)
    BY <2>1, FirstOnes
  <2>3. names[k] \in N /\ SubSeq(names, 1, k) = Append(SubSeq(names, 1, k - 1), names[k])
    BY <1>4, FirstOnes
  <2> DEFINE less == SubSeq(names, 1, k - 1)
  <2>4. Walk(tree, Append(less, names[k])) = Follow(tree, Walk(tree, less), names[k])
    <3> HIDE DEF less
    <3>1. less \in Seq(N) /\ names[k] \in N
      BY <2>2, <2>3 DEF less
    <3> QED BY <3>1, WalkOn
  <2> QED BY <2>3, <2>4 DEF Reached
<1> QED BY <1>1, <1>2, <1>3, <1>4

\* An error on the way is the outcome.
LEMMA WalkFails ==
  ASSUME NEW tree, NEW E, LeadsOn(tree, E), NEW N, NEW names \in Seq(N),
         NEW k \in 0 .. Len(names), Reached(tree, names, k).kind = "error"
  PROVE  Walk(tree, names) = Reached(tree, names, k)
<1> DEFINE n == Len(names) - k
           P == {i \in Nat : Reached(tree, names, k + i) = Reached(tree, names, k)}
<1>1. n \in Nat /\ Len(names) \in Nat
  BY LenProperties
<1>2. 0 \in P
  OBVIOUS
<1>3. ASSUME NEW i \in 0 .. n - 1, i \in P PROVE i + 1 \in P
  <2>1. k + (i + 1) \in 0 .. Len(names) /\ k + (i + 1) > 0 /\ (k + (i + 1)) - 1 = k + i
    BY <1>1
  <2>2. Reached(tree, names, k + (i + 1))
          = Follow(tree, Reached(tree, names, (k + (i + 1)) - 1), names[k + (i + 1)])
    BY <2>1, ReachedOn
  <2> QED BY <1>3, <2>1, <2>2 DEF Follow
<1>4. n \in P
  <2>1. \A i \in 0 .. n : i \in P
    <3> HIDE DEF P, n
    <3> QED BY <1>1, <1>2, <1>3, UpTo
  <2> QED BY <1>1, <2>1
<1>5. k + n = Len(names) /\ Reached(tree, names, Len(names)) = Walk(tree, names)
  BY <1>1, ReachedOn
<1> QED BY <1>4, <1>5

-----------------------------------------------------------------------------
(* Paths that need no normalizing. *)

\* Names, and the components told apart from them.
AreNames(N) == Root # Up /\ N \cap {Root, Up, Here} = {}

\* All their names stay.
LEMMA NamesStay ==
  ASSUME NEW N, AreNames(N), NEW p \in AbsolutePaths(N), NEW i \in DOMAIN p
  PROVE  Stays(p, i) <=> i >= 2
<1>1. /\ p \in Seq({Root} \cup N) /\ Len(p) \in Nat /\ DOMAIN p = 1 .. Len(p)
      /\ p[1] = Root /\ \A k \in 2 .. Len(p) : p[k] \in N
  BY LenProperties DEF AbsolutePaths
<1>2. CASE i = 1
  BY <1>1, <1>2 DEF Stays, IsName
<1>3. CASE i >= 2
  <2>1. IsName(p[i])
    BY <1>1, <1>3 DEF IsName, AreNames
  <2>2. ASSUME NEW j \in i + 1 .. Len(p)
        PROVE  Cardinality({k \in i + 1 .. j : p[k] = Up})
                 <= Cardinality({k \in i + 1 .. j : IsName(p[k])})
    <3> DEFINE ups == {k \in i + 1 .. j : p[k] = Up}
               names == {k \in i + 1 .. j : IsName(p[k])}
    <3>1. ups = {}
      BY <1>1, <1>3 DEF AreNames
    <3>2. IsFiniteSet(i + 1 .. j)
      BY <1>1, FS_Interval
    <3>3. IsFiniteSet(names)
      BY <3>2, FS_Subset
    <3>4. Cardinality(names) \in Nat
      BY <3>3, FS_CardinalityType
    <3>5. Cardinality(ups) = 0
      <4> HIDE DEF ups
      <4> QED BY <3>1, FS_EmptySet
    <3> HIDE DEF ups, names
    <3>6. Cardinality(ups) <= Cardinality(names)
      BY <3>4, <3>5
    <3> QED BY <3>6 DEF ups, names
  <2> QED BY <1>3, <2>1, <2>2 DEF Stays
<1> QED BY <1>1, <1>2, <1>3

\* So nothing but the root is left out.
LEMMA StayingNames ==
  ASSUME NEW N, AreNames(N), NEW p \in AbsolutePaths(N)
  PROVE  Staying(p) = Tail(p)
<1> DEFINE n == Len(p)
           places == [i \in 1 .. n |-> i]
           S == {i \in DOMAIN p : Stays(p, i)}
<1>1. p \in Seq({Root} \cup N) /\ p # <<>> /\ n \in Nat \ {0} /\ DOMAIN p = 1 .. n
  BY LenProperties, EmptySeq DEF AbsolutePaths
<1>2. S = 2 .. n
  BY <1>1, NamesStay
<1>3. places \in Seq(Nat) /\ Len(places) = n /\ places # <<>> /\ \A i \in 1 .. n : places[i] = i
  <2> HIDE DEF n
  <2>1. places \in Seq(Nat) /\ Len(places) = n
    BY <1>1
  <2> QED BY <1>1, <2>1, EmptySeq
<1> DEFINE kept == Only(places, S)
<1>4. kept = Tail(places)
  <2>1. \A i \in 2 .. Len(places) : places[i] \in S
    BY <1>2, <1>3
  <2>2. places[1] \notin S
    BY <1>1, <1>2, <1>3
  <2> HIDE DEF places, S
  <2> QED BY <1>3, <2>1, <2>2, OnlyAll
<1>5. Len(kept) = n - 1 /\ \A k \in 1 .. n - 1 : kept[k] = k + 1
  <2> HIDE DEF places, kept, n
  <2> QED BY <1>1, <1>3, <1>4, HeadTailProperties
<1>6. Staying(p) = [k \in 1 .. Len(kept) |-> p[kept[k]]]
  BY DEF Staying
<1> HIDE DEF kept, n
<1>7. Staying(p) = [k \in 1 .. n - 1 |-> p[k + 1]]
  BY <1>5, <1>6
<1>8. Tail(p) = [k \in 1 .. n - 1 |-> p[k + 1]]
  <2>1. /\ Tail(p) \in Seq({Root} \cup N) /\ Len(Tail(p)) = n - 1
        /\ \A k \in 1 .. n - 1 : Tail(p)[k] = p[k + 1]
    BY <1>1, HeadTailProperties DEF n
  <2>2. Tail(p) = [k \in 1 .. n - 1 |-> Tail(p)[k]]
    BY <2>1, LenProperties
  <2> QED BY <2>1, <2>2
<1> QED BY <1>7, <1>8

\* A name can be added to a path.
LEMMA LongerPath ==
  ASSUME NEW N, NEW p \in AbsolutePaths(N), NEW name \in N
  PROVE  Append(p, name) \in AbsolutePaths(N)
<1>1. /\ p \in Seq({Root} \cup N) /\ p # <<>> /\ Len(p) \in Nat \ {0}
      /\ p[1] = Root /\ \A i \in 2 .. Len(p) : p[i] \in N
  BY LenProperties, EmptySeq DEF AbsolutePaths
<1>2. /\ Append(p, name) \in Seq({Root} \cup N) /\ Append(p, name) # <<>>
      /\ Len(Append(p, name)) = Len(p) + 1
      /\ Append(p, name)[Len(p) + 1] = name
      /\ \A i \in 1 .. Len(p) : Append(p, name)[i] = p[i]
  BY <1>1, AppendProperties
<1>3. ASSUME NEW i \in 2 .. Len(p) + 1 PROVE Append(p, name)[i] \in N
  <2>1. CASE i = Len(p) + 1
    BY <1>2, <2>1
  <2>2. CASE i \in 2 .. Len(p)
    BY <1>1, <1>2, <2>2
  <2> QED BY <1>1, <2>1, <2>2
<1>4. Append(p, name)[1] = Root
  BY <1>1, <1>2
<1> QED BY <1>2, <1>3, <1>4 DEF AbsolutePaths

\* The root leads to the entry made up for it,
LEMMA ResolveRoot ==
  ASSUME NEW tree, NEW E, LeadsOn(tree, E), NEW N, AreNames(N)
  PROVE  /\ <<Root>> \in AbsolutePaths(N)
         /\ Resolve(tree, <<Root>>) = Found(RootEntry(tree))
<1>1. <<Root>> \in AbsolutePaths(N)
  BY DEF AbsolutePaths
<1>2. Staying(<<Root>>) = Tail(<<Root>>)
  BY <1>1, StayingNames
<1>3. Tail(<<Root>>) = <<>>
  OBVIOUS
<1> QED BY <1>1, <1>2, <1>3, WalkNowhere DEF Resolve

\* and one more name one step on.
LEMMA ResolveOn ==
  ASSUME NEW tree, NEW E, LeadsOn(tree, E), NEW N, AreNames(N),
         NEW p \in AbsolutePaths(N), NEW name \in N
  PROVE  /\ Append(p, name) \in AbsolutePaths(N)
         /\ Resolve(tree, Append(p, name)) = Follow(tree, Resolve(tree, p), name)
<1>1. \A q \in AbsolutePaths(N) :
        /\ q \in Seq({Root} \cup N) /\ q # <<>> /\ Len(q) \in Nat \ {0} /\ DOMAIN q = 1 .. Len(q)
        /\ q[1] = Root /\ \A i \in 2 .. Len(q) : q[i] \in N
  BY LenProperties, EmptySeq DEF AbsolutePaths
<1>2. Append(p, name) \in AbsolutePaths(N)
  BY LongerPath
<1>3. \A q \in AbsolutePaths(N) : Resolve(tree, q) = Walk(tree, Tail(q))
  <2>1. ASSUME NEW q \in AbsolutePaths(N) PROVE IsAbsolute(q)
    BY <1>1 DEF IsAbsolute
  <2> QED BY <2>1, StayingNames DEF Resolve
<1> DEFINE names == Tail(p)
<1>4. /\ names \in Seq({Root} \cup N) /\ Len(names) = Len(p) - 1
      /\ \A i \in 1 .. Len(p) - 1 : names[i] = p[i + 1]
  BY <1>1, HeadTailProperties
<1>5. names \in Seq(N)
  <2>1. \A i \in 1 .. Len(names) : names[i] \in N
    BY <1>1, <1>4
  <2>2. Len(names) \in Nat /\ names = [i \in 1 .. Len(names) |-> names[i]]
    BY <1>4, LenProperties
  <2> HIDE DEF names
  <2> QED BY <2>1, <2>2
<1>6. Tail(Append(p, name)) = Append(names, name)
  <2> DEFINE longer == Append(p, name)
  <2>1. /\ longer \in Seq({Root} \cup N) /\ longer # <<>> /\ Len(longer) = Len(p) + 1
        /\ longer[Len(p) + 1] = name /\ \A i \in 1 .. Len(p) : longer[i] = p[i]
    BY <1>1, AppendProperties
  <2> HIDE DEF longer, names
  <2>2. /\ Tail(longer) \in Seq({Root} \cup N) /\ Len(Tail(longer)) = Len(p)
        /\ \A i \in 1 .. Len(p) : Tail(longer)[i] = longer[i + 1]
    BY <1>1, <2>1, HeadTailProperties
  <2>3. /\ Append(names, name) \in Seq({Root} \cup N) /\ Len(Append(names, name)) = Len(p)
        /\ Append(names, name)[Len(p)] = name
        /\ \A i \in 1 .. Len(p) - 1 : Append(names, name)[i] = names[i]
    BY <1>1, <1>4, AppendProperties
  <2>4. ASSUME NEW i \in 1 .. Len(p) PROVE Tail(longer)[i] = Append(names, name)[i]
    <3>1. CASE i = Len(p)
      BY <2>1, <2>2, <2>3, <3>1
    <3>2. CASE i # Len(p)
      <4>1. i \in 1 .. Len(p) - 1 /\ i + 1 \in 1 .. Len(p)
        BY <1>1, <3>2
      <4> QED BY <1>4, <2>1, <2>2, <2>3, <4>1
    <3> QED BY <3>1, <3>2
  <2>5. Tail(longer) = Append(names, name)
    BY <2>2, <2>3, <2>4, SeqEqual
  <2> QED BY <2>5 DEF longer
<1> HIDE DEF names
<1>7. Walk(tree, Append(names, name)) = Follow(tree, Walk(tree, names), name)
  BY <1>5, WalkOn
<1>8. Resolve(tree, p) = Walk(tree, names) /\ Resolve(tree, Append(p, name)) = Walk(tree, Append(names, name))
  BY <1>2, <1>3, <1>6 DEF names
<1> QED BY <1>2, <1>7, <1>8

\* Every path but the root is one of its parent and a name.
LEMMA ParentAndName ==
  ASSUME NEW N, NEW p \in AbsolutePaths(N), p # <<Root>>
  PROVE  /\ Front(p) \in AbsolutePaths(N)
         /\ p[Len(p)] \in N
         /\ p = Append(Front(p), p[Len(p)])
<1>1. /\ p \in Seq({Root} \cup N) /\ p # <<>> /\ Len(p) \in Nat \ {0} /\ DOMAIN p = 1 .. Len(p)
      /\ p[1] = Root /\ \A i \in 2 .. Len(p) : p[i] \in N
  BY LenProperties, EmptySeq DEF AbsolutePaths
<1>2. Len(p) >= 2
  <2>1. CASE Len(p) = 1
    <3>1. <<Root>> \in Seq({Root} \cup N) /\ Len(<<Root>>) = 1 /\ <<Root>>[1] = Root
      OBVIOUS
    <3>2. p = <<Root>>
      BY <1>1, <2>1, <3>1, SeqEqual
    <3> QED BY <3>2
  <2> QED BY <1>1, <2>1
<1>3. /\ Front(p) \in Seq({Root} \cup N) /\ Len(Front(p)) = Len(p) - 1
      /\ \A i \in 1 .. Len(p) - 1 : Front(p)[i] = p[i]
  BY <1>1, FrontOf
<1>4. Front(p) \in AbsolutePaths(N)
  <2>1. Front(p)[1] = Root /\ \A i \in 2 .. Len(Front(p)) : Front(p)[i] \in N
    BY <1>1, <1>2, <1>3
  <2>2. Front(p) # <<>>
    BY <1>2, <1>3, EmptySeq
  <2> QED BY <1>3, <2>1, <2>2 DEF AbsolutePaths
<1>5. p[Len(p)] \in N
  BY <1>1, <1>2
<1> DEFINE back == Append(Front(p), p[Len(p)])
<1>6. /\ back \in Seq({Root} \cup N) /\ Len(back) = Len(p) /\ back[Len(p)] = p[Len(p)]
      /\ \A i \in 1 .. Len(p) - 1 : back[i] = p[i]
  <2> DEFINE front == Front(p)
             last == p[Len(p)]
             T == {Root} \cup N
  <2>1. front \in Seq(T) /\ last \in T /\ Len(front) = Len(p) - 1
    BY <1>3, <1>5
  <2>2. /\ Append(front, last) \in Seq(T) /\ Len(Append(front, last)) = Len(front) + 1
        /\ Append(front, last)[Len(front) + 1] = last
        /\ \A i \in 1 .. Len(front) : Append(front, last)[i] = front[i]
    <3> HIDE DEF front, last, T
    <3> QED BY <2>1, AppendProperties
  <2>3. Len(front) + 1 = Len(p)
    BY <1>1, <2>1
  <2>4. \A i \in 1 .. Len(p) - 1 : back[i] = p[i]
    BY <1>3, <2>1, <2>2
  <2> HIDE DEF front
  <2> QED BY <2>1, <2>2, <2>3, <2>4 DEF front
<1>7. p = back
  <2> HIDE DEF back
  <2>0. Len(p) \in Nat \ {0}
    BY <1>1
  <2>1. ASSUME NEW i \in 1 .. Len(p) PROVE p[i] = back[i]
    <3>1. CASE i = Len(p)
      BY <1>6, <3>1
    <3>2. CASE i # Len(p)
      <4>1. i \in 1 .. Len(p) - 1
        BY <2>0, <3>2
      <4> QED BY <1>6, <4>1
    <3> QED BY <3>1, <3>2
  <2> QED BY <1>1, <1>6, <2>1, SeqEqual
<1> QED BY <1>4, <1>5, <1>7

\* No path leads out of the tree.
LEMMA ResolveTyped ==
  ASSUME NEW tree, NEW E, LeadsOn(tree, E), NEW N, AreNames(N), NEW p \in AbsolutePaths(N)
  PROVE  Resolve(tree, p) \in Outcome(tree, E)
<1>1. Resolve(tree, p) \in {Error("NotFound"), Walk(tree, Staying(p))}
  BY DEF Resolve
<1>2. Staying(p) \in Seq({Root} \cup N)
  BY StayingNames, HeadTailProperties DEF AbsolutePaths
<1> QED BY <1>1, <1>2, WalkTyped DEF Outcome

\* What leads to an entry has led to a directory before.
LEMMA ParentIsDir ==
  ASSUME NEW tree, NEW E, LeadsOn(tree, E), NEW N, AreNames(N),
         NEW p \in AbsolutePaths(N), Resolve(tree, p).kind = "entry"
  PROVE  LET parent == IF p = <<Root>> THEN p ELSE Front(p)
         IN /\ parent \in AbsolutePaths(N)
            /\ Resolve(tree, parent).kind = "entry"
            /\ Resolve(tree, parent).entry.kind = "dir"
<1>1. CASE p = <<Root>>
  <2>1. /\ <<Root>> \in AbsolutePaths(N)
        /\ Resolve(tree, <<Root>>) = Found(RootEntry(tree))
    BY ResolveRoot
  <2> QED BY <1>1, <2>1 DEF Found, RootEntry
<1>2. CASE p # <<Root>>
  <2>1. /\ Front(p) \in AbsolutePaths(N)
        /\ Resolve(tree, p) = Follow(tree, Resolve(tree, Front(p)), p[Len(p)])
    <3>1. Front(p) \in AbsolutePaths(N) /\ p[Len(p)] \in N /\ p = Append(Front(p), p[Len(p)])
      BY <1>2, ParentAndName
    <3>2. Resolve(tree, Append(Front(p), p[Len(p)])) = Follow(tree, Resolve(tree, Front(p)), p[Len(p)])
      BY <3>1, ResolveOn
    <3> QED BY <3>1, <3>2
  <2>2. Resolve(tree, Front(p)) \in Outcome(tree, E)
    BY <2>1, ResolveTyped
  <2>3. Resolve(tree, Front(p)).kind # "error" /\ Resolve(tree, Front(p)).entry.kind = "dir"
    BY <2>1 DEF Follow, Error
  <2>4. Resolve(tree, Front(p)).kind = "entry"
    BY <2>2, <2>3 DEF Outcome, Error, Found
  <2> QED BY <1>2, <2>1, <2>3, <2>4
<1> QED BY <1>1, <1>2

\* A listing shows entries of the directory, files and directories only.
LEMMA ShownTyped ==
  ASSUME NEW tree, NEW E, LeadsOn(tree, E), NEW d \in DOMAIN tree.dirs
  PROVE  ShownIn(tree, d) \in Seq({e \in ToSet(tree.dirs[d].entries) : e.kind \in {"file", "dir"}})
<1> DEFINE entries == tree.dirs[d].entries
           T == ToSet(entries)
           S == {e \in T : e.kind \in {"file", "dir"}}
<1>1. entries \in Seq(T)
  <2>1. entries \in Seq(E)
    BY DEF LeadsOn
  <2>2. Len(entries) \in Nat /\ entries = [i \in 1 .. Len(entries) |-> entries[i]]
        /\ \A i \in 1 .. Len(entries) : entries[i] \in T
    BY <2>1, LenProperties DEF ToSet
  <2> HIDE DEF entries, T
  <2> QED BY <2>2
<1>2. Only(entries, S) \in Seq(T \cap S)
  <2> HIDE DEF entries, T, S
  <2> QED BY <1>1, OnlyTyped
<1>3. T \cap S = S
  OBVIOUS
<1> QED BY <1>2, <1>3, Zenon DEF ShownIn

\* Where names tell entries apart, each is found by its name.
LEMMA ListedIsFound ==
  ASSUME NEW tree, NEW E, LeadsOn(tree, E), NEW d \in DOMAIN tree.dirs,
         \A i, j \in DOMAIN tree.dirs[d].entries :
           tree.dirs[d].entries[i].name = tree.dirs[d].entries[j].name => i = j,
         NEW e \in ToSet(tree.dirs[d].entries)
  PROVE  Child(tree, d, e.name) = Found(e)
<1>1. PICK i \in DOMAIN tree.dirs[d].entries : e = tree.dirs[d].entries[i]
  BY DEF ToSet
<1>2. i \in Nat
  BY LenProperties DEF LeadsOn
<1>3. \A j \in DOMAIN tree.dirs[d].entries : tree.dirs[d].entries[j].name = e.name => i <= j
  BY <1>1, <1>2
<1> QED BY <1>1, <1>3, ChildIsFirst
=============================================================================
