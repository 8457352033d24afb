----------------------------- MODULE DirAnswers -----------------------------
(***************************************************************************)
(* The answers that a volume should give for paths: those of a tree of     *)
(* entries, [root, dirs, damaged], where a directory is its entries and    *)
(* whether an end marker follows them.                                     *)
(***************************************************************************)
EXTENDS Integers, SequencesExt, Subsequence, PathComponents

Error(e) == [kind |-> "error", error |-> e]
Found(entry) == [kind |-> "entry", entry |-> entry]
Listed(entries) == [kind |-> "list", entries |-> entries]

\* The entry from_path makes up for the root directory.
RootEntry(tree) == [name |-> Root, kind |-> "dir", first |-> tree.root]

\* A ".." takes away the nearest name before it that is still there: a name
\* stays if no stretch of the path after it has more ".." than names.
Stays(path, i) ==
  /\ IsName(path[i])
  /\ \A j \in i + 1 .. Len(path) :
       Cardinality({k \in i + 1 .. j : path[k] = Up})
         <= Cardinality({k \in i + 1 .. j : IsName(path[k])})

Staying(path) ==
  LET kept == Only([i \in 1 .. Len(path) |-> i], {i \in DOMAIN path : Stays(path, i)})
  IN [k \in 1 .. Len(kept) |-> path[kept[k]]]

\* The entry of directory d with this name: the first, should there be several.
Child(tree, d, name) ==
  LET entries == tree.dirs[d].entries
      named == {i \in DOMAIN entries : entries[i].name = name}
  IN IF named # {}
       THEN Found(entries[CHOOSE i \in named : \A j \in named : i <= j])
       ELSE Error(IF tree.dirs[d].ended THEN "NotFound" ELSE "InvalidClusterChain")

\* One name further, from what the names before it led to.
Follow(tree, outcome, name) ==
  IF outcome.kind = "error" THEN outcome
  ELSE IF outcome.entry.kind # "dir" THEN Error("NotADirectory")
  ELSE Child(tree, outcome.entry.first, name)

\* The entry found by following names from the root.
Walk(tree, names) ==
  LET step[n \in 0 .. Len(names)] ==
        IF n = 0 THEN Found(RootEntry(tree)) ELSE Follow(tree, step[n - 1], names[n])
  IN step[Len(names)]

\* A relative path leads nowhere, unless nothing is left of it.
Resolve(tree, path) ==
  IF Staying(path) # <<>> /\ ~IsAbsolute(path) THEN Error("NotFound")
  ELSE Walk(tree, Staying(path))

\* The entries of directory d that a listing shows.
ShownIn(tree, d) ==
  LET entries == tree.dirs[d].entries
  IN Only(entries, {e \in ToSet(entries) : e.kind \in {"file", "dir"}})

Answer(tree, r) ==
  LET found == Resolve(tree, r.path)
  IN CASE found.kind = "error" \/ r.op = "stat" -> found
       [] found.kind # "error" /\ r.op = "open" ->
            IF found.entry.kind = "file" THEN found ELSE Error("IsADirectory")
       [] found.kind # "error" /\ r.op = "list" ->
            IF found.entry.kind = "dir"
              THEN Listed(ShownIn(tree, found.entry.first))
              ELSE Error("NotADirectory")
=============================================================================
