--------------------------- MODULE PathComponents ---------------------------
(***************************************************************************)
(* A path is the sequence of its std::path::Components: at most one Root,  *)
(* at the front; Here only at the front of a path that has no Root.        *)
(***************************************************************************)
EXTENDS Integers, Sequences

CONSTANTS Root, Up, Here  \* the components "/", ".." and "."; any other is a name

IsName(component) == component \notin {Root, Up, Here}

\* A path of these names.
IsPath(path, N) ==
  /\ path \in Seq(N \cup {Root, Up, Here})
  /\ \A i \in DOMAIN path : path[i] = Root => i = 1

\* The paths that need no normalizing: the root and names.
AbsolutePaths(N) ==
  {p \in Seq(N \cup {Root}) : p # <<>> /\ p[1] = Root /\ \A i \in 2 .. Len(p) : p[i] \in N}

IsAbsolute(path) == \E i \in DOMAIN path : path[i] = Root
=============================================================================
