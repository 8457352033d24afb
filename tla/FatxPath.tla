------------------------------ MODULE FatxPath ------------------------------
(***************************************************************************)
(* normalize_virtual_path (src/fatx/path.rs).                              *)
(***************************************************************************)
EXTENDS Integers, SequencesExt, PathComponents

\* Mutant: ".." also takes away the root.
PushPoppingRoot(stack, component) ==
  CASE component = Root \/ IsName(component) -> Append(stack, component)
    [] component = Up /\ stack # <<>> -> Front(stack)
    [] OTHER -> stack

\* The step of the loop: ".." pops a normal component, nothing else.
Push(stack, component) ==
  CASE component = Root \/ IsName(component) -> Append(stack, component)
    [] component = Up /\ stack # <<>> /\ IsName(Last(stack)) -> Front(stack)
    [] OTHER -> stack

Normalize(path) ==
  LET stack[n \in 0 .. Len(path)] ==
        IF n = 0 THEN <<>> ELSE Push(stack[n - 1], path[n])
  IN IF stack[Len(path)] = <<>> THEN <<Root>> ELSE stack[Len(path)]
=============================================================================
