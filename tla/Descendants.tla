------------------------------ MODULE Descendants ------------------------------
(***************************************************************************)
(* A value and the values in it, in document order: what ".." stands for.  *)
(***************************************************************************)
EXTENDS PathTokens, JsonTrees

\* A value, then what its children stand for, one after the other.
Preorder[v \in Json] ==
  <<v>> \o FlattenSeq([n \in 1..Len(ChildValues(v)) |-> Preorder[ChildValues(v)[n]]])

PreorderOfAll(values) == FlattenSeq([n \in 1..Len(values) |-> Preorder[values[n]]])

=============================================================================
