------------------------------- MODULE JsonTrees -------------------------------
(***************************************************************************)
(* The JSON values an instance is about.                                   *)
(***************************************************************************)
EXTENDS JsonValue

CONSTANTS
  Json,      \* JSON values, with the values in them
  Nesting    \* how deeply each of them is nested

\* Children are nested less deeply: a value in memory is a finite tree.
ASSUME JsonAssumption == DownwardClosed(Json)
ASSUME NestingAssumption ==
  /\ Nesting \in [Json -> Nat]
  /\ \A v \in Json : \A c \in Children(v) : Nesting[c] < Nesting[v]

=============================================================================
