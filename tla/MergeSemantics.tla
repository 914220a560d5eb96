---------------------------- MODULE MergeSemantics ----------------------------
(***************************************************************************)
(* What a merge patch means, observed by reading: where a JSON Pointer     *)
(* leads in the merged value, given where it leads in the target and in    *)
(* the patch.                                                              *)
(***************************************************************************)
EXTENDS JSONPatch, MergePatch

CONSTANT
  Paths   \* the pointers, of keys only, that the merged value is read at

KeyPaths == {p \in Seq(TokenType) : \A j \in 1..Len(p) : p[j].kind = "Key"}

ASSUME PathsAssumption == Paths \subseteq KeyPaths

\* Reading the first k tokens of path.
ReadUntil(v, path, k) == EvaluatePointer(SubSeq(path, 1, k), v)

\* The patch speaks at the places on the way that hold no object in it.
Spoken(patch_, path) ==
  {k \in 0..Len(path) :
     ReadUntil(patch_, path, k).ok /\ ~IsObject(ReadUntil(patch_, path, k).value)}

\* Both reads fail, or both find the same.
SameFound(a, b) == /\ a.ok <=> b.ok
                   /\ a.ok => a.value = b.value

\* The first place that the patch speaks at decides: null removes it, anything
\* else is put there whole.  An object in the patch makes an object of the
\* place, and what the patch does not mention the target decides.
ReadsAsMerged(target, patch_, merged, path) ==
  LET spoken == Spoken(patch_, path)
      k0 == Min(spoken)
      said == ReadUntil(patch_, path, k0).value
      found == EvaluatePointer(path, merged)
  IN IF spoken # {}
     THEN IF IsNull(said) /\ k0 > 0 THEN ~found.ok
          ELSE SameFound(found, EvaluatePointer(SubSeq(path, k0 + 1, Len(path)), said))
     ELSE IF EvaluatePointer(path, patch_).ok THEN found.ok /\ IsObject(found.value)
     ELSE SameFound(found, EvaluatePointer(path, target))

\* "Patch object members merge recursively into the target; an explicit null
\* removes the member; any non-object patch value (including arrays) replaces
\* the target wholesale" (JSONMergePatch.hpp), at every place of the result; and
\* "the result is representable as a QJsonDocument for every input": the
\* overload for documents loses nothing.
MergesAsMeant ==
  pc = "idle" =>
    \A patch_ \in Documents :
      LET merged == Merge(doc, patch_)
      IN /\ \A path \in Paths : ReadsAsMerged(doc, patch_, merged, path)
         /\ Holds("document", patch_) => MergeDocuments(doc, patch_) = merged

=============================================================================
