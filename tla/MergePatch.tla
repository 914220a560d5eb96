------------------------------ MODULE MergePatch ------------------------------
(* merge_patch: RFC 7386 JSON Merge Patch, for values and for documents.     *)
EXTENDS JsonTrees

\* What the merge of a target begins with: the members of an object, or none.
MembersOf(target) == IF IsObject(target) THEN target.members ELSE <<>>

\* result.value(key)
MemberOf(target, key) ==
  IF key \in DOMAIN MembersOf(target) THEN MembersOf(target)[key] ELSE Undefined

\* Mutant: null is a value like any other.
RemovesNothing(patch) == {}

\* The members a patch removes, and those it sets.
RemovedBy(patch) == {q \in DOMAIN patch.members : IsNull(patch.members[q])}
SetBy(patch) == DOMAIN patch.members \ RemovedBy(patch)

\* What a defined patch makes of each target; the members may be merged in any
\* order, because each is merged with its own.
MergeInto[patch \in Json] ==
  [target \in Json \cup {Undefined} |->
     IF ~IsObject(patch) THEN patch
     ELSE Object([q \in (DOMAIN MembersOf(target) \ RemovedBy(patch)) \cup SetBy(patch) |->
                    IF q \notin SetBy(patch) THEN MembersOf(target)[q]
                    ELSE MergeInto[patch.members[q]][MemberOf(target, q)]])]

Merge(target, patch) == IF IsUndefined(patch) THEN Null ELSE MergeInto[patch][target]

\* merge_patch of two documents: the merged roots, if a document can hold them.
MergeDocuments(target, patch) ==
  LET result == Merge(target, patch)
  IN IF IsContainer(result) \/ IsNull(result) THEN result ELSE Null

=============================================================================
