------------------------------ MODULE PointerAPI ------------------------------
(***************************************************************************)
(* What the JSON Pointer API promises its caller: a call takes effect in   *)
(* one step, either as the whole RFC 6901 read or RFC 6902 write, or as an *)
(* error that changes nothing.  JSONPointer implements it.                 *)
(***************************************************************************)
EXTENDS JsonValue

CONSTANTS
  EvaluatePointer(_, _),          \* what a read of a pointer and a value computes
  WritePointer(_, _, _, _, _),    \* what a write does, as its new root and its result
  Failure(_, _),                  \* a failed call's outcome
  NoError                         \* the error that is none

VARIABLES holder, doc, call, busy, outcome
apiVars == <<holder, doc, call, busy, outcome>>

\* An error of committing the new root into a variable of type h.
CommitError(h, root) ==
  IF (h = "object" /\ ~IsObject(root)) \/ (h = "array" /\ ~IsArray(root)) THEN "RootTypeMismatch"
  ELSE IF h = "document" /\ ~IsContainer(root) /\ ~IsNull(root) THEN "DocumentRootNotContainer"
  ELSE NoError

Init == ~busy

\* The caller asks; what it asks for is its own choice.
Request ==
  /\ ~busy
  /\ busy' = TRUE
  /\ UNCHANGED <<holder, doc>>

RespondEvaluate ==
  /\ busy /\ call.op = "Evaluate"
  /\ outcome' = EvaluatePointer(call.tokens, doc)
  /\ busy' = FALSE
  /\ UNCHANGED <<holder, doc, call>>

\* A write that computed w: committed if the variable can hold the new root.
CommitWrite(w) ==
  /\ outcome' = IF w.result.ok /\ CommitError(holder, w.root) # NoError
                THEN Failure(CommitError(holder, w.root), 0) ELSE w.result
  /\ doc' = IF outcome'.ok THEN w.root ELSE doc

RespondWrite ==
  /\ busy /\ call.op # "Evaluate"
  /\ CommitWrite(WritePointer(call.tokens, doc, call.value, call.op, call.create))
  /\ busy' = FALSE
  /\ UNCHANGED <<holder, call>>

Next == Request \/ RespondEvaluate \/ RespondWrite

Spec == Init /\ [][Next]_apiVars
=============================================================================
