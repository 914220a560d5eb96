----------------------------- MODULE MCPatchWire -----------------------------
(* Instances of PatchWire for TLC. *)
EXTENDS PatchWire

Chars == {"/", "~", "0", "1", "+", "-", " ", "a"}
Strings(n) == UNION {[1..k -> Chars] : k \in 0..n}

\* Every string of up to four characters, and some with several escapes.
MCInputs ==
  Strings(4) \cup {<<"/", "~">> \o s \o <<"/">> : s \in Strings(3)}
\* Every key of up to two characters, and longer numbers.
MCKeys == Strings(2) \cup {<<"1", "0", "1">>, <<"+", "0", "1">>, <<"~", "1", "/">>}
MCIndices == {-1, 0, 1, 10, 21}

\* Pointers and raw texts for patches: an escape, an index and other spellings
\* of it; texts that are no pointers.
MCHanded == {<<"/", "1">>, <<"/", "~", "0", "1">>}
MCRawTexts == {<<"/", "+", "1">>, <<"a">>}
MCValues == {Null}

\* Arrays of up to three operation objects, with members that are missing, of
\* another type, or wrong.
Member(name, choices) == {<<>>} \cup {[q \in {name} |-> v] : v \in choices}
Pointers == {Num(1), Str(<<"/", "a">>), Str(<<"~">>)}
Entries ==
  {Null}
    \cup {Object(op @@ path @@ from @@ value) :
            op \in Member("op", {Num(1), Str("replace"), Str("copy"), Str("remove"), Str("ADD")}),
            path \in Member("path", Pointers), from \in Member("from", Pointers),
            value \in Member("value", {Null})}
Good == Object([op |-> Str("test"), path |-> Str(<<"/", "a">>), value |-> Null])
MCDocuments ==
  {Null, EmptyObject, Array(<<Good, Good, Good>>), Array(<<Good, Good, Null>>)}
    \cup {Array(<<entry>>) : entry \in Entries}
    \cup {Array(<<Good, entry, Null>>) : entry \in Entries}

=============================================================================
