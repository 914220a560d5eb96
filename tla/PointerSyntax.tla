---------------------------- MODULE PointerSyntax ----------------------------
(***************************************************************************)
(* Making JSON Pointers: create() from a text, and composition with        *)
(* appended().                                                             *)
(***************************************************************************)
EXTENDS PointerText

CONSTANTS
  Inputs,          \* the strings passed to create
  Keys, Indices,   \* the arguments of appended
  MaxTokens        \* bound on the tokens of a composed pointer

ASSUME MaxTokensAssumption == MaxTokens \in Nat
ASSUME TextsAssumption == Inputs \subseteq Seq(STRING) /\ Keys \subseteq Seq(STRING)
\* An index is a qsizetype, as wide as qlonglong.
ASSUME IndicesAssumption == Indices \subseteq -LongLongMax - 1 .. LongLongMax

VARIABLES
  pc,       \* "start", "rejected", "parsed" or "composed"
  input,    \* history: the string given to create, until a token is appended
  tokens    \* m_tokens

vars == <<pc, input, tokens>>

-----------------------------------------------------------------------------

Init ==
  /\ pc = "start"
  /\ input = <<>>
  /\ tokens = <<>>

\* JSONPointer::create
Create(s) ==
  /\ pc = "start"
  /\ input' = s
  /\ IF ValidPointerSyntax(s)
     THEN pc' = "parsed" /\ tokens' = ParsePointer(s)
     ELSE pc' = "rejected" /\ UNCHANGED tokens

Extend(token) ==
  /\ pc \in {"parsed", "composed"}
  /\ Len(tokens) < MaxTokens
  /\ pc' = "composed"
  /\ tokens' = Append(tokens, token)
  /\ input' = <<>>

\* appended(key): the key is data and is not unescaped.
AppendKey(key) == Extend(Classified(key))

\* Mutant: a negative index is taken for an array index.
AppendIndexUnchecked(index) == Extend(Token("Index", index, NumberText(index)))

\* appended(index)
AppendIndex(index) ==
  Extend(IF index >= 0 THEN Token("Index", index, NumberText(index))
         ELSE Token("Key", 0, NumberText(index)))

Next ==
  \/ \E s \in Inputs : Create(s)
  \/ \E key \in Keys : AppendKey(key)
  \/ \E index \in Indices : AppendIndex(index)

Spec == Init /\ [][Next]_vars

-----------------------------------------------------------------------------
(* Properties *)

\* The grammar of RFC 6901, as JSONPointerParsing.hpp states it: a non-empty
\* pointer starts with '/', and '~' is followed by '0' or '1'.
IsPointer(s) ==
  /\ s # <<>> => s[1] = "/"
  /\ \A j \in 1..Len(s) : s[j] = "~" => j < Len(s) /\ s[j + 1] \in {"0", "1"}

\* create accepts exactly that grammar, and loses nothing of what it accepts:
\* the decoded keys, escaped and joined again, are the input.
CreateFaithful ==
  /\ pc = "rejected" => ~IsPointer(input)
  /\ pc = "parsed" =>
       /\ IsPointer(input)
       /\ FlattenSeq([j \in 1..Len(tokens) |-> <<"/">> \o Escape(tokens[j].key)]) = input

\* However a pointer was made, create accepts its to_string(), and parses it to
\* the same tokens except for the text of an index, which becomes canonical.
ReparseAgrees ==
  pc \in {"parsed", "composed"} =>
    /\ ValidPointerSyntax(PointerText(tokens))
    /\ ParsePointer(PointerText(tokens)) = CanonicalTokens(tokens)

=============================================================================
