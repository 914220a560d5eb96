------------------------------- MODULE PathScan -------------------------------
(***************************************************************************)
(* How the parser of JSON paths scans a text: quotes, brackets, and the    *)
(* places where it splits.  A text is a sequence of lexemes (PathCompile). *)
(***************************************************************************)
EXTENDS Integers, SequencesExt

Quotes == {"'", "\""}

\* What a scanner knows between two lexemes: the quote that is open, or "none",
\* and whether the next lexeme is escaped.
Between == [quote |-> "none", escaped |-> FALSE]

\* A backslash escapes the lexeme behind it between quotes, and everywhere for
\* the scanner that looks for the end of a bracket.
ScanStates(s, everywhere) ==
  LET after[n \in 0..Len(s)] ==
        IF n = 0 THEN Between
        ELSE LET before == after[n - 1]
             IN IF before.escaped THEN [before EXCEPT !.escaped = FALSE]
                ELSE IF s[n] = "\\" THEN [before EXCEPT !.escaped = everywhere \/ before.quote # "none"]
                ELSE IF s[n] \notin Quotes \/ before.quote \notin {"none", s[n]} THEN before
                ELSE [before EXCEPT !.quote = IF @ = "none" THEN s[n] ELSE "none"]
  IN after

\* Mutant: an escaped quote closes a name.
ReadOutsideUnescaped(s, everywhere) ==
  LET after[n \in 0..Len(s)] ==
        IF n = 0 THEN "none"
        ELSE LET before == after[n - 1]
             IN IF s[n] \notin Quotes \/ before \notin {"none", s[n]} THEN before
                ELSE IF before = "none" THEN s[n] ELSE "none"
  IN {n \in 1..Len(s) : after[n - 1] = "none"}

\* The positions of s that are read outside quotes.
ReadOutside(s, everywhere) ==
  LET after == ScanStates(s, everywhere) IN {n \in 1..Len(s) : after[n - 1] = Between}
Unquoted(s) == ReadOutside(s, FALSE)

\* How often the lexeme c occurs among the first n positions of s that are in P.
Occurs(s, P, n, c) == Cardinality({j \in P : j <= n /\ s[j] = c})

Balanced(s, P, n) ==
  /\ Occurs(s, P, n, "[") = Occurs(s, P, n, "]")
  /\ Occurs(s, P, n, "(") = Occurs(s, P, n, ")")

\* The bracket that closes the one s begins with, if any.
ClosingBrackets(s) ==
  LET P == ReadOutside(s, TRUE)
  IN {n \in P : s[n] = "]" /\ Occurs(s, P, n, "[") = Occurs(s, P, n, "]")}

\* matchesUnionComma: a comma outside parentheses and brackets.  Quotes do not
\* matter to it.
HasUnionComma(s) == \E n \in 1..Len(s) : s[n] = "," /\ Balanced(s, 1..Len(s), n)

\* splitUnionSegments: at the commas outside quotes, parentheses and brackets,
\* or, if there is none, at all commas.
UnionCuts(s) ==
  LET commas == {n \in 1..Len(s) : s[n] = ","}
      top == {n \in commas \cap Unquoted(s) : Balanced(s, Unquoted(s), n)}
  IN IF top = {} THEN commas ELSE top

\* The k-th of the positions in cuts, and the two before and behind s.
Cut(s, cuts, k) ==
  IF k = 0 THEN 0
  ELSE IF k > Cardinality(cuts) THEN Len(s) + 1
  ELSE CHOOSE n \in cuts : Cardinality({m \in cuts : m <= n}) = k

\* The pieces of s between the positions in cuts.
SplitAt(s, cuts) ==
  [k \in 1..Cardinality(cuts) + 1 |-> SubSeq(s, Cut(s, cuts, k - 1) + 1, Cut(s, cuts, k) - 1)]

=============================================================================
