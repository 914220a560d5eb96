--------------------------- MODULE PatchWireProofs ---------------------------
(***************************************************************************)
(* Proofs about PatchWire, and about PointerSyntax and PointerText, which  *)
(* it extends: the text of a pointer says exactly which tokens it has, and *)
(* the wire format of a patch exactly which operations.                    *)
(*                                                                         *)
(* The recursive functions of PointerText are unfolded with the lemma      *)
(* RecursionHasValue; what they compute is then shown position by          *)
(* position, with ByRank.  A concatenation of parts is reasoned about      *)
(* through the positions at which its parts begin (Laid, TextLaid).        *)
(***************************************************************************)
EXTENDS PatchWire, IntervalInduction, SequenceTheorems

(***************************************************************************)
(* Concatenations                                                          *)
(***************************************************************************)

\* The concatenation of the first k parts, for each k.
Accumulates(u, parts) ==
  /\ u[0] = <<>>
  /\ \A k \in 1..Len(parts) : u[k] = u[k - 1] \o parts[k]
  /\ FlattenSeq(parts) = u[Len(parts)]

\* FlattenSeq concatenates the parts.
LEMMA FlattenUnfolds ==
  ASSUME NEW S, NEW parts \in Seq(Seq(S))
  PROVE  \E u \in [0..Len(parts) -> Seq(S)] : Accumulates(u, parts)
<1> DEFINE n == Len(parts)
           D == 1..n
           T == Seq(S)
           rank == [j \in D |-> j]
           body(f, j) == IF j = 1 THEN parts[j] ELSE f[j - 1] \o parts[j]
           G == [j \in D |-> [f \in [D -> T] |-> body(f, j)]]
           Is(f) == f = [j \in D |-> body(f, j)]
           u(f) == [j \in 0..n |-> IF j = 0 THEN <<>> ELSE f[j]]
<1>1. n \in Nat /\ n + 1 \in Nat /\ rank \in [D -> Nat] /\ \A j \in D : rank[j] < n + 1
  OBVIOUS
<1>2. parts \in [D -> T] /\ <<>> \in T /\ \A s, t \in T : s \o t \in T
  <2>1. \A s, t \in T : s \o t \in T
    BY ConcatProperties, Zenon
  <2> QED BY <2>1
<1> HIDE DEF n, T
<1>3. \A f \in [D -> T], j \in D : body(f, j) \in T
  BY <1>1, <1>2
<1>4. G \in [D -> [[D -> T] -> T]] /\ \A f \in [D -> T], j \in D : G[j][f] = body(f, j)
  BY <1>3
<1>5. LooksBack(G, D, rank, T)
  <2> SUFFICES ASSUME NEW j \in D, NEW f \in [D -> T], NEW g \in [D -> T],
                      \A k \in D : rank[k] < rank[j] => f[k] = g[k]
               PROVE  G[j][f] = G[j][g]
    BY DEF LooksBack
  <2>1. j # 1 => j - 1 \in D /\ rank[j - 1] < rank[j]
    BY <1>1
  <2>2. body(f, j) = body(g, j)
    BY <2>1
  <2> HIDE DEF G, body
  <2> QED BY <1>4, <2>2
<1>6. \E f \in [D -> T] : Computes(G, D, f)
  <2> HIDE DEF D, rank, G
  <2> QED BY <1>1, <1>2, <1>4, <1>5, RecursionHasValue, Zenon
<1>7. \E f \in [D -> T] : Is(f)
  <2>1. PICK f \in [D -> T] : Computes(G, D, f)
    BY <1>6
  <2>2. \A j \in D : f[j] = body(f, j)
    BY <1>4, <2>1 DEF Computes
  <2>3. f = [j \in D |-> body(f, j)]
    <3> HIDE DEF body, D
    <3> QED BY <2>2
  <2> HIDE DEF body, D
  <2> QED BY <2>3
<1> DEFINE w == CHOOSE f : Is(f)
<1>8. FlattenSeq(parts) = IF n = 0 THEN parts ELSE w[n]
  BY DEF FlattenSeq, n
<1>9. w = [j \in D |-> body(w, j)]
  <2>1. Is(w)
    BY <1>7
  <2> QED BY <2>1
<1> HIDE DEF w, Is
<1>10. \A j \in D : w[j] = body(w, j)
  BY <1>9
<1> DEFINE Typed == {k \in 0..n : k = 0 \/ w[k] \in T}
<1>11. 0..n \subseteq Typed
  <2>1. ASSUME NEW k \in 0..n, k \in Typed, k < n
        PROVE  k + 1 \in Typed
    <3>1. k + 1 \in D /\ k + 1 \in 0..n /\ (k + 1) - 1 = k /\ (k + 1 = 1 <=> k = 0)
      BY <1>1, <2>1
    <3>2. w[k + 1] = IF k + 1 = 1 THEN parts[k + 1] ELSE w[k] \o parts[k + 1]
      BY <1>10, <3>1
    <3>3. parts[k + 1] \in T /\ (k = 0 \/ w[k] \in T)
      BY <1>2, <2>1, <3>1
    <3> QED BY <1>2, <3>1, <3>2, <3>3
  <2>2. 0 \in Typed
    BY <1>1
  <2> HIDE DEF Typed
  <2> QED BY <1>1, <2>1, <2>2, Upwards
<1>12. u(w) \in [0..n -> T]
  BY <1>2, <1>11
<1>13. u(w)[0] = <<>> /\ \A k \in 1..n : u(w)[k] = w[k]
  BY <1>1
<1>14. ASSUME NEW k \in 1..n
       PROVE  u(w)[k] = u(w)[k - 1] \o parts[k]
  <2>1. w[k] = IF k = 1 THEN parts[k] ELSE w[k - 1] \o parts[k]
    BY <1>10
  <2>2. k = 1 \/ k - 1 \in 1..n
    BY <1>1
  <2>3. <<>> \o parts[k] = parts[k]
    <3>1. parts[k] \in T
      BY <1>2
    <3> QED BY <3>1, ConcatEmptySeq DEF T
  <2> HIDE DEF u
  <2>4. CASE k = 1
    <3>1. k - 1 = 0
      BY <2>4
    <3>2. w[k] = parts[k]
      BY <2>1, <2>4
    <3> QED BY <1>13, <2>3, <3>1, <3>2
  <2>5. CASE k # 1
    <3>1. k - 1 \in 1..n
      BY <2>2, <2>5
    <3> QED BY <1>13, <2>1, <2>5, <3>1
  <2> QED BY <2>4, <2>5
<1>15. FlattenSeq(parts) = u(w)[n]
  <2>1. CASE n = 0
    <3>1. parts = <<>>
      BY <2>1, EmptySeq DEF n
    <3> QED BY <1>8, <1>13, <2>1, <3>1
  <2>2. CASE n # 0
    <3>1. n \in 1..n
      BY <1>1, <2>2
    <3> HIDE DEF u
    <3> QED BY <1>8, <1>13, <2>2, <3>1
  <2> QED BY <2>1, <2>2
<1> HIDE DEF u
<1> QED BY <1>12, <1>13, <1>14, <1>15 DEF Accumulates, n, T

\* Part k of the concatenation F lies behind its first L[k - 1] elements.
Laid(L, parts, F) ==
  /\ L \in [0..Len(parts) -> Nat] /\ L[0] = 0 /\ L[Len(parts)] = Len(F)
  /\ \A k \in 1..Len(parts) : L[k] = L[k - 1] + Len(parts[k])
  /\ \A k \in 1..Len(parts) : \A m \in 1..Len(parts[k]) : F[L[k - 1] + m] = parts[k][m]
  /\ \A j, k \in 0..Len(parts) : j =< k => L[j] =< L[k]

\* A concatenation is laid out part after part.
LEMMA FlattenIsLaid ==
  ASSUME NEW S, NEW parts \in Seq(Seq(S))
  PROVE  /\ FlattenSeq(parts) \in Seq(S)
         /\ \E L : Laid(L, parts, FlattenSeq(parts))
<1> DEFINE n == Len(parts)
           F == FlattenSeq(parts)
<1>1. PICK u \in [0..n -> Seq(S)] : Accumulates(u, parts)
  BY FlattenUnfolds
<1> DEFINE L == [k \in 0..n |-> Len(u[k])]
<1>2. /\ n \in Nat /\ L \in [0..n -> Nat] /\ \A k \in 0..n : L[k] = Len(u[k])
      /\ \A k \in 1..n : parts[k] \in Seq(S) /\ Len(parts[k]) \in Nat
  OBVIOUS
<1> HIDE DEF n, L, F
<1>3. F = u[n] /\ u[0] = <<>> /\ \A k \in 1..n : u[k] = u[k - 1] \o parts[k]
  BY <1>1 DEF Accumulates, F, n
<1>4. F \in Seq(S) /\ L[n] = Len(F) /\ L[0] = 0 /\ 0 \in 0..n /\ n \in 0..n
  BY <1>1, <1>2, <1>3
<1>5. ASSUME NEW k \in 1..n
      PROVE  /\ L[k] = L[k - 1] + Len(parts[k])
             /\ \A m \in 1..L[k] : u[k][m] = IF m =< L[k - 1] THEN u[k - 1][m]
                                            ELSE parts[k][m - L[k - 1]]
  <2>1. k \in 0..n /\ k - 1 \in 0..n /\ u[k - 1] \in Seq(S) /\ parts[k] \in Seq(S)
    BY <1>2
  <2> DEFINE s == u[k - 1]
             t == parts[k]
  <2> HIDE DEF s, t
  <2>2. /\ Len(s \o t) = Len(s) + Len(t)
        /\ \A m \in 1..Len(s) + Len(t) : (s \o t)[m] = IF m =< Len(s) THEN s[m] ELSE t[m - Len(s)]
    BY <2>1, ConcatProperties, Zenon DEF s, t
  <2>3. u[k] = s \o t /\ L[k] = Len(u[k]) /\ L[k - 1] = Len(s)
    BY <1>2, <1>3, <2>1 DEF s, t
  <2> QED BY <2>2, <2>3 DEF s, t
\* The prefixes only grow, and keep what they have.
<1> DEFINE Kept == {k \in 0..n : \A j \in 0..k : /\ L[j] =< L[k]
                                                 /\ \A m \in 1..L[j] : u[k][m] = u[j][m]}
<1>6. 0..n \subseteq Kept
  <2>1. 0 \in Kept
    BY <1>2
  <2>2. ASSUME NEW k \in 0..n, k \in Kept, k < n
        PROVE  k + 1 \in Kept
    <3> DEFINE h == k + 1
    <3>1. h \in 1..n /\ h \in 0..n /\ h - 1 = k
      BY <1>2, <2>2
    <3> HIDE DEF h
    <3>2. L[k] \in Nat /\ L[h] \in Nat /\ Len(parts[h]) \in Nat /\ L[h] = L[k] + Len(parts[h])
      BY <1>2, <1>5, <3>1
    <3>3. ASSUME NEW m \in 1..L[k]
          PROVE  u[h][m] = u[k][m]
      <4>1. m \in 1..L[h] /\ m =< L[h - 1]
        BY <3>1, <3>2
      <4>2. u[h][m] = u[h - 1][m]
        BY <1>5, <3>1, <4>1
      <4> QED BY <3>1, <4>2
    <3>4. ASSUME NEW j \in 0..h
          PROVE  L[j] =< L[h] /\ \A m \in 1..L[j] : u[h][m] = u[j][m]
      <4>1. CASE j = h
        BY <3>2, <4>1
      <4>2. CASE j # h
        <5>1. j \in 0..k /\ j \in 0..n
          BY <1>2, <3>1, <4>2
        <5>2. L[j] =< L[k] /\ L[j] \in Nat /\ \A m \in 1..L[j] : u[k][m] = u[j][m]
          BY <1>2, <2>2, <5>1
        <5>3. \A m \in 1..L[j] : m \in 1..L[k]
          BY <3>2, <5>2
        <5> QED BY <3>2, <3>3, <5>2, <5>3
      <4> QED BY <4>1, <4>2
    <3> QED BY <3>1, <3>4 DEF h
  <2> HIDE DEF Kept
  <2> QED BY <1>2, <2>1, <2>2, Upwards
<1>7. \A j, k \in 0..n : j =< k => L[j] =< L[k]
  <2> SUFFICES ASSUME NEW j \in 0..n, NEW k \in 0..n, j =< k
               PROVE  L[j] =< L[k]
    OBVIOUS
  <2>1. k \in Kept /\ j \in 0..k
    BY <1>2, <1>6
  <2> QED BY <2>1
<1>8. ASSUME NEW k \in 1..n, NEW m \in 1..Len(parts[k])
      PROVE  F[L[k - 1] + m] = parts[k][m]
  <2> DEFINE q == L[k - 1] + m
  <2>1. k \in 0..n /\ k - 1 \in 0..n /\ k \in 0..n
    BY <1>2
  <2>2. L[k - 1] \in Nat /\ Len(parts[k]) \in Nat /\ L[k] = L[k - 1] + Len(parts[k])
    BY <1>2, <1>5, <2>1
  <2>3. q \in 1..L[k] /\ ~(q =< L[k - 1]) /\ q - L[k - 1] = m
    BY <2>2
  <2> HIDE DEF q
  <2>4. u[k][q] = parts[k][m]
    BY <1>5, <2>3
  <2>5. u[n][q] = u[k][q]
    BY <1>4, <1>6, <2>1, <2>3
  <2> QED BY <1>3, <2>4, <2>5 DEF q
<1>9. Laid(L, parts, F)
  BY <1>2, <1>4, <1>5, <1>7, <1>8 DEF Laid, n
<1> QED BY <1>4, <1>9 DEF F

\* The parts have lengths.
Sized(parts) == Len(parts) \in Nat /\ \A k \in 1..Len(parts) : Len(parts[k]) \in Nat

\* L lays out the parts in F.
Covers(L, parts, F) ==
  \A q \in 1..Len(F) : \E k \in 1..Len(parts) : \E m \in 1..Len(parts[k]) : q = L[k - 1] + m

\* Every element of it lies in some part.
LEMMA LaidCovers ==
  ASSUME NEW L, NEW parts, NEW F, Sized(parts), Laid(L, parts, F)
  PROVE  Covers(L, parts, F)
<1> SUFFICES ASSUME NEW q \in 1..Len(F)
             PROVE  \E k \in 1..Len(parts) : \E m \in 1..Len(parts[k]) : q = L[k - 1] + m
  BY DEF Covers
<1> DEFINE n == Len(parts)
           S == {k \in 0..n : q =< L[k]}
<1>0. Len(parts) \in Nat /\ \A k \in 1..Len(parts) : Len(parts[k]) \in Nat
  BY DEF Sized
<1>1. n \in Nat /\ L \in [0..n -> Nat] /\ L[0] = 0 /\ L[n] = Len(F) /\ n \in 0..n
  BY <1>0 DEF Laid
<1> HIDE DEF n
<1>2. n \in S /\ 0 \notin S /\ S \subseteq Nat
  BY <1>1
<1>3. PICK k \in S : \A j \in S : k <= j
  <2> HIDE DEF S
  <2> QED BY <1>2, LeastOfNat
<1>4. k \in 1..n /\ k - 1 \in 0..n /\ k - 1 \notin S
  BY <1>1, <1>2, <1>3
<1>5. L[k] = L[k - 1] + Len(parts[k]) /\ Len(parts[k]) \in Nat /\ L[k - 1] \in Nat
  BY <1>0, <1>1, <1>4 DEF Laid, n
<1>6. q - L[k - 1] \in 1..Len(parts[k]) /\ q = L[k - 1] + (q - L[k - 1])
  BY <1>1, <1>3, <1>4, <1>5
<1> QED BY <1>4, <1>6 DEF n

\* From position j on, the escapes of s are those of RFC 6901.
EscapesFrom(s, j) == \A q \in j..Len(s) : s[q] = "~" => q < Len(s) /\ s[q + 1] \in {"0", "1"}

\* Whether escapes are well-formed from a position on is told by the next character.
LEMMA EscapesNext ==
  ASSUME NEW s, Len(s) \in Nat, NEW j \in Nat
  PROVE  /\ j > Len(s) => EscapesFrom(s, j)
         /\ j =< Len(s) /\ s[j] # "~" => (EscapesFrom(s, j) <=> EscapesFrom(s, j + 1))
         /\ j =< Len(s) /\ s[j] = "~" =>
              (EscapesFrom(s, j) <=> /\ j < Len(s) /\ s[j + 1] \in {"0", "1"}
                                     /\ EscapesFrom(s, j + 2))
<1> DEFINE n == Len(s)
           Good(q) == s[q] = "~" => q < n /\ s[q + 1] \in {"0", "1"}
<1>0. n \in Nat
  OBVIOUS
<1>1. \A k \in Nat : EscapesFrom(s, k) <=> \A q \in k..n : Good(q)
  BY DEF EscapesFrom
<1> HIDE DEF n, Good
<1>2. j > n => EscapesFrom(s, j)
  BY <1>0, <1>1
<1>3. ASSUME NEW k \in Nat, k =< n
      PROVE  EscapesFrom(s, k) <=> Good(k) /\ EscapesFrom(s, k + 1)
  <2>1. k + 1 \in Nat /\ k..n = {k} \cup (k + 1)..n
    BY <1>0, <1>3
  <2> QED BY <1>1, <2>1
<1>4. j =< n /\ s[j] # "~" => (EscapesFrom(s, j) <=> EscapesFrom(s, j + 1))
  BY <1>3 DEF Good
<1>5. ASSUME j =< n, s[j] = "~"
      PROVE  EscapesFrom(s, j) <=> j < n /\ s[j + 1] \in {"0", "1"} /\ EscapesFrom(s, j + 2)
  <2>1. EscapesFrom(s, j) <=> j < n /\ s[j + 1] \in {"0", "1"} /\ EscapesFrom(s, j + 1)
    BY <1>3, <1>5 DEF Good
  <2>2. ASSUME j < n, s[j + 1] \in {"0", "1"}
        PROVE  EscapesFrom(s, j + 1) <=> EscapesFrom(s, j + 2)
    <3>1. j + 1 \in Nat /\ j + 1 =< n /\ (j + 1) + 1 = j + 2
      BY <1>0, <2>2
    <3>2. Good(j + 1)
      BY <2>2 DEF Good
    <3> QED BY <1>3, <3>1, <3>2
  <2> QED BY <2>1, <2>2
<1> QED BY <1>2, <1>4, <1>5 DEF n

\* The loop of validatePointerSyntax decides the grammar.
LEMMA SyntaxIsGrammar ==
  ASSUME NEW S, NEW s \in Seq(S)
  PROVE  ValidPointerSyntax(s) <=> IsPointer(s)
<1> DEFINE n == Len(s)
           D == 2..n + 2
           rank == [j \in D |-> n + 2 - j]
           body(f, j) == IF j > n THEN TRUE
                         ELSE IF s[j] # "~" THEN f[j + 1]
                         ELSE j < n /\ s[j + 1] \in {"0", "1"} /\ f[j + 2]
           G == [j \in D |-> [f \in [D -> BOOLEAN] |-> body(f, j)]]
           Is(f) == f = [j \in D |-> body(f, j)]
           v == CHOOSE f : Is(f)
<1>1. n \in Nat /\ n + 1 \in Nat /\ rank \in [D -> Nat] /\ \A j \in D : rank[j] < n + 1
  OBVIOUS
<1>2. ASSUME NEW j \in D
      PROVE  /\ j \in Nat
             /\ ~(j > n) => /\ j + 1 \in D /\ j + 2 \in D
                            /\ rank[j + 1] < rank[j] /\ rank[j + 2] < rank[j]
  BY <1>1
<1>3. ASSUME NEW f \in [D -> BOOLEAN], NEW j \in D
      PROVE  body(f, j) \in BOOLEAN
  <2>1. ~(j > n) => f[j + 1] \in BOOLEAN /\ f[j + 2] \in BOOLEAN
    BY <1>2
  <2> QED BY <2>1
<1>4. G \in [D -> [[D -> BOOLEAN] -> BOOLEAN]]
  <2> HIDE DEF D, body
  <2> QED BY <1>3
<1>5. LooksBack(G, D, rank, BOOLEAN)
  <2> SUFFICES ASSUME NEW j \in D, NEW f \in [D -> BOOLEAN], NEW g \in [D -> BOOLEAN],
                      \A k \in D : rank[k] < rank[j] => f[k] = g[k]
               PROVE  G[j][f] = G[j][g]
    BY DEF LooksBack
  <2>1. ~(j > n) => f[j + 1] = g[j + 1] /\ f[j + 2] = g[j + 2]
    BY <1>2
  <2>2. body(f, j) = body(g, j)
    BY <2>1
  <2>3. G[j][f] = body(f, j) /\ G[j][g] = body(g, j)
    <3> HIDE DEF D, body
    <3> QED OBVIOUS
  <2> QED BY <2>2, <2>3
<1>6. \E f \in [D -> BOOLEAN] : Computes(G, D, f)
  <2> HIDE DEF D, rank, G
  <2> QED BY <1>1, <1>4, <1>5, TRUE \in BOOLEAN, RecursionHasValue, Zenon
<1>7. \E f : Is(f)
  <2>1. PICK f \in [D -> BOOLEAN] : Computes(G, D, f)
    BY <1>6
  <2>2. \A j \in D : f[j] = body(f, j)
    <3> HIDE DEF D, body
    <3> QED BY <2>1 DEF Computes
  <2> HIDE DEF body, D
  <2> QED BY <2>2
<1>8. ValidPointerSyntax(s) <=> (s = <<>> \/ (s[1] = "/" /\ v[2]))
  BY DEF ValidPointerSyntax
<1>9. \A j \in D : v[j] = body(v, j)
  <2>1. Is(v)
    BY <1>7
  <2>2. v = [j \in D |-> body(v, j)]
    BY <2>1
  <2> HIDE DEF v, body, D
  <2> QED BY <2>2
<1> HIDE DEF v
<1> DEFINE Right == {j \in D : v[j] <=> EscapesFrom(s, j)}
<1>10. D \subseteq Right
  <2>1. ASSUME NEW j \in D, \A k \in D : rank[k] < rank[j] => k \in Right
        PROVE  j \in Right
    <3>0. /\ j \in Nat
          /\ j > n => EscapesFrom(s, j)
          /\ j =< n /\ s[j] # "~" => (EscapesFrom(s, j) <=> EscapesFrom(s, j + 1))
          /\ j =< n /\ s[j] = "~" => (EscapesFrom(s, j) <=> /\ j < n /\ s[j + 1] \in {"0", "1"}
                                                             /\ EscapesFrom(s, j + 2))
      BY <1>1, <1>2, EscapesNext
    <3>1. CASE j > n
      <4>1. v[j] = TRUE
        BY <1>9, <3>1
      <4> QED BY <3>0, <3>1, <4>1
    <3>2. CASE ~(j > n) /\ s[j] # "~"
      <4>1. v[j] = v[j + 1]
        BY <1>9, <3>2
      <4>2. j + 1 \in Right
        BY <1>2, <2>1, <3>2
      <4>3. j =< n
        BY <1>1, <1>2, <3>2
      <4> QED BY <3>0, <3>2, <4>1, <4>2, <4>3
    <3>3. CASE ~(j > n) /\ s[j] = "~"
      <4>1. v[j] = (j < n /\ s[j + 1] \in {"0", "1"} /\ v[j + 2])
        BY <1>9, <3>3
      <4>2. j + 2 \in Right
        BY <1>2, <2>1, <3>3
      <4>3. j =< n
        BY <1>1, <1>2, <3>3
      <4> QED BY <3>0, <3>3, <4>1, <4>2, <4>3
    <3> QED BY <3>1, <3>2, <3>3
  <2> HIDE DEF D, rank, Right
  <2> QED BY <1>1, <2>1, ByRank
<1>11. v[2] <=> EscapesFrom(s, 2)
  BY <1>1, <1>10
<1>12. CASE s = <<>>
  BY <1>8, <1>12 DEF IsPointer
<1>13. CASE s # <<>>
  <2>1. 1 =< n /\ 1 \in Nat
    BY <1>13
  <2>2. s[1] = "/" => (EscapesFrom(s, 1) <=> EscapesFrom(s, 1 + 1))
    BY <1>1, <2>1, EscapesNext
  <2>3. IsPointer(s) <=> s[1] = "/" /\ EscapesFrom(s, 1)
    BY <1>13 DEF IsPointer, EscapesFrom
  <2> QED BY <1>8, <1>11, <1>13, <2>2, <2>3
<1> QED BY <1>12, <1>13

(***************************************************************************)
(* Numbers                                                                 *)
(***************************************************************************)

\* Dividing by ten takes off the last digit.
LEMMA DivMod ==
  ASSUME NEW k \in Nat
  PROVE  /\ k \div 10 \in Nat /\ k % 10 \in 0..9 /\ k = 10 * (k \div 10) + (k % 10)
         /\ k >= 10 => k \div 10 >= 1 /\ k \div 10 < k
OBVIOUS

\* What is known of the digits.
LEMMA DigitFacts ==
  /\ \A d \in 0..9 : DigitChar(d) \in Digits /\ DigitValue(DigitChar(d)) = d
                     /\ (DigitChar(d) = "0" <=> d = 0)
  /\ \A c \in Digits : DigitValue(c) \in 0..9 /\ c \notin {" ", "+", "-", "~", "/"}
<1>1. /\ DigitChar(0) = "0" /\ DigitChar(1) = "1" /\ DigitChar(2) = "2" /\ DigitChar(3) = "3"
      /\ DigitChar(4) = "4" /\ DigitChar(5) = "5" /\ DigitChar(6) = "6" /\ DigitChar(7) = "7"
      /\ DigitChar(8) = "8" /\ DigitChar(9) = "9"
  BY DEF DigitChar
<1>2. \A d \in 0..9 : d \in {0, 1, 2, 3, 4, 5, 6, 7, 8, 9}
  OBVIOUS
<1>3. \A d, e \in 0..9 : DigitChar(d) = DigitChar(e) => d = e
  BY <1>1, <1>2
<1>4. ASSUME NEW d \in 0..9
      PROVE  DigitChar(d) \in Digits /\ DigitValue(DigitChar(d)) = d
  <2>1. DigitChar(d) \in Digits
    BY DEF Digits
  <2>2. DigitValue(DigitChar(d)) = d
    BY <1>3 DEF DigitValue
  <2> QED BY <2>1, <2>2
<1>5. ASSUME NEW d \in 0..9
      PROVE  DigitChar(d) = "0" <=> d = 0
  BY <1>1, <1>2
<1>6. ASSUME NEW c \in Digits
      PROVE  DigitValue(c) \in 0..9 /\ c \notin {" ", "+", "-", "~", "/"}
  <2>1. PICK d \in 0..9 : c = DigitChar(d)
    BY DEF Digits
  <2>2. DigitValue(c) \in 0..9
    BY <1>4, <2>1
  <2>3. c \in {"0", "1", "2", "3", "4", "5", "6", "7", "8", "9"}
    BY <1>1, <1>2, <2>1
  <2>5. c \notin {" ", "+", "-", "~", "/"}
    BY <2>3
  <2> QED BY <2>2, <2>5
<1> QED BY <1>4, <1>5, <1>6

\* The numbers that the first k digits stand for, for each k.
Sums(v, digits) ==
  /\ v[0] = 0
  /\ \A k \in 1..Len(digits) : v[k] = 10 * v[k - 1] + DigitValue(digits[k])
  /\ Magnitude(digits) = v[Len(digits)]

\* The magnitude of a run of digits is summed up digit by digit.
LEMMA MagnitudeUnfolds ==
  ASSUME NEW digits \in Seq(Digits)
  PROVE  \E v \in [0..Len(digits) -> Nat] : Sums(v, digits)
<1> DEFINE n == Len(digits)
           D == 0..n
           rank == [j \in D |-> j]
           body(f, j) == IF j = 0 THEN 0 ELSE 10 * f[j - 1] + DigitValue(digits[j])
           G == [j \in D |-> [f \in [D -> Nat] |-> body(f, j)]]
           Is(f) == f = [j \in D |-> body(f, j)]
           v == CHOOSE f : Is(f)
<1>1. n \in Nat /\ n + 1 \in Nat /\ rank \in [D -> Nat] /\ \A j \in D : rank[j] < n + 1
  OBVIOUS
<1>2. ASSUME NEW j \in D, j # 0
      PROVE  j - 1 \in D /\ rank[j - 1] < rank[j] /\ DigitValue(digits[j]) \in Nat
  <2>1. j \in 1..n
    BY <1>2
  <2>2. digits[j] \in Digits
    BY <2>1
  <2>3. DigitValue(digits[j]) \in 0..9
    BY <2>2, DigitFacts
  <2> QED BY <1>1, <2>1, <2>3
<1>3. ASSUME NEW f \in [D -> Nat], NEW j \in D
      PROVE  body(f, j) \in Nat
  <2>1. CASE j # 0
    <3> DEFINE x == f[j - 1]
               y == DigitValue(digits[j])
    <3>1. x \in Nat /\ y \in Nat
      BY <1>2, <2>1
    <3>2. body(f, j) = 10 * x + y
      BY <2>1
    <3> HIDE DEF x, y, body
    <3> QED BY <3>1, <3>2
  <2> QED BY <2>1
<1>4. G \in [D -> [[D -> Nat] -> Nat]]
  <2> HIDE DEF D, body
  <2> QED BY <1>3
<1>5. LooksBack(G, D, rank, Nat)
  <2> SUFFICES ASSUME NEW j \in D, NEW f \in [D -> Nat], NEW g \in [D -> Nat],
                      \A k \in D : rank[k] < rank[j] => f[k] = g[k]
               PROVE  G[j][f] = G[j][g]
    BY DEF LooksBack
  <2>1. j # 0 => f[j - 1] = g[j - 1]
    BY <1>2
  <2>2. body(f, j) = body(g, j)
    BY <2>1
  <2>3. G[j][f] = body(f, j) /\ G[j][g] = body(g, j)
    <3> HIDE DEF D, body
    <3> QED OBVIOUS
  <2> QED BY <2>2, <2>3
<1>6. \E f \in [D -> Nat] : Computes(G, D, f)
  <2> HIDE DEF D, rank, G
  <2> QED BY <1>1, <1>4, <1>5, 0 \in Nat, RecursionHasValue, Zenon
<1>7. \E f : f \in [D -> Nat] /\ Is(f)
  <2>1. PICK f \in [D -> Nat] : Computes(G, D, f)
    BY <1>6
  <2>2. \A j \in D : f[j] = body(f, j)
    <3> HIDE DEF D, body
    <3> QED BY <2>1 DEF Computes
  <2> HIDE DEF body, D
  <2> QED BY <2>2
<1>8. Magnitude(digits) = v[n]
  BY DEF Magnitude
<1>9. v = [j \in D |-> body(v, j)]
  <2>1. Is(v)
    BY <1>7
  <2> QED BY <2>1
<1> HIDE DEF v
<1>10. \A j \in D : v[j] = body(v, j)
  <2> HIDE DEF D, body
  <2> QED BY <1>9
<1>11. D \subseteq {k \in D : v[k] \in Nat}
  <2> DEFINE T == {k \in D : v[k] \in Nat}
  <2>1. 0 \in T
    BY <1>1, <1>10
  <2>2. ASSUME NEW k \in 0..n, k \in T, k < n
        PROVE  k + 1 \in T
    <3> DEFINE h == k + 1
    <3>1. h \in D /\ h # 0 /\ h - 1 = k
      BY <1>1, <2>2
    <3> HIDE DEF h
    <3>2. v[h] = 10 * v[k] + DigitValue(digits[h]) /\ v[k] \in Nat /\ DigitValue(digits[h]) \in Nat
      BY <1>2, <1>10, <2>2, <3>1
    <3> DEFINE x == v[k]
               y == DigitValue(digits[h])
    <3> HIDE DEF x, y
    <3>3. 10 * x + y \in Nat
      BY <3>2 DEF x, y
    <3> QED BY <3>1, <3>2, <3>3 DEF h, x, y
  <2> HIDE DEF T
  <2>3. 0..n \subseteq T
    BY <1>1, <2>1, <2>2, Upwards
  <2> QED BY <2>3 DEF T
<1>12. v \in [D -> Nat]
  <2> HIDE DEF body
  <2> QED BY <1>9, <1>11
<1>13. v[0] = 0
  BY <1>1, <1>10
<1>14. \A k \in 1..n : v[k] = 10 * v[k - 1] + DigitValue(digits[k])
  BY <1>1, <1>10
<1> QED BY <1>8, <1>12, <1>13, <1>14 DEF Sums

\* A further digit counts one, the digits before it ten.
LEMMA MagnitudeAppends ==
  ASSUME NEW digits \in Seq(Digits), NEW c \in Digits
  PROVE  /\ Magnitude(digits) \in Nat
         /\ Magnitude(digits \o <<c>>) = 10 * Magnitude(digits) + DigitValue(c)
         /\ Magnitude(<<c>>) = DigitValue(c)
<1> DEFINE n == Len(digits)
           single == <<c>>
<1>0. n \in Nat /\ single \in Seq(Digits) /\ Len(single) = 1 /\ single[1] = c
  OBVIOUS
<1> HIDE DEF single
<1> DEFINE longer == digits \o single
<1>1. /\ longer \in Seq(Digits) /\ Len(longer) = n + Len(single)
      /\ \A k \in 1..n + Len(single) :
           longer[k] = IF k =< n THEN digits[k] ELSE single[k - n]
  BY <1>0, ConcatProperties, Zenon
<1>2. PICK v \in [0..n -> Nat] : Sums(v, digits)
  BY MagnitudeUnfolds
<1>3. PICK w \in [0..Len(longer) -> Nat] : Sums(w, longer)
  BY <1>1, MagnitudeUnfolds
<1> HIDE DEF n, longer
<1>4. Len(longer) = n + 1 /\ longer[n + 1] = c /\ \A k \in 1..n : longer[k] = digits[k]
  BY <1>0, <1>1
<1>5. /\ v[0] = 0 /\ w[0] = 0 /\ Magnitude(digits) = v[n] /\ Magnitude(longer) = w[n + 1]
      /\ \A k \in 1..n : v[k] = 10 * v[k - 1] + DigitValue(digits[k])
      /\ \A k \in 1..n + 1 : w[k] = 10 * w[k - 1] + DigitValue(longer[k])
  BY <1>2, <1>3, <1>4 DEF Sums, n
<1> DEFINE Same == {k \in 0..n : v[k] = w[k]}
<1>6. 0..n \subseteq Same
  <2>1. 0 \in Same
    BY <1>0, <1>5
  <2>2. ASSUME NEW k \in 0..n, k \in Same, k < n
        PROVE  k + 1 \in Same
    <3> DEFINE h == k + 1
    <3>1. h \in 1..n /\ h \in 1..n + 1 /\ h \in 0..n /\ h - 1 = k
      BY <1>0, <2>2
    <3> HIDE DEF h
    <3>2. v[h] = 10 * v[k] + DigitValue(digits[h]) /\ w[h] = 10 * w[k] + DigitValue(digits[h])
      BY <1>4, <1>5, <3>1
    <3> QED BY <2>2, <3>1, <3>2 DEF h
  <2> HIDE DEF Same
  <2> QED BY <1>0, <2>1, <2>2, Upwards
<1>7. v[n] = w[n] /\ w[n + 1] = 10 * w[n] + DigitValue(c) /\ v[n] \in Nat
  <2>1. n \in 0..n /\ n + 1 \in 1..n + 1 /\ (n + 1) - 1 = n
    BY <1>0
  <2>2. v[n] = w[n]
    BY <1>6, <2>1
  <2>3. w[n + 1] = 10 * w[n] + DigitValue(c)
    BY <1>4, <1>5, <2>1
  <2> QED BY <1>2, <2>1, <2>2, <2>3
<1>8. Magnitude(single) = DigitValue(c)
  <2>1. PICK u \in [0..1 -> Nat] : Sums(u, single)
    BY <1>0, MagnitudeUnfolds
  <2>2. 1 \in 1..1 /\ 1 - 1 = 0 /\ DigitValue(c) \in Nat
    <3>1. DigitValue(c) \in 0..9
      BY DigitFacts
    <3> QED BY <3>1
  <2>3. u[0] = 0 /\ u[1] = 10 * u[0] + DigitValue(c) /\ Magnitude(single) = u[1]
    BY <1>0, <2>1, <2>2 DEF Sums
  <2> QED BY <2>2, <2>3
<1> QED BY <1>5, <1>7, <1>8 DEF longer, single

\* The digits of a number, first of all not "0".
IsText(t, n) ==
  /\ t \in Seq(Digits) /\ t # <<>> /\ Magnitude(t) = n
  /\ IF n = 0 THEN t = <<"0">> ELSE t[1] # "0"

\* QString::number writes a natural number as digits that read back as the number.
LEMMA NaturalTextIsText ==
  ASSUME NEW n \in Nat
  PROVE  IsText(NaturalText(n), n)
<1> DEFINE D == 0..n
           T == Seq(Digits)
           rank == [j \in D |-> j]
           body(f, k) == IF k < 10 THEN <<DigitChar(k)>> ELSE f[k \div 10] \o <<DigitChar(k % 10)>>
           G == [k \in D |-> [f \in [D -> T] |-> body(f, k)]]
           Is(f) == f = [k \in D |-> body(f, k)]
           v == CHOOSE f : Is(f)
<1>1. n \in Nat /\ n + 1 \in Nat /\ rank \in [D -> Nat] /\ \A j \in D : rank[j] < n + 1
  OBVIOUS
<1>2. ASSUME NEW k \in D
      PROVE  /\ k \in Nat
             /\ k < 10 => k \in 0..9
             /\ ~(k < 10) => k \div 10 \in D /\ rank[k \div 10] < rank[k] /\ k \div 10 # 0
             /\ k % 10 \in 0..9 /\ k = 10 * (k \div 10) + (k % 10)
  <2>1. k \in Nat
    OBVIOUS
  <2> DEFINE a == k \div 10
             b == k % 10
  <2>2. a \in Nat /\ b \in 0..9 /\ k = 10 * a + b /\ (k >= 10 => a >= 1 /\ a < k)
    BY <2>1, DivMod
  <2> HIDE DEF a, b
  <2>3. ~(k < 10) => a \in D /\ rank[a] < rank[k] /\ a # 0
    BY <2>1, <2>2
  <2>4. k < 10 => k \in 0..9
    BY <2>1
  <2> QED BY <2>1, <2>2, <2>3, <2>4 DEF a, b
<1>3. ASSUME NEW d \in 0..9
      PROVE  <<DigitChar(d)>> \in T
  <2>1. DigitChar(d) \in Digits
    BY DigitFacts
  <2> QED BY <2>1
<1>4. ASSUME NEW f \in [D -> T], NEW k \in D
      PROVE  body(f, k) \in T
  <2>1. CASE k < 10
    BY <1>2, <1>3, <2>1
  <2>2. CASE ~(k < 10)
    <3>1. f[k \div 10] \in T /\ <<DigitChar(k % 10)>> \in T
      BY <1>2, <1>3, <2>2
    <3>2. f[k \div 10] \o <<DigitChar(k % 10)>> \in T
      BY <3>1, ConcatProperties, Zenon
    <3> QED BY <2>2, <3>2
  <2> QED BY <2>1, <2>2
<1> HIDE DEF T
<1>5. G \in [D -> [[D -> T] -> T]]
  <2> HIDE DEF D, body
  <2> QED BY <1>4
<1>6. LooksBack(G, D, rank, T)
  <2> SUFFICES ASSUME NEW j \in D, NEW f \in [D -> T], NEW g \in [D -> T],
                      \A k \in D : rank[k] < rank[j] => f[k] = g[k]
               PROVE  G[j][f] = G[j][g]
    BY DEF LooksBack
  <2>1. ~(j < 10) => f[j \div 10] = g[j \div 10]
    BY <1>2
  <2>2. body(f, j) = body(g, j)
    BY <2>1
  <2>3. G[j][f] = body(f, j) /\ G[j][g] = body(g, j)
    <3> HIDE DEF D, body
    <3> QED OBVIOUS
  <2> QED BY <2>2, <2>3
<1>7. \E f \in [D -> T] : Computes(G, D, f)
  <2>1. <<DigitChar(0)>> \in T
    BY <1>3
  <2> HIDE DEF D, rank, G
  <2> QED BY <1>1, <1>5, <1>6, <2>1, RecursionHasValue, Zenon
<1>8. \E f : Is(f)
  <2>1. PICK f \in [D -> T] : Computes(G, D, f)
    BY <1>7
  <2>2. \A j \in D : f[j] = body(f, j)
    <3> HIDE DEF D, body
    <3> QED BY <2>1 DEF Computes
  <2> HIDE DEF body, D
  <2> QED BY <2>2
<1>9. NaturalText(n) = v[n]
  BY DEF NaturalText
<1>10. \A k \in D : v[k] = body(v, k)
  <2>1. Is(v)
    BY <1>8
  <2>2. v = [k \in D |-> body(v, k)]
    BY <2>1
  <2> HIDE DEF v, body, D
  <2> QED BY <2>2
<1> HIDE DEF v
<1> DEFINE Right == {k \in D : IsText(v[k], k)}
<1>11. ASSUME NEW k \in D, \A j \in D : rank[j] < rank[k] => j \in Right
       PROVE  k \in Right
  <2>1. CASE k < 10
    <3> DEFINE c == DigitChar(k)
    <3>1. c \in Digits /\ DigitValue(c) = k /\ (c = "0" <=> k = 0)
      BY <1>2, <2>1, DigitFacts
    <3>2. v[k] = <<c>>
      BY <1>10, <2>1
    <3> HIDE DEF c
    <3>3. Magnitude(<<c>>) = k
      <4>1. <<>> \in Seq(Digits)
        OBVIOUS
      <4> QED BY <3>1, <4>1, MagnitudeAppends
    <3>4. <<c>> \in Seq(Digits) /\ <<c>> # <<>> /\ <<c>>[1] = c
      BY <3>1
    <3>5. IsText(<<c>>, k)
      BY <3>1, <3>3, <3>4 DEF IsText
    <3> QED BY <3>2, <3>5
  <2>2. CASE ~(k < 10)
    <3> DEFINE a == k \div 10
               b == k % 10
               c == DigitChar(b)
               t == v[a]
    <3>1. c \in Digits /\ DigitValue(c) = b
      BY <1>2, DigitFacts
    <3>2. IsText(t, a) /\ a # 0
      BY <1>2, <1>11, <2>2
    <3>3. v[k] = t \o <<c>> /\ k = 10 * a + b
      BY <1>2, <1>10, <2>2
    <3> HIDE DEF a, b, c, t
    <3>4. t \in Seq(Digits) /\ t # <<>> /\ Magnitude(t) = a /\ t[1] # "0"
      BY <3>2 DEF IsText
    <3>5. Magnitude(t \o <<c>>) = k
      BY <3>1, <3>3, <3>4, MagnitudeAppends
    <3>6. t \o <<c>> \in Seq(Digits) /\ t \o <<c>> # <<>> /\ (t \o <<c>>)[1] = t[1]
      <4> DEFINE single == <<c>>
      <4>1. single \in Seq(Digits) /\ Len(single) = 1
        BY <3>1
      <4> HIDE DEF single
      <4>2. /\ t \o single \in Seq(Digits)
            /\ Len(t \o single) = Len(t) + Len(single)
            /\ \A m \in 1..Len(t) + Len(single) :
                 (t \o single)[m] = IF m =< Len(t) THEN t[m] ELSE single[m - Len(t)]
        BY <3>4, <4>1, ConcatProperties, Zenon
      <4>3. Len(t) \in Nat /\ Len(t) >= 1
        BY <3>4
      <4>4. 1 \in 1..Len(t) + Len(single) /\ 1 =< Len(t)
        BY <4>1, <4>3
      <4> DEFINE w == t \o single
      <4> HIDE DEF w
      <4>5. w \in Seq(Digits) /\ Len(w) = Len(t) + Len(single) /\ w[1] = t[1]
        BY <4>2, <4>4 DEF w
      <4>6. w # <<>>
        BY <4>1, <4>3, <4>5
      <4> QED BY <4>5, <4>6 DEF w, single
    <3>7. k # 0
      BY <1>2, <2>2
    <3>8. IsText(t \o <<c>>, k)
      BY <3>4, <3>5, <3>6, <3>7 DEF IsText
    <3> QED BY <3>3, <3>8
  <2> QED BY <2>1, <2>2
<1>12. D \subseteq Right
  <2> HIDE DEF D, rank, Right
  <2> QED BY <1>1, <1>11, ByRank
<1>13. n \in D
  OBVIOUS
<1> QED BY <1>9, <1>12, <1>13

\* A set of naturals up to n has a greatest element, and Max is it.
LEMMA MaxUpto ==
  ASSUME NEW n \in Nat, NEW S, S \subseteq 0..n, S # {}
  PROVE  Max(S) \in S /\ \A x \in S : x <= Max(S)
<1> DEFINE Mirror == {n - x : x \in S}
<1>0. \A x \in S : x \in Nat /\ n - x \in Nat
  OBVIOUS
<1>1. Mirror \subseteq Nat /\ Mirror # {}
  BY <1>0
<1>2. PICK m \in Mirror : \A x \in Mirror : m <= x
  <2> HIDE DEF Mirror
  <2> QED BY <1>1, LeastOfNat
<1>3. PICK x \in S : m = n - x
  OBVIOUS
<1>4. \A y \in S : x >= y
  <2> SUFFICES ASSUME NEW y \in S PROVE x >= y
    OBVIOUS
  <2>1. n - y \in Mirror
    OBVIOUS
  <2>2. m <= n - y /\ x \in Nat /\ y \in Nat
    BY <1>2, <2>1
  <2> QED BY <1>3, <2>2
<1>5. Max(S) \in S /\ \A y \in S : Max(S) >= y
  BY <1>4 DEF Max
<1> DEFINE top == Max(S)
<1>6. top \in Nat /\ top \in S /\ \A y \in S : top >= y
  BY <1>0, <1>5
<1> HIDE DEF top
<1>7. \A y \in S : y <= top
  BY <1>0, <1>6
<1> QED BY <1>6, <1>7 DEF top

\* Blanks are cut off on both sides.
LEMMA TrimmedFacts ==
  ASSUME NEW S, NEW s \in Seq(S)
  PROVE  /\ Trimmed(s) \in Seq(S)
         /\ s # <<>> /\ s[1] # " " /\ s[Len(s)] # " " => Trimmed(s) = s
<1> DEFINE n == Len(s)
           solid == {j \in 1..n : s[j] # " "}
           a == Min(solid)
           b == Max(solid)
<1>0. n \in Nat /\ (s # <<>> => n >= 1) /\ <<>> \in Seq(S)
  BY EmptySeq
<1>1. n \in Nat /\ solid \subseteq Nat /\ solid \subseteq 0..n /\ solid \subseteq 1..n
  <2>1. solid \subseteq 1..n
    BY Zenon
  <2> HIDE DEF solid, n
  <2> QED BY <1>0, <2>1
<1>2. Trimmed(s) = IF solid = {} THEN <<>> ELSE SubSeq(s, a, b)
  BY DEF Trimmed
<1>3. solid # {} => /\ a \in solid /\ \A x \in solid : a <= x
                    /\ b \in solid /\ \A x \in solid : x <= b
  <2>1. ASSUME solid # {}
        PROVE  a \in solid /\ \A x \in solid : a <= x
    <3> HIDE DEF solid
    <3> QED BY <1>1, <2>1, LeastOfNat DEF Min
  <2>2. ASSUME solid # {}
        PROVE  b \in solid /\ \A x \in solid : x <= b
    <3> HIDE DEF solid
    <3> QED BY <1>1, <2>2, MaxUpto
  <2> QED BY <2>1, <2>2
<1> HIDE DEF a, b
<1>4. Trimmed(s) \in Seq(S)
  <2>1. CASE solid = {}
    BY <1>0, <1>2, <2>1
  <2>2. CASE solid # {}
    <3>1. a \in 1..n /\ b \in 1..n
      BY <1>3, <2>2
    <3>2. \A k \in a..b : s[k] \in S
      BY <3>1
    <3>3. SubSeq(s, a, b) \in Seq(S)
      BY <3>1, <3>2, SubSeqProperties
    <3> QED BY <1>2, <2>2, <3>3
  <2> QED BY <2>1, <2>2
<1>5. ASSUME s # <<>>, s[1] # " ", s[n] # " "
      PROVE  Trimmed(s) = s
  <2>1. n >= 1 /\ 1 \in 1..n /\ n \in 1..n
    <3>1. n \in Nat /\ n >= 1
      BY <1>0, <1>5
    <3> HIDE DEF n
    <3> QED BY <3>1
  <2>2. 1 \in solid /\ n \in solid
    BY <1>5, <2>1
  <2>3. a <= 1 /\ n <= b /\ a \in 1..n /\ b \in 1..n
    BY <1>3, <2>2
  <2>4. a = 1 /\ b = n
    <3> HIDE DEF n, solid
    <3> QED BY <1>1, <2>3
  <2>5. SubSeq(s, 1, n) = s
    BY SubSeqFull
  <2> QED BY <1>2, <2>2, <2>4, <2>5
<1> QED BY <1>4, <1>5

\* What toLongLong returns.
LEMMA LongLongFacts ==
  ASSUME NEW S, NEW s \in Seq(S)
  PROVE  \/ ToLongLong(s) = NotANumber
         \/ ToLongLong(s).ok = TRUE /\ ToLongLong(s).value \in -LongLongMax..LongLongMax
<1> DEFINE t == Trimmed(s)
           signed == t # <<>> /\ Head(t) \in {"+", "-"}
           digits == IF signed THEN Tail(t) ELSE t
           x == Magnitude(digits)
<1>1. ToLongLong(s) = IF digits = <<>> \/ ~(ToSet(digits) \subseteq Digits) THEN NotANumber
                      ELSE IF x > LongLongMax THEN NotANumber
                      ELSE [ok |-> TRUE, value |-> IF t[1] = "-" THEN -x ELSE x]
  BY DEF ToLongLong
<1>2. t \in Seq(S)
  BY TrimmedFacts
<1> HIDE DEF t
<1>3. digits \in Seq(S)
  <2>1. t # <<>> => Tail(t) \in Seq(S)
    BY <1>2, HeadTailProperties
  <2> QED BY <1>2, <2>1
<1> HIDE DEF digits
<1>4. ASSUME ToSet(digits) \subseteq Digits
      PROVE  x \in Nat
  <2>1. \A k \in 1..Len(digits) : digits[k] \in Digits
    BY <1>3, <1>4 DEF ToSet
  <2>2. digits \in Seq(Digits)
    BY <1>3, <2>1
  <2>3. "0" \in Digits
    <3>1. DigitChar(0) = "0"
      BY DEF DigitChar
    <3> QED BY <3>1 DEF Digits
  <2> QED BY <2>2, <2>3, MagnitudeAppends
<1> HIDE DEF x
<1>5. CASE ToSet(digits) \subseteq Digits /\ ~(digits = <<>>) /\ ~(x > LongLongMax)
  <2>1. x \in 0..LongLongMax /\ -x \in -LongLongMax..LongLongMax /\ x \in -LongLongMax..LongLongMax
    BY <1>4, <1>5, LongLongMaxAssumption
  <2>2. ToLongLong(s) = [ok |-> TRUE, value |-> IF t[1] = "-" THEN -x ELSE x]
    BY <1>1, <1>5
  <2> QED BY <2>1, <2>2
<1> QED BY <1>1, <1>5

\* What parseArrayIndex returns.
LEMMA IndexFacts ==
  ASSUME NEW S, NEW s \in Seq(S)
  PROVE  \/ ParseArrayIndex(s).ok = FALSE
         \/ ParseArrayIndex(s).ok = TRUE /\ ParseArrayIndex(s).value \in 0..LongLongMax
<1> DEFINE r == ToLongLong(s)
<1>1. \/ r = NotANumber
      \/ r.ok = TRUE /\ r.value \in -LongLongMax..LongLongMax
  BY LongLongFacts
<1>2. NotANumber.ok = FALSE /\ NotANumber.value = 0
  BY DEF NotANumber
<1> HIDE DEF r
<1>3. \/ ParseArrayIndex(s) = NotANumber
      \/ ParseArrayIndex(s) = [ok |-> TRUE, value |-> 0]
      \/ ParseArrayIndex(s) = r /\ ~(r.value < 0)
  BY DEF ParseArrayIndex, r
<1>4. CASE ParseArrayIndex(s) = r /\ ~(r.value < 0)
  <2>1. CASE r = NotANumber
    BY <1>2, <1>4, <2>1
  <2>2. CASE r.ok = TRUE /\ r.value \in -LongLongMax..LongLongMax
    <3>1. r.value \in 0..LongLongMax
      BY <1>4, <2>2, LongLongMaxAssumption
    <3> QED BY <1>4, <2>2, <3>1
  <2> QED BY <1>1, <2>1, <2>2
<1>5. 0 \in 0..LongLongMax
  BY LongLongMaxAssumption
<1>6. ParseArrayIndex(s) = NotANumber => ParseArrayIndex(s).ok = FALSE
  BY <1>2
<1>7. ParseArrayIndex(s) = [ok |-> TRUE, value |-> 0] =>
        ParseArrayIndex(s).ok = TRUE /\ ParseArrayIndex(s).value \in 0..LongLongMax
  BY <1>5
<1> QED BY <1>3, <1>4, <1>6, <1>7

\* An index is read back from its text.
LEMMA IndexReadBack ==
  ASSUME NEW n \in 0..LongLongMax
  PROVE  ParseArrayIndex(NaturalText(n)) = [ok |-> TRUE, value |-> n]
<1> DEFINE s == NaturalText(n)
<1>1. n \in Nat /\ LongLongMax \in Nat /\ n <= LongLongMax
  BY LongLongMaxAssumption
<1>2. /\ s \in Seq(Digits) /\ s # <<>> /\ Magnitude(s) = n
      /\ IF n = 0 THEN s = <<"0">> ELSE s[1] # "0"
  BY <1>1, NaturalTextIsText DEF IsText
<1> HIDE DEF s
<1>3. CASE n = 0
  <2>1. s # <<>> /\ s = <<"0">> /\ ~(Len(s) > 1)
    <3>1. s = <<"0">>
      BY <1>2, <1>3
    <3>2. Len(<<"0">>) = 1 /\ ~(1 > 1)
      OBVIOUS
    <3> QED BY <1>2, <3>1, <3>2
  <2> QED BY <1>3, <2>1 DEF ParseArrayIndex, s
<1>4. CASE n # 0
  <2>1. Len(s) \in Nat /\ Len(s) >= 1 /\ s[1] \in Digits /\ s[Len(s)] \in Digits /\ s[1] # "0"
    BY <1>2, <1>4
  <2>2. /\ s[1] # " " /\ s[Len(s)] # " " /\ s[1] \notin {"+", "-"}
    BY <2>1, DigitFacts
  <2>3. Trimmed(s) = s
    BY <1>2, <2>2, TrimmedFacts
  <2>4. ToSet(s) \subseteq Digits /\ Head(s) = s[1]
    BY <1>2 DEF ToSet
  <2>5. ToLongLong(s) = [ok |-> TRUE, value |-> n]
    <3>1. ~(n > LongLongMax)
      BY <1>1
    <3>2. ~(s # <<>> /\ Head(s) \in {"+", "-"})
      BY <2>2, <2>4
    <3> QED BY <1>2, <2>2, <2>3, <2>4, <3>1, <3>2 DEF ToLongLong
  <2>6. s # <<"0">>
    BY <2>1
  <2>7. ParseArrayIndex(s) = IF ToLongLong(s).value < 0 THEN NotANumber ELSE ToLongLong(s)
    BY <1>2, <2>1, <2>6 DEF ParseArrayIndex
  <2>8. ~([ok |-> TRUE, value |-> n].value < 0)
    BY <1>1
  <2> QED BY <2>5, <2>7, <2>8 DEF s
<1> QED BY <1>3, <1>4

\* The text of a negative number is no index.
LEMMA NegativeIsKey ==
  ASSUME NEW n \in Int, n < 0
  PROVE  ParseArrayIndex(NumberText(n)).ok = FALSE
<1> DEFINE m == -n
           t == NaturalText(m)
           minus == <<"-">>
<1>1. m \in Nat /\ m # 0 /\ NumberText(n) = minus \o t /\ LongLongMax \in Nat
  BY LongLongMaxAssumption DEF NumberText
<1>2. t \in Seq(Digits) /\ t # <<>> /\ Magnitude(t) = m
  BY <1>1, NaturalTextIsText DEF IsText
<1> DEFINE S == Digits \cup {"-"}
<1>3. t \in Seq(S) /\ minus \in Seq(S) /\ Len(minus) = 1 /\ minus[1] = "-"
  BY <1>2, SeqMonotonic
<1> HIDE DEF t, minus, S
<1> DEFINE s == minus \o t
<1>4. /\ s \in Seq(S) /\ Len(s) = Len(minus) + Len(t)
      /\ \A k \in 1..Len(minus) + Len(t) :
           s[k] = IF k =< Len(minus) THEN minus[k] ELSE t[k - Len(minus)]
  BY <1>3, ConcatProperties, Zenon
<1> HIDE DEF s
<1>5. /\ Len(t) \in Nat /\ Len(t) >= 1 /\ Len(s) = 1 + Len(t) /\ s[1] = "-"
      /\ s # <<>> /\ \A k \in 1..Len(t) : s[k + 1] = t[k]
  <2>1. Len(t) \in Nat /\ Len(t) >= 1
    BY <1>2
  <2>2. Len(s) = 1 + Len(t) /\ 1 \in 1..Len(minus) + Len(t)
    BY <1>3, <1>4, <2>1
  <2>3. s[1] = "-"
    BY <1>3, <1>4, <2>2
  <2>4. \A k \in 1..Len(t) : /\ k + 1 \in 1..Len(minus) + Len(t)
                             /\ ~(k + 1 =< Len(minus)) /\ (k + 1) - Len(minus) = k
    BY <1>3, <2>1
  <2>5. \A k \in 1..Len(t) : s[k + 1] = t[k]
    BY <1>4, <2>4
  <2>6. s # <<>>
    BY <2>1, <2>2
  <2> QED BY <2>1, <2>2, <2>3, <2>5, <2>6
<1>6. Tail(s) = t
  <2>1. /\ Tail(s) \in Seq(S) /\ Len(Tail(s)) = Len(t)
        /\ \A k \in 1..Len(Tail(s)) : Tail(s)[k] = s[k + 1]
    <3>1. /\ Tail(s) \in Seq(S) /\ Len(Tail(s)) = Len(s) - 1
          /\ \A k \in 1..Len(Tail(s)) : Tail(s)[k] = s[k + 1]
      BY <1>4, <1>5, HeadTailProperties
    <3> QED BY <1>5, <3>1
  <2>2. \A k \in 1..Len(t) : Tail(s)[k] = t[k]
    BY <1>5, <2>1
  <2> HIDE DEF S
  <2> QED BY <1>3, <2>1, <2>2, SeqEqual
<1>7. Trimmed(s) = s
  <2>1. s[Len(s)] = t[Len(t)] /\ t[Len(t)] \in Digits
    <3>1. Len(t) \in 1..Len(t) /\ Len(t) + 1 = Len(s)
      BY <1>5
    <3> QED BY <1>2, <1>5, <3>1
  <2>2. s[Len(s)] # " " /\ s[1] # " "
    BY <1>5, <2>1, DigitFacts
  <2> QED BY <1>4, <1>5, <2>2, TrimmedFacts
<1>8. ToLongLong(s) = IF m > LongLongMax THEN NotANumber ELSE [ok |-> TRUE, value |-> -m]
  <2>1. Head(s) = "-"
    BY <1>4, <1>5
  <2>2. ToSet(t) \subseteq Digits
    BY <1>2 DEF ToSet
  <2>3. s # <<>> /\ Head(s) \in {"+", "-"}
    BY <1>5, <2>1
  <2> HIDE DEF m
  <2> QED BY <1>2, <1>5, <1>6, <1>7, <2>2, <2>3 DEF ToLongLong
<1>9. s # <<"0">> /\ s # <<>>
  BY <1>5
<1>10. ParseArrayIndex(s) = IF ToLongLong(s).value < 0 THEN NotANumber ELSE ToLongLong(s)
  BY <1>5, <1>9 DEF ParseArrayIndex
<1>11. NotANumber.ok = FALSE
  BY DEF NotANumber
<1>12. CASE m > LongLongMax
  <2>1. ToLongLong(s) = NotANumber
    BY <1>8, <1>12
  <2> QED BY <1>1, <1>10, <1>11, <2>1 DEF s
<1>13. CASE ~(m > LongLongMax)
  <2>1. ToLongLong(s).value = -m /\ -m < 0
    BY <1>1, <1>8, <1>13
  <2> QED BY <1>1, <1>10, <1>11, <2>1 DEF s
<1> QED BY <1>12, <1>13

\* The elements of <<x>> \o p.
LEMMA ConsElements ==
  ASSUME NEW S, NEW x \in S, NEW p \in Seq(S)
  PROVE  /\ <<x>> \o p \in Seq(S) /\ Len(<<x>> \o p) = Len(p) + 1
         /\ (<<x>> \o p)[1] = x /\ \A k \in 1..Len(p) : (<<x>> \o p)[k + 1] = p[k]
<1> DEFINE single == <<x>>
           n == Len(p)
<1>1. single \in Seq(S) /\ Len(single) = 1 /\ single[1] = x /\ n \in Nat
  OBVIOUS
<1> HIDE DEF single
<1> DEFINE s == single \o p
<1>2. /\ s \in Seq(S) /\ Len(s) = Len(single) + n
      /\ \A k \in 1..Len(single) + n :
           s[k] = IF k =< Len(single) THEN single[k] ELSE p[k - Len(single)]
  BY <1>1, ConcatProperties, Zenon
<1> HIDE DEF s, n
<1>3. Len(s) = n + 1 /\ s[1] = x
  BY <1>1, <1>2
<1>4. ASSUME NEW k \in 1..n
      PROVE  s[k + 1] = p[k]
  <2>1. k + 1 \in 1..Len(single) + n /\ ~(k + 1 =< Len(single)) /\ (k + 1) - Len(single) = k
    BY <1>1
  <2> QED BY <1>2, <2>1
<1> QED BY <1>2, <1>3, <1>4 DEF s, single, n

\* A sequence with these elements is that one.
LEMMA IsCons ==
  ASSUME NEW S, NEW x \in S, NEW p \in Seq(S), NEW q \in Seq(S),
         Len(q) = Len(p) + 1, q[1] = x, \A k \in 1..Len(p) : q[k + 1] = p[k]
  PROVE  q = <<x>> \o p
<1> DEFINE s == <<x>> \o p
           n == Len(p)
<1>1. s \in Seq(S) /\ Len(s) = n + 1 /\ s[1] = x /\ \A k \in 1..n : s[k + 1] = p[k]
  BY ConsElements
<1>2. n \in Nat
  OBVIOUS
<1> HIDE DEF s
<1>3. ASSUME NEW k \in 1..Len(q)
      PROVE  q[k] = s[k]
  <2>1. k = 1 \/ (k - 1 \in 1..n /\ (k - 1) + 1 = k)
    BY <1>2
  <2> QED BY <1>1, <2>1
<1> QED BY <1>1, <1>3, SeqEqual DEF s

\* The first part goes first.
LEMMA FlattenCons ==
  ASSUME NEW S, NEW x \in Seq(S), NEW parts \in Seq(Seq(S))
  PROVE  FlattenSeq(<<x>> \o parts) = x \o FlattenSeq(parts)
<1> DEFINE n == Len(parts)
           longer == <<x>> \o parts
<1>0. \A a, b \in Seq(S) : (x \o a) \o b = x \o (a \o b)
  BY ConcatAssociative, SMT
<1>1. longer \in Seq(Seq(S)) /\ Len(longer) = n + 1 /\ longer[1] = x
      /\ \A k \in 1..n : longer[k + 1] = parts[k]
  BY ConsElements
<1>2. PICK u \in [0..n -> Seq(S)] : Accumulates(u, parts)
  BY FlattenUnfolds
<1>3. PICK w \in [0..Len(longer) -> Seq(S)] : Accumulates(w, longer)
  BY <1>1, FlattenUnfolds
<1>4. n \in Nat /\ \A k \in 1..n : parts[k] \in Seq(S)
  OBVIOUS
<1> HIDE DEF longer, n
<1>5. /\ u[0] = <<>> /\ FlattenSeq(parts) = u[n] /\ \A k \in 1..n : u[k] = u[k - 1] \o parts[k]
      /\ w[0] = <<>> /\ FlattenSeq(longer) = w[n + 1]
      /\ \A k \in 1..n + 1 : w[k] = w[k - 1] \o longer[k]
  BY <1>1, <1>2, <1>3 DEF Accumulates, n
<1> DEFINE Same == {k \in 0..n : w[k + 1] = x \o u[k]}
<1>6. 0 \in Same
  <2>1. 0 \in 0..n /\ 1 \in 1..n + 1 /\ 1 - 1 = 0 /\ 0 + 1 = 1
    BY <1>4
  <2>2. w[1] = <<>> \o x
    BY <1>1, <1>5, <2>1
  <2>3. <<>> \o x = x /\ x \o <<>> = x
    BY ConcatEmptySeq
  <2> QED BY <1>5, <2>1, <2>2, <2>3
<1>7. ASSUME NEW k \in 0..n, k \in Same, k < n
      PROVE  k + 1 \in Same
  <2> DEFINE h == k + 1
  <2>1. h \in 0..n /\ h \in 1..n /\ h + 1 \in 1..n + 1 /\ (h + 1) - 1 = h /\ h - 1 = k
    BY <1>4, <1>7
  <2>2. w[h] = x \o u[k]
    BY <1>7
  <2> HIDE DEF h
  <2>3. w[h + 1] = w[h] \o parts[h] /\ u[h] = u[k] \o parts[h]
    BY <1>1, <1>5, <2>1
  <2>4. u[k] \in Seq(S) /\ parts[h] \in Seq(S)
    BY <1>4, <2>1
  <2>5. (x \o u[k]) \o parts[h] = x \o (u[k] \o parts[h])
    BY <1>0, <2>4, Zenon
  <2> QED BY <2>1, <2>2, <2>3, <2>5 DEF h
<1>8. 0..n \subseteq Same
  <2> HIDE DEF Same
  <2> QED BY <1>4, <1>6, <1>7, Upwards
<1>9. n \in 0..n
  BY <1>4
<1> QED BY <1>5, <1>8, <1>9 DEF longer

(***************************************************************************)
(* Escapes                                                                 *)
(***************************************************************************)

\* The characters of a text.  (That a literal is a string is beyond the provers.)
Char == STRING \cup Digits \cup {"/", "~", "-"}

\* What escaping makes of one character: ~ becomes ~0 and / becomes ~1.
LEMMA EscapedFacts ==
  ASSUME NEW c \in Char
  PROVE  /\ EscapedChar(c) \in Seq(Char)
         /\ c = "~" => /\ Len(EscapedChar(c)) = 2
                       /\ EscapedChar(c)[1] = "~" /\ EscapedChar(c)[2] = "0"
         /\ c = "/" => /\ Len(EscapedChar(c)) = 2
                       /\ EscapedChar(c)[1] = "~" /\ EscapedChar(c)[2] = "1"
         /\ c \notin {"~", "/"} => Len(EscapedChar(c)) = 1 /\ EscapedChar(c)[1] = c
<1>1. "0" \in Char /\ "1" \in Char /\ "~" \in Char
  <2>1. DigitChar(0) = "0" /\ DigitChar(1) = "1"
    BY DEF DigitChar
  <2>2. 0 \in 0..9 /\ 1 \in 0..9
    OBVIOUS
  <2>3. "0" \in Digits /\ "1" \in Digits
    BY <2>1, <2>2 DEF Digits
  <2> QED BY <2>3 DEF Char
<1>2. CASE c = "~"
  BY <1>1, <1>2 DEF EscapedChar
<1>3. CASE c = "/"
  BY <1>1, <1>3 DEF EscapedChar
<1>4. CASE c \notin {"~", "/"}
  BY <1>1, <1>4 DEF EscapedChar
<1> QED BY <1>2, <1>3, <1>4

\* The characters of a key, escaped.
EscapedParts(key) == [j \in 1..Len(key) |-> EscapedChar(key[j])]

\* Escaping a key makes one part of each of its characters.
LEMMA EscapedPartsType ==
  ASSUME NEW key \in Seq(Char)
  PROVE  EscapedParts(key) \in Seq(Seq(Char)) /\ Len(EscapedParts(key)) = Len(key)
<1>1. \A j \in 1..Len(key) : EscapedChar(key[j]) \in Seq(Char)
  BY EscapedFacts
<1>2. Len(key) \in Nat
  OBVIOUS
<1> QED BY <1>1, <1>2 DEF EscapedParts

\* An escaped text has no '/', and each '~' in it starts an escape.
LEMMA EscapeIsClean ==
  ASSUME NEW key \in Seq(Char)
  PROVE  /\ Escape(key) \in Seq(Char)
         /\ \A q \in 1..Len(Escape(key)) : Escape(key)[q] # "/"
         /\ EscapesFrom(Escape(key), 1)
<1> DEFINE parts == EscapedParts(key)
           e == Escape(key)
           n == Len(key)
<1>1. parts \in Seq(Seq(Char)) /\ Len(parts) = n /\ n \in Nat
      /\ \A k \in 1..n : parts[k] = EscapedChar(key[k]) /\ key[k] \in Char
  BY EscapedPartsType DEF EscapedParts
<1>2. e = FlattenSeq(parts)
  BY DEF Escape, EscapedParts
<1>3. e \in Seq(Char) /\ \E L : Laid(L, parts, e)
  BY <1>1, <1>2, FlattenIsLaid
<1>4. PICK L : Laid(L, parts, e)
  BY <1>3
<1> HIDE DEF parts, e, n
<1>5. ASSUME NEW q \in 1..Len(e)
      PROVE  e[q] # "/" /\ (e[q] = "~" => q < Len(e) /\ e[q + 1] \in {"0", "1"})
  <2>1. PICK k \in 1..n : \E m \in 1..Len(parts[k]) : q = L[k - 1] + m
    <3>1. Sized(parts)
      BY <1>1 DEF Sized
    <3>2. Covers(L, parts, e)
      BY <1>4, <3>1, LaidCovers
    <3>3. \E k \in 1..Len(parts) : \E m \in 1..Len(parts[k]) : q = L[k - 1] + m
      BY <3>2 DEF Covers
    <3> QED BY <1>1, <3>3
  <2>2. PICK m \in 1..Len(parts[k]) : q = L[k - 1] + m
    BY <2>1
  <2> DEFINE c == key[k]
             p == EscapedChar(c)
             a == L[k - 1]
  <2>3. /\ a \in Nat /\ L[k] = a + Len(p) /\ L[k] =< Len(e) /\ Len(e) \in Nat
        /\ \A x \in 1..Len(p) : e[a + x] = p[x]
    <3>1. k \in 0..n /\ k - 1 \in 0..n /\ n \in 0..n /\ k =< n
      BY <1>1
    <3>2. /\ L \in [0..n -> Nat] /\ L[n] = Len(e) /\ L[k] = L[k - 1] + Len(parts[k])
          /\ \A x \in 1..Len(parts[k]) : e[L[k - 1] + x] = parts[k][x]
      BY <1>1, <1>4 DEF Laid
    <3>3. L[k] =< L[n]
      BY <1>1, <1>4, <3>1 DEF Laid
    <3>4. Len(e) \in Nat
      BY <1>3
    <3>5. parts[k] = p
      BY <1>1
    <3> HIDE DEF c, p
    <3> QED BY <3>1, <3>2, <3>3, <3>4, <3>5
  <2>4. /\ c = "~" => Len(p) = 2 /\ p[1] = "~" /\ p[2] = "0"
        /\ c = "/" => Len(p) = 2 /\ p[1] = "~" /\ p[2] = "1"
        /\ c \notin {"~", "/"} => Len(p) = 1 /\ p[1] = c
    BY <1>1, EscapedFacts
  <2>5. m \in 1..Len(p)
    BY <1>1, <2>2
  <2> HIDE DEF c, p, a
  <2>6. q = a + m
    BY <2>2 DEF a
  <2>7. CASE c \in {"~", "/"}
    <3>1. Len(p) = 2 /\ p[1] = "~" /\ p[2] \in {"0", "1"}
      BY <2>4, <2>7
    <3>2. e[a + 1] = "~" /\ e[a + 2] \in {"0", "1"}
      BY <2>3, <3>1
    <3>3. (m = 1 /\ q = a + 1 /\ q + 1 = a + 2 /\ q < Len(e)) \/ (m = 2 /\ q = a + 2)
      BY <2>3, <2>5, <2>6, <3>1
    <3> QED BY <3>2, <3>3
  <2>8. CASE c \notin {"~", "/"}
    <3>1. Len(p) = 1 /\ p[1] = c
      BY <2>4, <2>8
    <3>2. m = 1 /\ q = a + 1
      BY <2>5, <2>6, <3>1
    <3>3. e[q] = c
      BY <2>3, <3>1, <3>2
    <3> QED BY <2>8, <3>3
  <2> QED BY <2>7, <2>8
<1> QED BY <1>3, <1>5 DEF EscapesFrom, e

\* A further character in front is escaped in front.
LEMMA EscapeCons ==
  ASSUME NEW c \in Char, NEW key \in Seq(Char)
  PROVE  Escape(<<c>> \o key) = EscapedChar(c) \o Escape(key)
<1> DEFINE s == <<c>> \o key
           p == EscapedParts(key)
           q == EscapedParts(s)
           n == Len(key)
<1>1. s \in Seq(Char) /\ Len(s) = n + 1 /\ s[1] = c /\ \A k \in 1..n : s[k + 1] = key[k]
  BY ConsElements
<1>2. n \in Nat
  OBVIOUS
<1> HIDE DEF s, n
<1>3. /\ p \in Seq(Seq(Char)) /\ Len(p) = n /\ q \in Seq(Seq(Char)) /\ Len(q) = n + 1
      /\ EscapedChar(c) \in Seq(Char)
  BY <1>1, EscapedPartsType, EscapedFacts DEF n
<1>4. q[1] = EscapedChar(c) /\ \A k \in 1..n : q[k + 1] = p[k]
  <2>1. 1 \in 1..n + 1 /\ \A k \in 1..n : k + 1 \in 1..n + 1
    BY <1>2
  <2> QED BY <1>1, <2>1 DEF EscapedParts, n
<1> HIDE DEF p, q
<1>5. q = <<EscapedChar(c)>> \o p
  BY <1>3, <1>4, IsCons
<1>6. FlattenSeq(<<EscapedChar(c)>> \o p) = EscapedChar(c) \o FlattenSeq(p)
  BY <1>3, FlattenCons
<1>7. Escape(s) = FlattenSeq(q) /\ Escape(key) = FlattenSeq(p)
  BY DEF Escape, EscapedParts, p, q
<1> QED BY <1>5, <1>6, <1>7 DEF s

\* The character that an escape stands for, by its second character.
Unescaped(d) == IF d = "0" THEN "~" ELSE "/"

\* out[rd] decodes raw from position rd on.
Decodes(out, raw) ==
  /\ out[Len(raw) + 1] = <<>>
  /\ \A rd \in 1..Len(raw) :
       /\ raw[rd] = "~" /\ rd < Len(raw) /\ raw[rd + 1] \in {"0", "1"} =>
            out[rd] = <<Unescaped(raw[rd + 1])>> \o out[rd + 2]
       /\ ~(raw[rd] = "~" /\ rd < Len(raw) /\ raw[rd + 1] \in {"0", "1"}) =>
            out[rd] = <<raw[rd]>> \o out[rd + 1]
  /\ DecodeToken(raw) = out[1]

\* Decoding reads a text from left to right, an escape or a character at a time.
LEMMA DecodeUnfolds ==
  ASSUME NEW raw \in Seq(Char)
  PROVE  \E out \in [1..Len(raw) + 1 -> Seq(Char)] : Decodes(out, raw)
<1> DEFINE n == Len(raw)
           D == 1..n + 1
           T == Seq(Char)
           rank == [j \in D |-> n + 1 - j]
           escape(j) == raw[j] = "~" /\ j < n /\ raw[j + 1] \in {"0", "1"}
           body(f, j) == IF j > n THEN <<>>
                         ELSE IF raw[j] = "~" /\ j < n /\ raw[j + 1] \in {"0", "1"}
                              THEN <<IF raw[j + 1] = "0" THEN "~" ELSE "/">> \o f[j + 2]
                              ELSE <<raw[j]>> \o f[j + 1]
           G == [j \in D |-> [f \in [D -> T] |-> body(f, j)]]
           Is(f) == f = [j \in D |-> body(f, j)]
           v == CHOOSE f : Is(f)
<1>1. n \in Nat /\ n + 1 \in Nat /\ rank \in [D -> Nat] /\ \A j \in D : rank[j] < n + 1
  OBVIOUS
<1>2. ASSUME NEW j \in D
      PROVE  /\ ~(j > n) => j + 1 \in D /\ rank[j + 1] < rank[j] /\ raw[j] \in Char
             /\ ~(j > n) /\ j < n => j + 2 \in D /\ rank[j + 2] < rank[j]
  BY <1>1
<1>3. ASSUME NEW c \in Char, NEW s \in T
      PROVE  <<c>> \o s \in T
  <2>1. <<c>> \in T
    OBVIOUS
  <2> QED BY <2>1, ConcatProperties, Zenon
<1>4. ASSUME NEW f \in [D -> T], NEW j \in D
      PROVE  body(f, j) \in T
  <2>1. CASE j > n
    <3>1. body(f, j) = <<>>
      BY <2>1
    <3> QED BY <3>1
  <2>2. CASE ~(j > n) /\ escape(j)
    <3>1. body(f, j) = <<IF raw[j + 1] = "0" THEN "~" ELSE "/">> \o f[j + 2]
      BY <2>2
    <3>2. f[j + 2] \in T
      BY <1>2, <2>2
    <3>3. (IF raw[j + 1] = "0" THEN "~" ELSE "/") \in Char
      BY DEF Char
    <3> HIDE DEF T
    <3> QED BY <1>3, <3>1, <3>2, <3>3
  <2>3. CASE ~(j > n) /\ ~escape(j)
    <3>1. body(f, j) = <<raw[j]>> \o f[j + 1]
      BY <2>3
    <3>2. f[j + 1] \in T /\ raw[j] \in Char
      BY <1>2, <2>3
    <3> HIDE DEF T
    <3> QED BY <1>3, <3>1, <3>2
  <2> QED BY <2>1, <2>2, <2>3
<1> HIDE DEF T
<1>5. G \in [D -> [[D -> T] -> T]]
  <2> HIDE DEF D, body
  <2> QED BY <1>4
<1>6. LooksBack(G, D, rank, T)
  <2> SUFFICES ASSUME NEW j \in D, NEW f \in [D -> T], NEW g \in [D -> T],
                      \A k \in D : rank[k] < rank[j] => f[k] = g[k]
               PROVE  G[j][f] = G[j][g]
    BY DEF LooksBack
  <2>1. (~(j > n) => f[j + 1] = g[j + 1]) /\ (~(j > n) /\ j < n => f[j + 2] = g[j + 2])
    BY <1>2
  <2>2. body(f, j) = body(g, j)
    <3> HIDE DEF D
    <3> QED BY <2>1, Zenon
  <2>3. G[j][f] = body(f, j) /\ G[j][g] = body(g, j)
    <3> HIDE DEF D, body
    <3> QED OBVIOUS
  <2> QED BY <2>2, <2>3
<1>7. \E f \in [D -> T] : Computes(G, D, f)
  <2>1. <<>> \in T
    BY DEF T
  <2> HIDE DEF D, rank, G
  <2> QED BY <1>1, <1>5, <1>6, <2>1, RecursionHasValue, Zenon
<1>8. \E f : Is(f)
  <2>1. PICK f \in [D -> T] : Computes(G, D, f)
    BY <1>7
  <2>2. \A j \in D : f[j] = body(f, j)
    <3> HIDE DEF D, body
    <3> QED BY <2>1 DEF Computes
  <2> HIDE DEF body, D
  <2> QED BY <2>2
<1>9. DecodeToken(raw) = v[1]
  BY DEF DecodeToken
<1>10. \A j \in D : v[j] = body(v, j)
  <2>1. Is(v)
    BY <1>8
  <2>2. v = [j \in D |-> body(v, j)]
    BY <2>1
  <2> HIDE DEF v, body, D
  <2> QED BY <2>2
<1>11. DOMAIN v = D /\ v = [j \in D |-> v[j]]
  <2>1. Is(v)
    BY <1>8
  <2> HIDE DEF v, body, D
  <2> QED BY <2>1
<1> HIDE DEF v
<1> DEFINE Right == {j \in D : v[j] \in T}
<1>12. ASSUME NEW j \in D, \A k \in D : rank[k] < rank[j] => k \in Right
       PROVE  j \in Right
  <2>1. (~(j > n) => v[j + 1] \in T) /\ (~(j > n) /\ j < n => v[j + 2] \in T)
    BY <1>2, <1>12
  <2>2. CASE j > n
    <3>1. v[j] = <<>>
      BY <1>10, <2>2
    <3>2. <<>> \in T
      BY DEF T
    <3> QED BY <3>1, <3>2
  <2>3. CASE ~(j > n) /\ escape(j)
    <3>1. v[j] = <<IF raw[j + 1] = "0" THEN "~" ELSE "/">> \o v[j + 2]
      BY <1>10, <2>3
    <3>2. (IF raw[j + 1] = "0" THEN "~" ELSE "/") \in Char
      BY DEF Char
    <3> QED BY <1>3, <2>1, <2>3, <3>1, <3>2
  <2>4. CASE ~(j > n) /\ ~escape(j)
    <3>1. v[j] = <<raw[j]>> \o v[j + 1]
      BY <1>10, <2>4
    <3> QED BY <1>2, <1>3, <2>1, <2>4, <3>1
  <2> QED BY <2>2, <2>3, <2>4
<1>13. D \subseteq Right
  <2> HIDE DEF D, rank, Right
  <2> QED BY <1>1, <1>12, ByRank
<1>14. v \in [D -> T]
  <2> HIDE DEF D
  <2> QED BY <1>11, <1>13
<1>15. n + 1 \in D /\ n + 1 > n /\ \A rd \in 1..n : rd \in D /\ ~(rd > n)
  BY <1>1
<1>16. Decodes(v, raw)
  <2>1. v[n + 1] = <<>>
    BY <1>10, <1>15
  <2>2. ASSUME NEW rd \in 1..n
        PROVE  /\ escape(rd) => v[rd] = <<Unescaped(raw[rd + 1])>> \o v[rd + 2]
               /\ ~escape(rd) => v[rd] = <<raw[rd]>> \o v[rd + 1]
    <3>1. v[rd] = body(v, rd) /\ ~(rd > n)
      BY <1>10, <1>15
    <3> HIDE DEF D
    <3> QED BY <3>1, Zenon DEF Unescaped
  <2> QED BY <1>9, <2>1, <2>2 DEF Decodes
<1> QED BY <1>14, <1>16 DEF T

\* Decoding undoes escaping.
LEMMA DecodeEscape ==
  ASSUME NEW key \in Seq(Char)
  PROVE  DecodeToken(Escape(key)) = key
<1> DEFINE parts == EscapedParts(key)
           e == Escape(key)
           n == Len(key)
<1>1. /\ parts \in Seq(Seq(Char)) /\ Len(parts) = n /\ n \in Nat
      /\ \A k \in 1..n : parts[k] = EscapedChar(key[k]) /\ key[k] \in Char
  BY EscapedPartsType DEF EscapedParts
<1>2. e = FlattenSeq(parts)
  BY DEF Escape, EscapedParts
<1>3. e \in Seq(Char) /\ \E L : Laid(L, parts, e)
  BY <1>1, <1>2, FlattenIsLaid
<1>4. PICK L : Laid(L, parts, e)
  BY <1>3
<1>5. PICK out \in [1..Len(e) + 1 -> Seq(Char)] : Decodes(out, e)
  BY <1>3, DecodeUnfolds
<1> DEFINE D == 0..n
           rank == [k \in D |-> n - k]
           rest(k) == SubSeq(key, k + 1, n)
           Right == {k \in D : out[L[k] + 1] = rest(k)}
<1>6. rank \in [D -> Nat] /\ n + 1 \in Nat /\ \A k \in D : rank[k] < n + 1
  BY <1>1
<1> HIDE DEF parts, e
<1>7. /\ L \in [0..n -> Nat] /\ L[0] = 0 /\ L[n] = Len(e) /\ Len(e) \in Nat
      /\ \A k \in 1..n : L[k] = L[k - 1] + Len(parts[k])
      /\ \A k \in 1..n : \A m \in 1..Len(parts[k]) : e[L[k - 1] + m] = parts[k][m]
      /\ \A j, k \in 0..n : j =< k => L[j] =< L[k]
  BY <1>1, <1>3, <1>4 DEF Laid
<1>8. ASSUME NEW k \in D, \A j \in D : rank[j] < rank[k] => j \in Right
      PROVE  k \in Right
  <2>1. CASE k = n
    <3>1. rest(k) = <<>>
      <4>1. n + 1 \in Int /\ n \in Int /\ n < n + 1
        BY <1>1
      <4> QED BY <2>1, <4>1, SubSeqEmpty
    <3>2. out[L[k] + 1] = <<>>
      BY <1>5, <1>7, <2>1 DEF Decodes
    <3> QED BY <3>1, <3>2
  <2>2. CASE k # n
    <3> DEFINE h == k + 1
               c == key[h]
               p == parts[h]
               a == L[k]
               z == Len(e)
    <3>1. h \in 1..n /\ h \in D /\ k \in D /\ h - 1 = k /\ rank[h] < rank[k] /\ h =< n /\ n \in D
      BY <1>1, <2>2
    <3>2. out[L[h] + 1] = rest(h)
      BY <1>8, <3>1
    <3>3. rest(k) = <<c>> \o rest(h)
      <4>1. h \in 1..Len(key) /\ n \in h..Len(key)
        BY <1>1, <3>1
      <4> QED BY <4>1, SubSeqRecursiveFirst
    <3>4. /\ c = "~" => Len(p) = 2 /\ p[1] = "~" /\ p[2] = "0"
          /\ c = "/" => Len(p) = 2 /\ p[1] = "~" /\ p[2] = "1"
          /\ c \notin {"~", "/"} => Len(p) = 1 /\ p[1] = c
      BY <1>1, <3>1, EscapedFacts
    <3>5. /\ a \in Nat /\ L[h] = a + Len(p) /\ L[h] =< z /\ z \in Nat
          /\ \A m \in 1..Len(p) : e[a + m] = p[m]
      <4>1. L[h] = L[h - 1] + Len(p) /\ \A m \in 1..Len(p) : e[L[h - 1] + m] = p[m]
        BY <1>7, <3>1
      <4>2. L[h] =< L[n]
        BY <1>7, <3>1
      <4> QED BY <1>7, <3>1, <4>1, <4>2
    <3>6. ASSUME NEW rd \in 1..z
          PROVE  /\ e[rd] = "~" /\ rd < z /\ e[rd + 1] \in {"0", "1"} =>
                      out[rd] = <<Unescaped(e[rd + 1])>> \o out[rd + 2]
                 /\ e[rd] # "~" => out[rd] = <<e[rd]>> \o out[rd + 1]
      BY <1>5, Zenon DEF Decodes
    <3> DEFINE later == rest(h)
    <3> HIDE DEF h, c, p, a, z, later
    <3>7. CASE c \in {"~", "/"}
      <4>1. Len(p) = 2 /\ p[1] = "~" /\ p[2] = (IF c = "~" THEN "0" ELSE "1")
        BY <3>4, <3>7
      <4>2. e[a + 1] = "~" /\ e[a + 2] = (IF c = "~" THEN "0" ELSE "1") /\ L[h] = a + 2
        BY <3>5, <4>1
      <4> DEFINE rd == a + 1
      <4>3. rd \in 1..z /\ rd < z /\ rd + 1 = a + 2 /\ rd + 2 = L[h] + 1
        BY <3>5, <4>2
      <4> HIDE DEF rd
      <4>4. e[rd] = "~" /\ e[rd + 1] \in {"0", "1"} /\ Unescaped(e[rd + 1]) = c
        BY <3>7, <4>2, <4>3 DEF Unescaped, rd
      <4>5. out[rd] = <<c>> \o out[L[h] + 1]
        BY <3>6, <4>3, <4>4
      <4>6. out[rd] = <<c>> \o rest(h)
        BY <3>2, <4>5
      <4> QED BY <3>3, <4>6 DEF rd, a
    <3>8. CASE c \notin {"~", "/"}
      <4>1. Len(p) = 1 /\ p[1] = c
        BY <3>4, <3>8
      <4>2. e[a + 1] = c /\ L[h] = a + 1
        BY <3>5, <4>1
      <4> DEFINE rd == a + 1
      <4>3. rd \in 1..z /\ rd + 1 = L[h] + 1
        BY <3>5, <4>2
      <4> HIDE DEF rd
      <4>4. e[rd] = c /\ c # "~"
        BY <3>8, <4>2 DEF rd
      <4>5. out[rd] = <<c>> \o out[L[h] + 1]
        BY <3>6, <4>3, <4>4
      <4>6. out[rd] = <<c>> \o rest(h)
        BY <3>2, <4>5
      <4> QED BY <3>3, <4>6 DEF rd, a
    <3> QED BY <3>7, <3>8
  <2> QED BY <2>1, <2>2
<1>9. D \subseteq Right
  <2> HIDE DEF D, rank, Right
  <2> QED BY <1>6, <1>8, ByRank
<1>10. out[1] = rest(0)
  <2>1. 0 \in D /\ L[0] + 1 = 1
    BY <1>1, <1>7
  <2> QED BY <1>9, <2>1
<1>11. rest(0) = key
  BY SubSeqFull
<1> QED BY <1>5, <1>10, <1>11 DEF Decodes, e

\* An empty key has no characters to escape.
LEMMA EscapeOfNone == Escape(<<>>) = <<>>
<1> DEFINE none == <<>>
<1>1. none \in Seq(Seq(Char)) /\ Len(none) = 0 /\ none \in Seq(Char)
  OBVIOUS
<1>2. EscapedParts(none) \in Seq(Seq(Char)) /\ Len(EscapedParts(none)) = 0
  BY <1>1, EscapedPartsType
<1>3. EscapedParts(none) = none
  BY <1>2, EmptySeq
<1>4. \E u \in [0..Len(none) -> Seq(Char)] : Accumulates(u, none)
  BY <1>1, FlattenUnfolds
<1>5. FlattenSeq(none) = none
  BY <1>1, <1>4 DEF Accumulates
<1> QED BY <1>3, <1>5 DEF Escape, EscapedParts

\* Escaping undoes decoding.
LEMMA EscapeDecode ==
  ASSUME NEW raw \in Seq(Char), EscapesFrom(raw, 1), \A q \in 1..Len(raw) : raw[q] # "/"
  PROVE  Escape(DecodeToken(raw)) = raw
<1> DEFINE n == Len(raw)
           D == 1..n + 1
           rank == [j \in D |-> n + 1 - j]
           rest(j) == SubSeq(raw, j, n)
<1>1. PICK out \in [1..Len(raw) + 1 -> Seq(Char)] : Decodes(out, raw)
  BY DecodeUnfolds
<1> DEFINE Right == {j \in D : EscapesFrom(raw, j) => Escape(out[j]) = rest(j)}
<1>2. n \in Nat /\ n + 1 \in Nat /\ rank \in [D -> Nat] /\ \A j \in D : rank[j] < n + 1
  OBVIOUS
<1>3. \A q \in 1..n : raw[q] \in Char
  OBVIOUS
<1>4. ASSUME NEW j \in D, \A k \in D : rank[k] < rank[j] => k \in Right
      PROVE  j \in Right
  <2> SUFFICES ASSUME EscapesFrom(raw, j)
               PROVE  Escape(out[j]) = rest(j)
    OBVIOUS
  <2>0. /\ j \in Nat
        /\ j =< n /\ raw[j] # "~" => (EscapesFrom(raw, j) <=> EscapesFrom(raw, j + 1))
        /\ j =< n /\ raw[j] = "~" => (EscapesFrom(raw, j) <=> /\ j < n /\ raw[j + 1] \in {"0", "1"}
                                                              /\ EscapesFrom(raw, j + 2))
    BY <1>2, EscapesNext
  <2>1. CASE j = n + 1
    <3>1. rest(j) = <<>>
      <4>1. n + 1 \in Int /\ n \in Int /\ n < n + 1
        BY <1>2
      <4> QED BY <2>1, <4>1, SubSeqEmpty
    <3>2. out[j] = <<>>
      BY <1>1, <2>1 DEF Decodes
    <3> QED BY <3>1, <3>2, EscapeOfNone
  <2>2. CASE j =< n /\ raw[j] # "~"
    <3> DEFINE h == j + 1
               c == raw[j]
    <3>1. h \in D /\ rank[h] < rank[j] /\ j \in 1..n /\ n \in j..n
      BY <1>2, <2>0, <2>2
    <3>2. EscapesFrom(raw, h)
      BY <2>0, <2>2
    <3>3. Escape(out[h]) = rest(h)
      BY <1>4, <3>1, <3>2
    <3>4. out[j] = <<c>> \o out[h]
      BY <1>1, <2>2, <3>1 DEF Decodes
    <3>5. rest(j) = <<c>> \o rest(h)
      BY <3>1, SubSeqRecursiveFirst
    <3>6. c \in Char /\ c # "~" /\ c # "/" /\ out[h] \in Seq(Char)
      BY <1>3, <2>2, <3>1
    <3> HIDE DEF c, h
    <3>7. Escape(<<c>> \o out[h]) = EscapedChar(c) \o Escape(out[h])
      BY <3>6, EscapeCons
    <3>8. EscapedChar(c) = <<c>>
      BY <3>6 DEF EscapedChar
    <3> QED BY <3>3, <3>4, <3>5, <3>7, <3>8
  <2>3. CASE j =< n /\ raw[j] = "~"
    <3> DEFINE h == j + 2
               k == j + 1
               d == raw[k]
               c == Unescaped(d)
    <3>1. j < n /\ d \in {"0", "1"} /\ EscapesFrom(raw, h)
      BY <2>0, <2>3
    <3>2. /\ h \in D /\ rank[h] < rank[j] /\ j \in 1..n /\ k \in 1..n /\ n \in j..n /\ n \in k..n
          /\ k + 1 = h
      BY <1>2, <2>0, <2>3, <3>1
    <3>3. Escape(out[h]) = rest(h)
      BY <1>4, <3>1, <3>2
    <3>4. out[j] = <<c>> \o out[h]
      BY <1>1, <2>3, <3>1, <3>2 DEF Decodes
    <3>5. rest(j) = <<"~">> \o rest(k)
      BY <2>3, <3>2, SubSeqRecursiveFirst
    <3>6. rest(k) = <<d>> \o rest(h)
      <4>1. rest(k) = <<d>> \o SubSeq(raw, k + 1, n)
        BY <3>2, SubSeqRecursiveFirst
      <4> QED BY <3>2, <4>1
    <3>7. c \in Char /\ out[h] \in Seq(Char) /\ d \in Char
      BY <1>3, <3>2 DEF Unescaped, Char
    <3>8. EscapedChar(c) = <<"~", d>>
      BY <3>1 DEF EscapedChar, Unescaped
    <3>9. rest(h) \in Seq(Char)
      <4>1. \A q \in h..n : raw[q] \in Char
        BY <1>2, <1>3, <3>2
      <4>2. h \in Int /\ n \in Int
        BY <1>2, <3>2
      <4> QED BY <4>1, <4>2, SubSeqProperties
    <3> DEFINE later == rest(h)
    <3> HIDE DEF c, h, k, d, later
    <3>10. Escape(<<c>> \o out[h]) = EscapedChar(c) \o Escape(out[h])
      BY <3>7, EscapeCons
    <3>11. <<"~", d>> \o later = <<"~">> \o (<<d>> \o later)
      <4> DEFINE a == <<"~">>
                 b == <<d>>
                 ab == <<"~", d>>
      <4>1. a \in Seq(Char) /\ b \in Seq(Char) /\ later \in Seq(Char) /\ "~" \in Char
        BY <3>7, <3>9 DEF Char, later
      <4>2. ab = a \o b
        <5>1. /\ ab \in Seq(Char) /\ Len(ab) = Len(b) + 1 /\ ab[1] = "~"
              /\ \A q \in 1..Len(b) : ab[q + 1] = b[q]
          BY <3>7, <4>1
        <5> HIDE DEF ab, b
        <5>2. ab = <<"~">> \o b
          BY <4>1, <5>1, IsCons
        <5> QED BY <5>2
      <4> HIDE DEF a, b, ab
      <4>3. (a \o b) \o later = a \o (b \o later)
        BY <4>1, ConcatAssociative, SMT
      <4> QED BY <4>2, <4>3 DEF a, b, ab
    <3> QED BY <3>3, <3>4, <3>5, <3>6, <3>8, <3>10, <3>11 DEF later
  <2> QED BY <1>2, <2>0, <2>1, <2>2, <2>3
<1>5. D \subseteq Right
  <2> HIDE DEF D, rank, Right
  <2> QED BY <1>2, <1>4, ByRank
<1>6. Escape(out[1]) = rest(1)
  <2>1. 1 \in D
    BY <1>2
  <2> QED BY <1>5, <2>1
<1>7. rest(1) = raw
  BY SubSeqFull
<1> QED BY <1>1, <1>6, <1>7 DEF Decodes

\* The minimum is the least element.
LEMMA MinIsLeast ==
  ASSUME NEW S, S \subseteq Nat, S # {}
  PROVE  Min(S) \in S /\ \A x \in S : Min(S) <= x
<1>1. \E m \in S : \A x \in S : m <= x
  BY LeastOfNat
<1> QED BY <1>1 DEF Min

\* The tokens that parsing and appending make.
MadeTokens ==
  {t \in [kind : {"Key", "Index"}, index : Int, key : Seq(Char)] :
     \/ t.kind = "Key" /\ t.index = 0 /\ ParseArrayIndex(t.key).ok = FALSE
     \/ t.kind = "Index" /\ t.index \in 0..LongLongMax}

\* The token that a key is classified as is one that the program makes.
LEMMA ClassifiedIsMade ==
  ASSUME NEW key \in Seq(Char)
  PROVE  Classified(key) \in MadeTokens /\ Classified(key).key = key
<1> DEFINE r == ParseArrayIndex(key)
           T == Seq(Char)
<1>1. r.ok = FALSE \/ (r.ok = TRUE /\ r.value \in 0..LongLongMax)
  BY IndexFacts
<1>2. key \in T /\ LongLongMax \in Nat
  BY LongLongMaxAssumption
<1>3. Classified(key) = IF r.ok THEN Token("Index", r.value, key) ELSE Token("Key", 0, key)
  BY DEF Classified
<1>4. MadeTokens = {t \in [kind : {"Key", "Index"}, index : Int, key : T] :
                      \/ t.kind = "Key" /\ t.index = 0 /\ ParseArrayIndex(t.key).ok = FALSE
                      \/ t.kind = "Index" /\ t.index \in 0..LongLongMax}
  BY DEF MadeTokens
<1> HIDE DEF T
<1>5. CASE r.ok = FALSE
  <2>1. Classified(key) = [kind |-> "Key", index |-> 0, key |-> key]
    BY <1>3, <1>5 DEF Token
  <2> DEFINE t == [kind |-> "Key", index |-> 0, key |-> key]
  <2>2. t \in [kind : {"Key", "Index"}, index : Int, key : T]
    BY <1>2
  <2>3. t.kind = "Key" /\ t.index = 0 /\ t.key = key
    OBVIOUS
  <2>4. ParseArrayIndex(t.key).ok = FALSE
    BY <1>5, <2>3
  <2> HIDE DEF t
  <2>5. t \in MadeTokens
    BY <1>4, <2>2, <2>3, <2>4
  <2> QED BY <2>1, <2>3, <2>5 DEF t
<1>6. CASE r.ok = TRUE /\ r.value \in 0..LongLongMax
  <2> DEFINE x == r.value
             t == [kind |-> "Index", index |-> x, key |-> key]
  <2>0. x \in 0..LongLongMax
    BY <1>6
  <2>1. Classified(key) = t
    BY <1>3, <1>6 DEF Token
  <2> HIDE DEF x
  <2>2. t \in [kind : {"Key", "Index"}, index : Int, key : T]
    BY <1>2, <2>0
  <2>3. t.kind = "Index" /\ t.index = x /\ t.key = key
    OBVIOUS
  <2> HIDE DEF t
  <2>5. t \in MadeTokens
    BY <1>4, <2>0, <2>2, <2>3
  <2> QED BY <2>1, <2>3, <2>5
<1> QED BY <1>1, <1>5, <1>6

\* The token between two positions of a text.
Part(s, a, b) == Classified(DecodeToken(SubSeq(s, a, b)))

\* The token of a part of a text is made of its decoded characters.
LEMMA PartIsMade ==
  ASSUME NEW s \in Seq(Char), NEW a \in Nat, NEW b \in Nat, a >= 1, b =< Len(s)
  PROVE  /\ SubSeq(s, a, b) \in Seq(Char)
         /\ Part(s, a, b) \in MadeTokens
         /\ Part(s, a, b).key = DecodeToken(SubSeq(s, a, b))
<1> DEFINE raw == SubSeq(s, a, b)
<1>1. raw \in Seq(Char)
  <2>1. \A q \in a..b : s[q] \in Char
    OBVIOUS
  <2>2. a \in Int /\ b \in Int
    OBVIOUS
  <2> QED BY <2>1, <2>2, SubSeqProperties
<1> HIDE DEF raw
<1>2. DecodeToken(raw) \in Seq(Char)
  <2>1. PICK out \in [1..Len(raw) + 1 -> Seq(Char)] : Decodes(out, raw)
    BY <1>1, DecodeUnfolds
  <2>2. 1 \in 1..Len(raw) + 1
    BY <1>1
  <2> QED BY <2>1, <2>2 DEF Decodes
<1> QED BY <1>1, <1>2, ClassifiedIsMade DEF Part, raw

\* No '/' stands at one of the positions.
NoSlash(s, a, b) == \A q \in a..b : s[q] # "/"

\* from[begin] are the tokens of s from position begin on.
Splits(from, s) ==
  /\ \A begin \in 2..Len(s) + 1 :
       /\ NoSlash(s, begin, Len(s)) => from[begin] = <<Part(s, begin, Len(s))>>
       /\ \A j \in begin..Len(s) : s[j] = "/" /\ NoSlash(s, begin, j - 1) =>
            from[begin] = <<Part(s, begin, j - 1)>> \o from[j + 1]
  /\ Tokens(s) = from[2]

\* The text after the first / is split from left to right, a token at each /.
LEMMA TokensUnfold ==
  ASSUME NEW s \in Seq(Char), Len(s) >= 1
  PROVE  \E from \in [2..Len(s) + 1 -> Seq(MadeTokens)] : Splits(from, s)
<1> DEFINE n == Len(s)
           D == 2..n + 1
           T == Seq(MadeTokens)
           rank == [j \in D |-> n + 1 - j]
           slashes(b) == {j \in b..n : s[j] = "/"}
           j(b) == Min(slashes(b))
           body(f, b) == IF slashes(b) = {} THEN <<Part(s, b, n)>>
                         ELSE <<Part(s, b, j(b) - 1)>> \o f[j(b) + 1]
           G == [b \in D |-> [f \in [D -> T] |-> body(f, b)]]
           Is(f) == f = [b \in D |-> body(f, b)]
           v == CHOOSE f : Is(f)
<1>1. n \in Nat /\ n + 1 \in Nat /\ rank \in [D -> Nat] /\ \A b \in D : rank[b] < n + 1
  OBVIOUS
<1>2. ASSUME NEW b \in D
      PROVE  /\ Part(s, b, n) \in MadeTokens
             /\ slashes(b) # {} =>
                  /\ j(b) \in slashes(b) /\ \A x \in slashes(b) : j(b) <= x
                  /\ j(b) + 1 \in D /\ rank[j(b) + 1] < rank[b]
                  /\ Part(s, b, j(b) - 1) \in MadeTokens
  <2>1. b \in Nat /\ b >= 1 /\ n =< Len(s)
    BY <1>1
  <2>2. Part(s, b, n) \in MadeTokens
    BY <1>1, <2>1, PartIsMade
  <2> SUFFICES ASSUME slashes(b) # {}
               PROVE  /\ j(b) \in slashes(b) /\ \A x \in slashes(b) : j(b) <= x
                      /\ j(b) + 1 \in D /\ rank[j(b) + 1] < rank[b]
                      /\ Part(s, b, j(b) - 1) \in MadeTokens
    BY <2>2
  <2>3. slashes(b) \subseteq Nat
    BY <1>1, <2>1
  <2> DEFINE Q == slashes(b)
             m == Min(Q)
  <2>4. m \in Q /\ \A x \in Q : m <= x
    <3> HIDE DEF Q
    <3> QED BY <2>3, MinIsLeast DEF Q
  <2>5. m \in b..n
    BY <2>4
  <2> HIDE DEF m
  <2>6. m + 1 \in D /\ rank[m + 1] < rank[b] /\ m - 1 \in Nat /\ m - 1 =< Len(s)
    BY <1>1, <2>1, <2>5
  <2>7. Part(s, b, m - 1) \in MadeTokens
    BY <2>1, <2>6, PartIsMade
  <2> QED BY <2>4, <2>6, <2>7 DEF m
<1>3. ASSUME NEW c \in MadeTokens, NEW t \in T
      PROVE  <<c>> \in T /\ <<c>> \o t \in T
  <2>1. <<c>> \in T
    OBVIOUS
  <2> QED BY <2>1, ConcatProperties, Zenon
<1> HIDE DEF T
<1>4. ASSUME NEW f \in [D -> T], NEW b \in D
      PROVE  body(f, b) \in T
  <2>1. CASE slashes(b) = {}
    <3>1. body(f, b) = <<Part(s, b, n)>>
      BY <2>1
    <3>2. f[b] \in T
      OBVIOUS
    <3> QED BY <1>2, <1>3, <3>1, <3>2
  <2>2. CASE slashes(b) # {}
    <3>1. body(f, b) = <<Part(s, b, j(b) - 1)>> \o f[j(b) + 1]
      BY <2>2
    <3>2. f[j(b) + 1] \in T /\ Part(s, b, j(b) - 1) \in MadeTokens
      BY <1>2, <2>2
    <3> QED BY <1>3, <3>1, <3>2
  <2> QED BY <2>1, <2>2
<1>5. G \in [D -> [[D -> T] -> T]]
  <2> HIDE DEF D, body
  <2> QED BY <1>4
<1>6. LooksBack(G, D, rank, T)
  <2> SUFFICES ASSUME NEW b \in D, NEW f \in [D -> T], NEW g \in [D -> T],
                      \A k \in D : rank[k] < rank[b] => f[k] = g[k]
               PROVE  G[b][f] = G[b][g]
    BY DEF LooksBack
  <2>1. slashes(b) # {} => f[j(b) + 1] = g[j(b) + 1]
    BY <1>2
  <2>2. body(f, b) = body(g, b)
    <3> HIDE DEF D, slashes, j
    <3> QED BY <2>1, Zenon
  <2>3. G[b][f] = body(f, b) /\ G[b][g] = body(g, b)
    <3> HIDE DEF D, body
    <3> QED OBVIOUS
  <2> QED BY <2>2, <2>3
<1>7. \E f \in [D -> T] : Computes(G, D, f)
  <2>1. <<>> \in T
    BY DEF T
  <2> HIDE DEF D, rank, G
  <2> QED BY <1>1, <1>5, <1>6, <2>1, RecursionHasValue, Zenon
<1>8. \E f : Is(f)
  <2>1. PICK f \in [D -> T] : Computes(G, D, f)
    BY <1>7
  <2>2. \A b \in D : f[b] = body(f, b)
    <3> HIDE DEF D, body
    <3> QED BY <2>1 DEF Computes
  <2> HIDE DEF body, D
  <2> QED BY <2>2
<1>9. Tokens(s) = v[2]
  BY DEF Tokens, Part
<1>10. \A b \in D : v[b] = body(v, b)
  <2>1. Is(v)
    BY <1>8
  <2>2. v = [b \in D |-> body(v, b)]
    BY <2>1
  <2> HIDE DEF v, body, D
  <2> QED BY <2>2
<1>11. v = [b \in D |-> v[b]]
  <2>1. Is(v)
    BY <1>8
  <2> HIDE DEF v, body, D
  <2> QED BY <2>1
<1> HIDE DEF v
<1> DEFINE Right == {b \in D : v[b] \in T}
<1>12. ASSUME NEW b \in D, \A k \in D : rank[k] < rank[b] => k \in Right
       PROVE  b \in Right
  <2>1. CASE slashes(b) = {}
    <3>1. v[b] = <<Part(s, b, n)>>
      BY <1>10, <2>1
    <3>2. <<>> \in T
      BY DEF T
    <3> QED BY <1>2, <1>3, <3>1, <3>2
  <2>2. CASE slashes(b) # {}
    <3>1. v[b] = <<Part(s, b, j(b) - 1)>> \o v[j(b) + 1]
      BY <1>10, <2>2
    <3>2. v[j(b) + 1] \in T /\ Part(s, b, j(b) - 1) \in MadeTokens
      BY <1>2, <1>12, <2>2
    <3> QED BY <1>3, <3>1, <3>2
  <2> QED BY <2>1, <2>2
<1>13. D \subseteq Right
  <2> HIDE DEF D, rank, Right
  <2> QED BY <1>1, <1>12, ByRank
<1>14. v \in [D -> T]
  <2> HIDE DEF D
  <2> QED BY <1>11, <1>13
<1>15. Splits(v, s)
  <2>1. ASSUME NEW b \in D, NoSlash(s, b, n)
        PROVE  v[b] = <<Part(s, b, n)>>
    <3>1. slashes(b) = {}
      BY <2>1 DEF NoSlash
    <3>2. v[b] = body(v, b)
      BY <1>10
    <3> HIDE DEF D, j, slashes
    <3> QED BY <3>1, <3>2
  <2>2. ASSUME NEW b \in D, NEW q \in b..n, s[q] = "/", NoSlash(s, b, q - 1)
        PROVE  v[b] = <<Part(s, b, q - 1)>> \o v[q + 1]
    <3>0. q \in slashes(b)
      BY <2>2
    <3>1. j(b) \in slashes(b) /\ j(b) <= q
      BY <1>2, <3>0
    <3>2. j(b) \in b..n /\ s[j(b)] = "/"
      BY <3>1
    <3>3. j(b) = q
      <4> DEFINE m == j(b)
      <4>1. m \in b..n /\ s[m] = "/" /\ m <= q
        BY <3>1, <3>2
      <4> HIDE DEF m
      <4>2. ~(m \in b..q - 1)
        BY <2>2, <4>1 DEF NoSlash
      <4>3. m = q
        BY <1>1, <4>1, <4>2
      <4> QED BY <4>3 DEF m
    <3>4. v[b] = body(v, b)
      BY <1>10
    <3> HIDE DEF D, j, slashes
    <3> QED BY <3>0, <3>3, <3>4
  <2> QED BY <1>9, <2>1, <2>2 DEF Splits
<1> QED BY <1>14, <1>15 DEF T

\* Concatenation of texts is associative.
LEMMA ConcatTexts ==
  \A a, b, c \in Seq(Char) : (a \o b) \o c = a \o (b \o c)
BY ConcatAssociative, SMT

\* The keys of the tokens, escaped and joined again.
Slashed(token) == <<"/">> \o Escape(token.key)
\* The keys of the tokens, escaped and each after a /, and their concatenation.
SlashedParts(tks) == [j \in 1..Len(tks) |-> <<"/">> \o Escape(tks[j].key)]
Joined(tks) == FlattenSeq(SlashedParts(tks))

\* A token with its / before it is a text.
LEMMA SlashedIsText ==
  ASSUME NEW t \in MadeTokens
  PROVE  Slashed(t) \in Seq(Char) /\ Escape(t.key) \in Seq(Char) /\ t.key \in Seq(Char)
<1>1. t.key \in Seq(Char)
  <2> DEFINE T == Seq(Char)
  <2>1. MadeTokens = {x \in [kind : {"Key", "Index"}, index : Int, key : T] :
                        \/ x.kind = "Key" /\ x.index = 0 /\ ParseArrayIndex(x.key).ok = FALSE
                        \/ x.kind = "Index" /\ x.index \in 0..LongLongMax}
    BY DEF MadeTokens
  <2> HIDE DEF T
  <2>2. t.key \in T
    BY <2>1
  <2> QED BY <2>2 DEF T
<1>2. Escape(t.key) \in Seq(Char)
  BY <1>1, EscapeIsClean
<1>3. <<"/">> \in Seq(Char)
  <2>1. "/" \in Char
    BY DEF Char
  <2> QED BY <2>1
<1>4. <<"/">> \o Escape(t.key) \in Seq(Char)
  BY <1>2, <1>3, ConcatProperties, Zenon
<1> QED BY <1>1, <1>2, <1>4 DEF Slashed

\* Writing tokens makes one part of each of them.
LEMMA SlashedPartsType ==
  ASSUME NEW tks \in Seq(MadeTokens)
  PROVE  /\ SlashedParts(tks) \in Seq(Seq(Char)) /\ Len(SlashedParts(tks)) = Len(tks)
         /\ \A j \in 1..Len(tks) : SlashedParts(tks)[j] = Slashed(tks[j])
<1>1. \A j \in 1..Len(tks) : <<"/">> \o Escape(tks[j].key) \in Seq(Char)
  BY SlashedIsText DEF Slashed
<1>2. Len(tks) \in Nat
  OBVIOUS
<1>3. \A j \in 1..Len(tks) : SlashedParts(tks)[j] = Slashed(tks[j])
  BY DEF SlashedParts, Slashed
<1> DEFINE T == Seq(Char)
<1>4. SlashedParts(tks) \in Seq(T) /\ Len(SlashedParts(tks)) = Len(tks)
  <2> HIDE DEF T
  <2> QED BY <1>1, <1>2 DEF SlashedParts, T
<1> QED BY <1>3, <1>4

\* No tokens are written as the empty text, which is the pointer of the whole document.
LEMMA JoinedNone == Joined(<<>>) = <<>>
<1> DEFINE none == <<>>
<1>1. none \in Seq(Seq(Char)) /\ none \in Seq(MadeTokens) /\ Len(none) = 0
  OBVIOUS
<1>2. SlashedParts(none) \in Seq(Seq(Char)) /\ Len(SlashedParts(none)) = 0
  BY <1>1, SlashedPartsType
<1>3. SlashedParts(none) = none
  BY <1>2, EmptySeq
<1>4. \E u \in [0..Len(none) -> Seq(Char)] : Accumulates(u, none)
  BY <1>1, FlattenUnfolds
<1>5. FlattenSeq(none) = none
  BY <1>1, <1>4 DEF Accumulates
<1> QED BY <1>3, <1>5 DEF Joined

\* The first token is written first.
LEMMA JoinedCons ==
  ASSUME NEW t \in MadeTokens, NEW tks \in Seq(MadeTokens)
  PROVE  Joined(<<t>> \o tks) = Slashed(t) \o Joined(tks)
<1> DEFINE s == <<t>> \o tks
           p == SlashedParts(tks)
           q == SlashedParts(s)
           n == Len(tks)
<1>1. s \in Seq(MadeTokens) /\ Len(s) = n + 1 /\ s[1] = t /\ \A k \in 1..n : s[k + 1] = tks[k]
  BY ConsElements
<1>2. n \in Nat
  OBVIOUS
<1> HIDE DEF s, n
<1>3. /\ p \in Seq(Seq(Char)) /\ Len(p) = n /\ q \in Seq(Seq(Char)) /\ Len(q) = n + 1
      /\ \A k \in 1..n : p[k] = Slashed(tks[k])
      /\ \A k \in 1..n + 1 : q[k] = Slashed(s[k])
      /\ Slashed(t) \in Seq(Char)
  BY <1>1, SlashedPartsType, SlashedIsText DEF n
<1> HIDE DEF p, q
<1>4. q[1] = Slashed(t) /\ \A k \in 1..n : q[k + 1] = p[k]
  <2>1. 1 \in 1..n + 1 /\ \A k \in 1..n : k + 1 \in 1..n + 1
    BY <1>2
  <2> QED BY <1>1, <1>3, <2>1
<1>5. q = <<Slashed(t)>> \o p
  BY <1>3, <1>4, IsCons
<1>6. FlattenSeq(<<Slashed(t)>> \o p) = Slashed(t) \o FlattenSeq(p)
  BY <1>3, FlattenCons
<1> QED BY <1>5, <1>6 DEF Joined, p, q, s

\* The tokens of a text, joined again, are the text.
LEMMA JoinedTokens ==
  ASSUME NEW s \in Seq(Char), Len(s) >= 1, s[1] = "/", EscapesFrom(s, 1)
  PROVE  Tokens(s) \in Seq(MadeTokens) /\ Joined(Tokens(s)) = s
<1> DEFINE n == Len(s)
           D == 2..n + 1
           rank == [b \in D |-> n + 1 - b]
           rest(b) == SubSeq(s, b, n)
           slash == <<"/">>
<1>1. PICK from \in [2..Len(s) + 1 -> Seq(MadeTokens)] : Splits(from, s)
  BY TokensUnfold
<1> DEFINE Right == {b \in D : Joined(from[b]) = slash \o rest(b)}
<1>2. n \in Nat /\ n + 1 \in Nat /\ rank \in [D -> Nat] /\ \A b \in D : rank[b] < n + 1
  OBVIOUS
<1>3. "/" \in Char /\ slash \in Seq(Char) /\ \A q \in 1..n : s[q] \in Char
  <2>1. "/" \in Char
    BY DEF Char
  <2> QED BY <2>1
<1>4. \A q \in 1..n : s[q] = "~" => q < n /\ s[q + 1] \in {"0", "1"}
  BY DEF EscapesFrom
<1>5. ASSUME NEW b \in D, NEW c \in Nat, c =< n, NoSlash(s, b, c),
             c < n => s[c + 1] = "/"
      PROVE  /\ SubSeq(s, b, c) \in Seq(Char) /\ Part(s, b, c) \in MadeTokens
             /\ Slashed(Part(s, b, c)) = slash \o SubSeq(s, b, c)
  <2> DEFINE raw == SubSeq(s, b, c)
  <2>1. b \in Nat /\ b >= 1
    BY <1>2
  <2>2. raw \in Seq(Char) /\ Part(s, b, c) \in MadeTokens /\ Part(s, b, c).key = DecodeToken(raw)
    BY <1>2, <1>5, <2>1, PartIsMade
  <2>3. Len(raw) \in Nat /\ \A q \in 1..Len(raw) : /\ raw[q] = s[b + q - 1]
                                                   /\ b + q - 1 \in b..c /\ b + q - 1 \in 1..n
                                                   /\ (q < Len(raw) <=> b + q - 1 < c)
    <3>1. \A q \in b..c : s[q] \in Char
      BY <1>2, <1>3, <1>5, <2>1
    <3>2. /\ Len(raw) = IF b <= c THEN c - b + 1 ELSE 0
          /\ \A q \in 1..c - b + 1 : raw[q] = s[b + q - 1]
      <4>1. b \in Int /\ c \in Int
        BY <1>5, <2>1
      <4> QED BY <3>1, <4>1, SubSeqProperties
    <3> DEFINE m == Len(raw)
    <3>3. m = IF b <= c THEN c - b + 1 ELSE 0
      BY <3>2
    <3>4. \A q \in 1..c - b + 1 : raw[q] = s[b + q - 1]
      BY <3>2
    <3> HIDE DEF m, raw
    <3>5. m \in Nat /\ \A q \in 1..m : q \in 1..c - b + 1 /\ b + q - 1 \in b..c
                                       /\ b + q - 1 \in 1..n /\ (q < m <=> b + q - 1 < c)
      BY <1>2, <1>5, <2>1, <3>3
    <3> QED BY <3>4, <3>5 DEF m
  <2> HIDE DEF raw
  <2>4. \A q \in 1..Len(raw) : raw[q] # "/"
    BY <1>5, <2>3 DEF NoSlash
  <2>5. ASSUME NEW q \in 1..Len(raw), raw[q] = "~"
        PROVE  q < Len(raw) /\ raw[q + 1] \in {"0", "1"}
    <3> DEFINE x == b + q - 1
    <3>1. raw[q] = s[x] /\ x \in b..c /\ x \in 1..n /\ (q < Len(raw) <=> x < c)
      BY <2>3
    <3>2. x + 1 = b + (q + 1) - 1
      BY <2>1, <2>3
    <3> HIDE DEF x
    <3>3. x < n /\ s[x + 1] \in {"0", "1"}
      BY <1>4, <2>5, <3>1
    <3>4. x < c
      <4>1. CASE x = c
        <5>1. s[x + 1] = "/"
          BY <1>5, <3>3, <4>1
        <5> QED BY <3>3, <5>1
      <4>2. CASE x # c
        BY <1>5, <2>1, <3>1, <4>2
      <4> QED BY <4>1, <4>2
    <3>5. q + 1 \in 1..Len(raw)
      BY <2>3, <3>1, <3>4
    <3>6. raw[q + 1] = s[x + 1]
      BY <2>3, <3>2, <3>5
    <3> QED BY <3>1, <3>3, <3>4, <3>6
  <2>6. EscapesFrom(raw, 1)
    BY <2>5 DEF EscapesFrom
  <2>7. Escape(DecodeToken(raw)) = raw
    BY <2>2, <2>4, <2>6, EscapeDecode
  <2> QED BY <2>2, <2>7 DEF Slashed, raw
<1>6. ASSUME NEW b \in D, \A k \in D : rank[k] < rank[b] => k \in Right
      PROVE  b \in Right
  <2> DEFINE slashes == {j \in b..n : s[j] = "/"}
  <2>0. b \in Nat /\ b \in 2..n + 1
    BY <1>2
  <2>1. CASE slashes = {}
    <3>1. NoSlash(s, b, n)
      BY <2>1 DEF NoSlash
    <3> DEFINE t == Part(s, b, n)
    <3>2. t \in MadeTokens /\ Slashed(t) = slash \o rest(b) /\ rest(b) \in Seq(Char)
      BY <1>2, <1>5, <3>1
    <3>3. from[b] = <<t>>
      BY <1>1, <3>1 DEF Splits
    <3> DEFINE none == <<>>
               w == Slashed(t)
    <3> HIDE DEF t
    <3>4. none \in Seq(MadeTokens)
      OBVIOUS
    <3> HIDE DEF none
    <3>5. Joined(<<t>> \o none) = w \o Joined(none)
      BY <3>2, <3>4, JoinedCons
    <3>6. <<t>> \o none = <<t>>
      <4>1. <<t>> \in Seq(MadeTokens)
        BY <3>2
      <4> QED BY <4>1, ConcatEmptySeq DEF none
    <3>7. w \in Seq(Char)
      BY <3>2, SlashedIsText
    <3> HIDE DEF w
    <3>8. w \o none = w
      BY <3>7, ConcatEmptySeq DEF none
    <3>9. Joined(none) = none
      BY JoinedNone DEF none
    <3> QED BY <3>2, <3>3, <3>5, <3>6, <3>8, <3>9 DEF w
  <2>2. CASE slashes # {}
    <3> DEFINE j == Min(slashes)
    <3>1. j \in slashes /\ \A x \in slashes : j <= x
      <4>1. slashes \subseteq Nat
        BY <1>2, <2>0
      <4> HIDE DEF slashes
      <4> QED BY <2>2, <4>1, MinIsLeast
    <3>2. j \in b..n /\ s[j] = "/" /\ \A x \in b..n : s[x] = "/" => j <= x
      BY <3>1
    <3> HIDE DEF j, slashes
    <3> DEFINE c == j - 1
               h == j + 1
               t == Part(s, b, c)
               first == SubSeq(s, b, c)
    <3>3. /\ c \in Nat /\ c =< n /\ c < n /\ c + 1 = j /\ c \in b - 1..n
          /\ b \in 1..n + 1 /\ n \in c..n
          /\ h \in D /\ rank[h] < rank[b] /\ j \in 1..n /\ n \in j..n
      BY <1>2, <2>0, <3>2
    <3>4. NoSlash(s, b, c)
      <4>1. ASSUME NEW q \in b..c
            PROVE  s[q] # "/"
        <5>1. q \in b..n /\ ~(j <= q)
          BY <2>0, <3>2, <4>1, <1>2
        <5> QED BY <3>2, <5>1
      <4> QED BY <4>1 DEF NoSlash
    <3>5. t \in MadeTokens /\ Slashed(t) = slash \o first /\ first \in Seq(Char)
      BY <1>5, <3>2, <3>3, <3>4
    <3>6. from[b] = <<t>> \o from[h]
      <4>1. NoSlash(s, b, j - 1)
        BY <3>4
      <4> QED BY <1>1, <2>0, <3>2, <4>1 DEF Splits
    <3>7. from[h] \in Seq(MadeTokens) /\ Joined(from[h]) = slash \o rest(h)
      BY <1>1, <1>6, <3>3
    <3>8. rest(j) = slash \o rest(h)
      BY <3>2, <3>3, SubSeqRecursiveFirst
    <3>9. first \o rest(j) = rest(b)
      <4>1. SubSeq(s, b, c) \o SubSeq(s, c + 1, n) = SubSeq(s, b, n)
        BY <3>3, ConcatAdjacentSubSeq, Zenon
      <4> QED BY <3>3, <4>1
    <3>10. rest(j) \in Seq(Char)
      <4>1. j \in Nat /\ n \in Nat /\ j >= 1 /\ n =< Len(s)
        BY <1>2, <3>3
      <4> QED BY <4>1, PartIsMade
    <3> DEFINE later == rest(j)
               all == rest(b)
               next == slash \o rest(h)
    <3> HIDE DEF t, first, later, all, next, c, h
    <3>11. Joined(<<t>> \o from[h]) = Slashed(t) \o Joined(from[h])
      BY <3>5, <3>7, JoinedCons
    <3>12. Joined(from[b]) = (slash \o first) \o later
      BY <3>5, <3>6, <3>7, <3>8, <3>11 DEF later, next
    <3>13. (slash \o first) \o later = slash \o (first \o later)
      <4>1. slash \in Seq(Char) /\ first \in Seq(Char) /\ later \in Seq(Char)
        BY <1>3, <3>5, <3>10 DEF later
      <4> HIDE DEF slash
      <4> QED BY <4>1, ConcatTexts, Zenon
    <3> QED BY <3>9, <3>12, <3>13 DEF later, all
  <2> QED BY <2>1, <2>2
<1>7. D \subseteq Right
  <2> HIDE DEF D, rank, Right
  <2> QED BY <1>2, <1>6, ByRank
<1>8. 2 \in D /\ Joined(from[2]) = slash \o rest(2)
  <2>1. 2 \in D
    BY <1>2
  <2> QED BY <1>7, <2>1
<1>9. s = slash \o rest(2)
  <2>1. 1 \in 1..Len(s) /\ n \in 1..Len(s)
    BY <1>2
  <2>2. SubSeq(s, 1, n) = <<s[1]>> \o SubSeq(s, 1 + 1, n)
    BY <2>1, SubSeqRecursiveFirst
  <2>3. SubSeq(s, 1, n) = s
    BY SubSeqFull
  <2> QED BY <2>2, <2>3
<1>10. Tokens(s) = from[2] /\ from[2] \in Seq(MadeTokens)
  BY <1>1, <1>8 DEF Splits
<1> QED BY <1>8, <1>9, <1>10

\* A text without escapes is decoded as it is.
LEMMA DecodePlain ==
  ASSUME NEW raw \in Seq(Char), \A q \in 1..Len(raw) : raw[q] # "~"
  PROVE  DecodeToken(raw) = raw
<1> DEFINE n == Len(raw)
           D == 1..n + 1
           rank == [j \in D |-> n + 1 - j]
           rest(j) == SubSeq(raw, j, n)
<1>1. PICK out \in [1..Len(raw) + 1 -> Seq(Char)] : Decodes(out, raw)
  BY DecodeUnfolds
<1> DEFINE Right == {j \in D : out[j] = rest(j)}
<1>2. n \in Nat /\ n + 1 \in Nat /\ rank \in [D -> Nat] /\ \A j \in D : rank[j] < n + 1
  OBVIOUS
<1>3. ASSUME NEW j \in D, \A k \in D : rank[k] < rank[j] => k \in Right
      PROVE  j \in Right
  <2>1. CASE j = n + 1
    <3>1. rest(j) = <<>>
      <4>1. n + 1 \in Int /\ n \in Int /\ n < n + 1
        BY <1>2
      <4> QED BY <2>1, <4>1, SubSeqEmpty
    <3>2. out[j] = <<>>
      BY <1>1, <2>1 DEF Decodes
    <3> QED BY <3>1, <3>2
  <2>2. CASE j # n + 1
    <3> DEFINE h == j + 1
               c == raw[j]
    <3>1. h \in D /\ rank[h] < rank[j] /\ j \in 1..n /\ n \in j..n
      BY <1>2, <2>2
    <3>2. out[h] = rest(h)
      BY <1>3, <3>1
    <3>3. out[j] = <<c>> \o out[h]
      BY <1>1, <3>1 DEF Decodes
    <3>4. rest(j) = <<c>> \o rest(h)
      BY <3>1, SubSeqRecursiveFirst
    <3> QED BY <3>2, <3>3, <3>4
  <2> QED BY <2>1, <2>2
<1>4. D \subseteq Right
  <2> HIDE DEF D, rank, Right
  <2> QED BY <1>2, <1>3, ByRank
<1>5. out[1] = rest(1)
  <2>1. 1 \in D
    BY <1>2
  <2> QED BY <1>4, <2>1
<1>6. rest(1) = raw
  BY SubSeqFull
<1> QED BY <1>1, <1>5, <1>6 DEF Decodes

\* What stands behind the '/' of a token.
Body(token) == IF token.kind = "Key" THEN Escape(token.key) ELSE NumberText(token.index)

\* What is known of the tokens that the program makes.
LEMMA MadeTokenFacts ==
  ASSUME NEW t \in MadeTokens
  PROVE  \/ t = Token("Key", 0, t.key) /\ t.kind = "Key" /\ t.key \in Seq(Char)
            /\ ParseArrayIndex(t.key).ok = FALSE
         \/ t.kind = "Index" /\ t.index \in 0..LongLongMax
<1> DEFINE T == Seq(Char)
<1>1. MadeTokens = {x \in [kind : {"Key", "Index"}, index : Int, key : T] :
                      \/ x.kind = "Key" /\ x.index = 0 /\ ParseArrayIndex(x.key).ok = FALSE
                      \/ x.kind = "Index" /\ x.index \in 0..LongLongMax}
  BY DEF MadeTokens
<1> HIDE DEF T
<1>2. /\ t \in [kind : {"Key", "Index"}, index : Int, key : T]
      /\ \/ t.kind = "Key" /\ t.index = 0 /\ ParseArrayIndex(t.key).ok = FALSE
         \/ t.kind = "Index" /\ t.index \in 0..LongLongMax
  BY <1>1
<1>3. t = [kind |-> t.kind, index |-> t.index, key |-> t.key] /\ t.key \in T
  BY <1>2
<1>4. CASE t.kind = "Key" /\ t.index = 0 /\ ParseArrayIndex(t.key).ok = FALSE
  BY <1>3, <1>4 DEF Token, T
<1>5. CASE t.kind = "Index" /\ t.index \in 0..LongLongMax
  BY <1>5
<1> QED BY <1>2, <1>4, <1>5

\* What to_string() writes of a token after the / has no / in it, only
\* well-formed escapes, and decodes to the same token or to its canonical form.
LEMMA BodyFacts ==
  ASSUME NEW t \in MadeTokens
  PROVE  /\ Body(t) \in Seq(Char) /\ TokenText(t) = <<"/">> \o Body(t)
         /\ \A q \in 1..Len(Body(t)) : Body(t)[q] # "/"
         /\ EscapesFrom(Body(t), 1)
         /\ Classified(DecodeToken(Body(t))) = Canonical(t)
<1>1. TokenText(t) = <<"/">> \o Body(t)
  BY DEF TokenText, Body
<1>2. CASE t = Token("Key", 0, t.key) /\ t.kind = "Key" /\ t.key \in Seq(Char)
            /\ ParseArrayIndex(t.key).ok = FALSE
  <2>1. Body(t) = Escape(t.key)
    BY <1>2 DEF Body
  <2>2. DecodeToken(Escape(t.key)) = t.key
    BY <1>2, DecodeEscape
  <2>3. Classified(t.key) = Token("Key", 0, t.key)
    BY <1>2 DEF Classified
  <2>4. Canonical(t) = t
    BY <1>2 DEF Canonical
  <2>5. /\ Escape(t.key) \in Seq(Char) /\ EscapesFrom(Escape(t.key), 1)
        /\ \A q \in 1..Len(Escape(t.key)) : Escape(t.key)[q] # "/"
    BY <1>2, EscapeIsClean
  <2> QED BY <1>1, <1>2, <2>1, <2>2, <2>3, <2>4, <2>5
<1>3. CASE t.kind = "Index" /\ t.index \in 0..LongLongMax
  <2> DEFINE x == t.index
             s == NaturalText(x)
  <2>1. x \in Nat /\ ~(x < 0)
    BY <1>3, LongLongMaxAssumption
  <2>2. Body(t) = s /\ NumberText(x) = s
    BY <1>3, <2>1 DEF Body, NumberText
  <2>3. IsText(s, x)
    BY <2>1, NaturalTextIsText
  <2>4. s \in Seq(Digits)
    BY <2>3 DEF IsText
  <2>5. ParseArrayIndex(s) = [ok |-> TRUE, value |-> x]
    BY <1>3, IndexReadBack
  <2>6. Canonical(t) = Token("Index", x, s)
    BY <1>3, <2>2 DEF Canonical
  <2> HIDE DEF x, s
  <2>7. s \in Seq(Char)
    BY <2>4, SeqMonotonic DEF Char
  <2>8. \A q \in 1..Len(s) : s[q] # "/" /\ s[q] # "~"
    <3>1. \A c \in Digits : c # "~" /\ c # "/"
      BY DigitFacts
    <3>2. \A q \in 1..Len(s) : s[q] \in Digits
      BY <2>4
    <3> QED BY <3>1, <3>2
  <2>9. DecodeToken(s) = s
    BY <2>7, <2>8, DecodePlain
  <2>10. Classified(s) = Token("Index", x, s)
    BY <2>5 DEF Classified
  <2>11. EscapesFrom(s, 1)
    BY <2>8 DEF EscapesFrom
  <2> QED BY <1>1, <2>2, <2>6, <2>7, <2>8, <2>9, <2>10, <2>11
<1> QED BY <1>2, <1>3, MadeTokenFacts

\* A text starting with '/' is split, also when it is the only character.
LEMMA ParseIsTokens ==
  ASSUME NEW s \in Seq(Char)
  PROVE  /\ Len(s) >= 1 => ParsePointer(s) = Tokens(s)
         /\ s = <<>> => ParsePointer(s) = <<>>
<1>1. s = <<>> => ParsePointer(s) = <<>>
  BY DEF ParsePointer
<1>2. ASSUME Len(s) >= 1
      PROVE  ParsePointer(s) = Tokens(s)
  <2>1. s # <<>> /\ Len(s) \in Nat
    BY <1>2
  <2>2. ParsePointer(s) = IF Len(s) = 1 THEN <<Token("Key", 0, <<>>)>> ELSE Tokens(s)
    BY <2>1 DEF ParsePointer
  <2>3. CASE Len(s) = 1
    <3>1. PICK from \in [2..Len(s) + 1 -> Seq(MadeTokens)] : Splits(from, s)
      BY <1>2, TokensUnfold
    <3>2. 2 \in 2..Len(s) + 1 /\ NoSlash(s, 2, Len(s))
      BY <2>3 DEF NoSlash
    <3>3. Tokens(s) = <<Part(s, 2, Len(s))>>
      BY <3>1, <3>2 DEF Splits
    <3> DEFINE none == <<>>
    <3>4. SubSeq(s, 2, Len(s)) = none
      BY <2>3, SubSeqEmpty
    <3>5. DecodeToken(none) = none
      <4>1. none \in Seq(Char) /\ \A q \in 1..Len(none) : none[q] # "~"
        OBVIOUS
      <4> HIDE DEF none
      <4> QED BY <4>1, DecodePlain
    <3>6. ParseArrayIndex(none) = NotANumber
      BY DEF ParseArrayIndex
    <3>7. Classified(none) = Token("Key", 0, none)
      BY <3>6 DEF Classified, NotANumber
    <3> QED BY <2>2, <2>3, <3>3, <3>4, <3>5, <3>7 DEF Part
  <2> QED BY <2>2, <2>3
<1> QED BY <1>1, <1>2

\* A '/' and the body stand in F at the positions a + 1 .. c.
Stands(F, a, c, body) ==
  /\ a \in Nat /\ c = a + 1 + Len(body) /\ c =< Len(F)
  /\ F[a + 1] = "/"
  /\ \A q \in 1..Len(body) : F[a + 1 + q] = body[q]

\* The text of some tokens has the text of each, one behind the other.
TextLaid(L, tks) ==
  /\ PointerText(tks) \in Seq(Char)
  /\ L[0] = 0 /\ L[Len(tks)] = Len(PointerText(tks))
  /\ \A h \in 1..Len(tks) : Stands(PointerText(tks), L[h - 1], L[h], Body(tks[h]))
  /\ \A q \in 1..Len(PointerText(tks)) : \E h \in 1..Len(tks) : q \in L[h - 1] + 1 .. L[h]

\* to_string() lays out the tokens one after the other, each after a /.
LEMMA TextIsLaid ==
  ASSUME NEW tks \in Seq(MadeTokens)
  PROVE  \E L : TextLaid(L, tks)
<1> DEFINE n == Len(tks)
           parts == [j \in 1..Len(tks) |-> TokenText(tks[j])]
           F == PointerText(tks)
<1>1. ASSUME NEW j \in 1..n
      PROVE  /\ tks[j] \in MadeTokens /\ Body(tks[j]) \in Seq(Char)
             /\ parts[j] = <<"/">> \o Body(tks[j]) /\ parts[j] \in Seq(Char)
             /\ Len(Body(tks[j])) \in Nat /\ Len(parts[j]) \in Nat
             /\ Len(parts[j]) = Len(Body(tks[j])) + 1 /\ parts[j][1] = "/"
             /\ \A q \in 1..Len(Body(tks[j])) : parts[j][q + 1] = Body(tks[j])[q]
  <2> DEFINE t == tks[j]
             body == Body(t)
             slash == "/"
             w == <<slash>> \o body
  <2>1. t \in MadeTokens
    OBVIOUS
  <2>2. body \in Seq(Char) /\ parts[j] = <<"/">> \o body
    BY <2>1, BodyFacts
  <2>3. slash \in Char
    BY DEF Char
  <2> HIDE DEF t, body, slash
  <2>6. Len(body) \in Nat
    BY <2>2
  <2>4. w \in Seq(Char) /\ Len(w) = Len(body) + 1 /\ w[1] = slash
        /\ \A q \in 1..Len(body) : w[q + 1] = body[q]
    BY <2>2, <2>3, ConsElements
  <2>5. parts[j] = w
    BY <2>2 DEF slash
  <2>7. Len(w) \in Nat
    BY <2>4, <2>6
  <2> HIDE DEF parts, w
  <2> QED BY <2>1, <2>2, <2>4, <2>5, <2>6, <2>7 DEF t, body, slash, w
<1>2. n \in Nat /\ parts \in Seq(Seq(Char)) /\ Len(parts) = n
  <2>1. n \in Nat
    OBVIOUS
  <2>2. \A j \in 1..n : TokenText(tks[j]) \in Seq(Char)
    BY <1>1
  <2> DEFINE T == Seq(Char)
  <2>3. parts \in Seq(T) /\ Len(parts) = n
    <3> HIDE DEF T
    <3> QED BY <2>1, <2>2 DEF T
  <2> QED BY <2>1, <2>3
<1>3. F = FlattenSeq(parts)
  BY DEF PointerText
<1>4. F \in Seq(Char) /\ \E L : Laid(L, parts, F)
  BY <1>2, <1>3, FlattenIsLaid
<1>5. PICK L : Laid(L, parts, F)
  BY <1>4
<1> HIDE DEF parts, F, n
<1>6. /\ L \in [0..n -> Nat] /\ L[0] = 0 /\ L[n] = Len(F) /\ Len(F) \in Nat
      /\ \A k \in 1..n : L[k] = L[k - 1] + Len(parts[k])
      /\ \A k \in 1..n : \A m \in 1..Len(parts[k]) : F[L[k - 1] + m] = parts[k][m]
      /\ \A j, k \in 0..n : j =< k => L[j] =< L[k]
  BY <1>2, <1>4, <1>5 DEF Laid
<1>7. ASSUME NEW h \in 1..n
      PROVE  Stands(F, L[h - 1], L[h], Body(tks[h]))
  <2> DEFINE a == L[h - 1]
             c == L[h]
             body == Body(tks[h])
             p == parts[h]
  <2>1. h \in 0..n /\ h - 1 \in 0..n /\ n \in 0..n /\ h =< n
    BY <1>2
  <2>2. a \in Nat /\ c =< Len(F) /\ c = a + Len(p) /\ \A m \in 1..Len(p) : F[a + m] = p[m]
    BY <1>6, <2>1
  <2>3. /\ Len(body) \in Nat /\ Len(p) = Len(body) + 1 /\ p[1] = "/"
        /\ \A q \in 1..Len(body) : p[q + 1] = body[q]
    <3> HIDE DEF parts
    <3> QED BY <1>1, Zenon
  <2> HIDE DEF a, c, body, p
  <2>4. c = a + 1 + Len(body) /\ F[a + 1] = "/"
    BY <2>2, <2>3
  <2>5. ASSUME NEW q \in 1..Len(body)
        PROVE  F[a + 1 + q] = body[q]
    <3>1. q + 1 \in 1..Len(p) /\ a + (q + 1) = a + 1 + q
      BY <2>2, <2>3
    <3>2. F[a + (q + 1)] = p[q + 1]
      BY <2>2, <3>1
    <3> QED BY <2>3, <3>1, <3>2
  <2>6. Stands(F, a, c, body)
    BY <2>2, <2>4, <2>5 DEF Stands
  <2> QED BY <2>6 DEF a, c, body
<1>8. ASSUME NEW q \in 1..Len(F)
      PROVE  \E h \in 1..n : q \in L[h - 1] + 1 .. L[h]
  <2>1. Sized(parts)
    BY <1>1, <1>2 DEF Sized
  <2>2. Covers(L, parts, F)
    BY <1>5, <2>1, LaidCovers
  <2>3. PICK k \in 1..n : \E m \in 1..Len(parts[k]) : q = L[k - 1] + m
    BY <1>2, <2>2 DEF Covers
  <2>4. L[k] = L[k - 1] + Len(parts[k]) /\ L[k - 1] \in Nat /\ Len(parts[k]) \in Nat
    <3>1. k - 1 \in 0..n
      BY <1>2
    <3>2. Len(parts[k]) \in Nat
      BY <1>1
    <3> QED BY <1>6, <3>1, <3>2
  <2>5. q \in L[k - 1] + 1 .. L[k]
    BY <2>3, <2>4
  <2> QED BY <2>5
<1>9. TextLaid(L, tks)
  BY <1>4, <1>6, <1>7, <1>8 DEF TextLaid, F, n
<1> QED BY <1>9

\* The text of a pointer is a pointer.
LEMMA TextIsPointer ==
  ASSUME NEW tks \in Seq(MadeTokens)
  PROVE  PointerText(tks) \in Seq(Char) /\ IsPointer(PointerText(tks))
<1> DEFINE F == PointerText(tks)
           n == Len(tks)
<1>1. PICK L : TextLaid(L, tks)
  BY TextIsLaid
<1>2. n \in Nat /\ \A h \in 1..n : tks[h] \in MadeTokens
  OBVIOUS
<1>3. /\ F \in Seq(Char) /\ Len(F) \in Nat /\ L[0] = 0
      /\ \A h \in 1..n : Stands(F, L[h - 1], L[h], Body(tks[h]))
      /\ \A q \in 1..Len(F) : \E h \in 1..n : q \in L[h - 1] + 1 .. L[h]
  BY <1>1 DEF TextLaid
<1> HIDE DEF F, n
<1>4. ASSUME F # <<>>
      PROVE  F[1] = "/"
  <2>1. Len(F) >= 1
    BY <1>3, <1>4
  <2>2. n >= 1
    BY <1>2, <1>3, <2>1
  <2>3. 1 \in 1..n /\ 1 - 1 = 0
    BY <1>2, <2>2
  <2>4. Stands(F, 0, L[1], Body(tks[1]))
    BY <1>3, <2>3
  <2> QED BY <2>4 DEF Stands
<1>5. ASSUME NEW q \in 1..Len(F), F[q] = "~"
      PROVE  q < Len(F) /\ F[q + 1] \in {"0", "1"}
  <2>1. PICK h \in 1..n : q \in L[h - 1] + 1 .. L[h]
    BY <1>3
  <2> DEFINE a == L[h - 1]
             c == L[h]
             body == Body(tks[h])
  <2>2. Stands(F, a, c, body) /\ q \in a + 1 .. c
    BY <1>3, <2>1
  <2>3. body \in Seq(Char) /\ EscapesFrom(body, 1)
    BY <1>2, BodyFacts
  <2> HIDE DEF a, c, body
  <2>4. /\ a \in Nat /\ c = a + 1 + Len(body) /\ c =< Len(F) /\ F[a + 1] = "/"
        /\ \A m \in 1..Len(body) : F[a + 1 + m] = body[m]
    BY <2>2 DEF Stands
  <2>5. Len(body) \in Nat /\ \A m \in 1..Len(body) : body[m] = "~" =>
                                m < Len(body) /\ body[m + 1] \in {"0", "1"}
    BY <2>3 DEF EscapesFrom
  <2>6. q # a + 1
    BY <1>5, <2>4
  <2> DEFINE m == q - (a + 1)
             z == Len(body)
  <2>7. m \in 1..z /\ q = a + 1 + m
    BY <2>2, <2>4, <2>5, <2>6
  <2> HIDE DEF m
  <2>8. body[m] = "~"
    BY <1>5, <2>4, <2>7
  <2>9. m < z /\ body[m + 1] \in {"0", "1"}
    BY <2>5, <2>7, <2>8
  <2> HIDE DEF z
  <2>10. m + 1 \in 1..z /\ a + 1 + (m + 1) = q + 1 /\ q + 1 =< c
    BY <2>4, <2>5, <2>7, <2>9 DEF z
  <2>11. F[q + 1] = body[m + 1]
    <3>1. F[a + 1 + (m + 1)] = body[m + 1]
      BY <2>4, <2>10 DEF z
    <3> QED BY <2>10, <3>1
  <2>12. q < Len(F)
    BY <1>3, <2>4, <2>10
  <2> QED BY <2>9, <2>11, <2>12
<1> QED BY <1>3, <1>4, <1>5 DEF IsPointer, F

\* The canonical form of a token is a token that the program makes.
LEMMA CanonicalIsMade ==
  ASSUME NEW t \in MadeTokens
  PROVE  Canonical(t) \in MadeTokens
<1>1. Body(t) \in Seq(Char) /\ Classified(DecodeToken(Body(t))) = Canonical(t)
  BY BodyFacts
<1>2. PICK out \in [1..Len(Body(t)) + 1 -> Seq(Char)] : Decodes(out, Body(t))
  BY <1>1, DecodeUnfolds
<1>3. DecodeToken(Body(t)) \in Seq(Char)
  <2>1. 1 \in 1..Len(Body(t)) + 1
    BY <1>1
  <2> QED BY <1>2, <2>1 DEF Decodes
<1> QED BY <1>1, <1>3, ClassifiedIsMade

\* Where a token stands and no other '/' follows, splitting finds it.
LEMMA StandsIsPart ==
  ASSUME NEW F \in Seq(Char), NEW a, NEW c, NEW t \in MadeTokens, Stands(F, a, c, Body(t))
  PROVE  /\ a + 2 \in 2..Len(F) + 1 /\ c \in Nat /\ c =< Len(F) /\ NoSlash(F, a + 2, c)
         /\ Part(F, a + 2, c) = Canonical(t) /\ a + 1 =< c
<1> DEFINE body == Body(t)
           b == a + 2
           raw == SubSeq(F, b, c)
           n == Len(F)
           z == Len(body)
<1>1. body \in Seq(Char) /\ Classified(DecodeToken(body)) = Canonical(t)
      /\ \A q \in 1..z : body[q] # "/"
  BY BodyFacts
<1>2. /\ a \in Nat /\ c = a + 1 + z /\ c =< n /\ F[a + 1] = "/"
      /\ \A q \in 1..z : F[a + 1 + q] = body[q]
  BY DEF Stands
<1>3. n \in Nat /\ z \in Nat /\ \A q \in 1..n : F[q] \in Char
  BY <1>1
<1> HIDE DEF body, n, z
<1>4. b \in 2..n + 1 /\ c \in Nat /\ a + 1 =< c
  BY <1>2, <1>3
<1>5. ASSUME NEW q \in b..c
      PROVE  F[q] # "/" /\ F[q] \in Char
  <2> DEFINE m == q - (a + 1)
  <2>1. m \in 1..z /\ q = a + 1 + m /\ q \in 1..n
    BY <1>2, <1>3, <1>4
  <2> HIDE DEF m
  <2> QED BY <1>1, <1>2, <1>3, <2>1
<1>6. NoSlash(F, b, c)
  BY <1>5 DEF NoSlash
<1>7. raw = body
  <2>1. /\ raw \in Seq(Char)
        /\ Len(raw) = IF b <= c THEN c - b + 1 ELSE 0
        /\ \A q \in 1..c - b + 1 : raw[q] = F[b + q - 1]
    <3>1. b \in Int /\ c \in Int
      BY <1>2, <1>4
    <3>2. \A q \in b..c : F[q] \in Char
      BY <1>5
    <3> HIDE DEF b
    <3> QED BY <3>1, <3>2, SubSeqProperties
  <2> HIDE DEF raw
  <2>2. Len(raw) = z
    BY <1>2, <1>3, <2>1
  <2>3. ASSUME NEW q \in 1..z
        PROVE  raw[q] = body[q]
    <3>1. q \in 1..c - b + 1 /\ b + q - 1 = a + 1 + q
      BY <1>2, <1>3
    <3>2. raw[q] = F[a + 1 + q]
      BY <2>1, <3>1
    <3> QED BY <1>2, <3>2
  <2>4. Len(body) = z
    BY DEF z
  <2> QED BY <1>1, <2>1, <2>2, <2>3, <2>4, SeqEqual
<1> QED BY <1>1, <1>2, <1>4, <1>6, <1>7 DEF Part, body, n

\* Parsing undoes writing, but for the text of an index.
LEMMA ParseText ==
  ASSUME NEW tks \in Seq(MadeTokens)
  PROVE  ParsePointer(PointerText(tks)) = CanonicalTokens(tks)
<1> DEFINE F == PointerText(tks)
           m == Len(tks)
           n == Len(F)
           canon == CanonicalTokens(tks)
<1>1. PICK L : TextLaid(L, tks)
  BY TextIsLaid
<1>2. m \in Nat /\ \A h \in 1..m : tks[h] \in MadeTokens
  OBVIOUS
<1>3. /\ F \in Seq(Char) /\ n \in Nat /\ L[0] = 0 /\ L[m] = n
      /\ \A h \in 1..m : Stands(F, L[h - 1], L[h], Body(tks[h]))
      /\ \A q \in 1..n : \E h \in 1..m : q \in L[h - 1] + 1 .. L[h]
  BY <1>1 DEF TextLaid
<1>4. canon \in Seq(MadeTokens) /\ Len(canon) = m /\ \A h \in 1..m : canon[h] = Canonical(tks[h])
  <2>1. \A h \in 1..m : Canonical(tks[h]) \in MadeTokens
    BY <1>2, CanonicalIsMade
  <2> QED BY <1>2, <2>1 DEF CanonicalTokens
<1> HIDE DEF F, m, n, canon
<1>5. CASE m = 0
  <2>1. n = 0
    BY <1>3, <1>5
  <2>2. F = <<>>
    BY <1>3, <2>1, EmptySeq DEF n
  <2>3. canon = <<>>
    BY <1>4, <1>5, EmptySeq
  <2>4. ParsePointer(F) = <<>>
    BY <1>3, <2>2, ParseIsTokens
  <2> QED BY <2>3, <2>4 DEF F, canon
<1>6. CASE m # 0
  <2>1. ASSUME NEW h \in 1..m
        PROVE  /\ L[h - 1] + 2 \in 2..n + 1 /\ L[h] \in Nat /\ L[h] =< n
               /\ NoSlash(F, L[h - 1] + 2, L[h]) /\ L[h - 1] + 1 =< L[h]
               /\ Part(F, L[h - 1] + 2, L[h]) = canon[h]
               /\ F[L[h - 1] + 1] = "/" /\ L[h - 1] \in Nat
    <3> DEFINE t == tks[h]
               a == L[h - 1]
               c == L[h]
    <3>1. t \in MadeTokens /\ Stands(F, a, c, Body(t)) /\ canon[h] = Canonical(t)
      BY <1>2, <1>3, <1>4
    <3> HIDE DEF t, a, c
    <3>2. /\ a + 2 \in 2..n + 1 /\ c \in Nat /\ c =< n /\ NoSlash(F, a + 2, c)
          /\ Part(F, a + 2, c) = Canonical(t) /\ a + 1 =< c
      BY <1>3, <3>1, StandsIsPart DEF n
    <3>3. F[a + 1] = "/" /\ a \in Nat
      BY <3>1 DEF Stands
    <3> QED BY <3>1, <3>2, <3>3 DEF t, a, c
  <2>2. n >= 1
    <3>1. 1 \in 1..m
      BY <1>2, <1>6
    <3>2. L[1 - 1] = 0
      BY <1>3
    <3>3. 0 + 1 =< L[1] /\ L[1] =< n /\ L[1] \in Nat
      BY <2>1, <3>1, <3>2
    <3> QED BY <1>3, <3>3
  <2>3. PICK from \in [2..Len(F) + 1 -> Seq(MadeTokens)] : Splits(from, F)
    BY <1>3, <2>2, TokensUnfold DEF n
  <2>4. /\ Tokens(F) = from[2]
        /\ \A b \in 2..n + 1 :
             /\ NoSlash(F, b, n) => from[b] = <<Part(F, b, n)>>
             /\ \A j \in b..n : F[j] = "/" /\ NoSlash(F, b, j - 1) =>
                  from[b] = <<Part(F, b, j - 1)>> \o from[j + 1]
    BY <2>3 DEF Splits, n
  <2> DEFINE D == 0..m - 1
             rank == [k \in D |-> m - 1 - k]
             rest(k) == SubSeq(canon, k + 1, m)
             Right == {k \in D : from[L[k] + 2] = rest(k)}
  <2>5. rank \in [D -> Nat] /\ 0 \in D
    BY <1>2, <1>6
  <2>6. ASSUME NEW k \in D, \A j \in D : rank[j] < rank[k] => j \in Right
        PROVE  k \in Right
    <3> DEFINE h == k + 1
               b == L[k] + 2
               c == L[h]
    <3>1. h \in 1..m /\ h - 1 = k /\ h \in 1..Len(canon) /\ m \in h..Len(canon)
      BY <1>2, <1>4
    <3>2. /\ b \in 2..n + 1 /\ c \in Nat /\ c =< n /\ NoSlash(F, b, c)
          /\ Part(F, b, c) = canon[h]
      <4>1. L[h - 1] = L[k]
        BY <3>1
      <4> QED BY <2>1, <3>1, <4>1
    <3>3. rest(k) = <<canon[h]>> \o SubSeq(canon, h + 1, m)
      BY <1>4, <3>1, SubSeqRecursiveFirst
    <3>4. CASE h = m
      <4>1. c = n
        BY <1>3, <3>4
      <4>2. from[b] = <<canon[h]>>
        BY <2>4, <3>2, <4>1
      <4>3. SubSeq(canon, h + 1, m) = <<>>
        <5>1. h + 1 \in Int /\ m \in Int /\ m < h + 1
          BY <1>2, <3>4
        <5> QED BY <5>1, SubSeqEmpty
      <4>4. <<canon[h]>> \o <<>> = <<canon[h]>>
        <5>1. canon[h] \in MadeTokens
          BY <1>4, <3>1
        <5>2. <<canon[h]>> \in Seq(MadeTokens)
          BY <5>1
        <5> QED BY <5>2, ConcatEmptySeq
      <4> QED BY <3>3, <4>2, <4>3, <4>4
    <3>5. CASE h # m
      <4>1. h + 1 \in 1..m /\ (h + 1) - 1 = h /\ h \in D /\ rank[h] < rank[k]
        BY <1>2, <3>1, <3>5
      <4>2. F[c + 1] = "/" /\ c + 2 \in 2..n + 1
        <5>1. F[L[(h + 1) - 1] + 1] = "/" /\ L[(h + 1) - 1] + 2 \in 2..n + 1
          BY <2>1, <4>1
        <5> QED BY <4>1, <5>1
      <4>3. from[c + 2] = rest(h)
        BY <2>6, <4>1
      <4> DEFINE j == c + 1
      <4>4. j \in b..n /\ j - 1 = c /\ j + 1 = c + 2
        <5>1. L[h - 1] + 1 =< L[h] /\ L[h - 1] \in Nat
          BY <2>1, <3>1
        <5>2. L[k] + 1 =< c /\ L[k] \in Nat
          BY <3>1, <5>1
        <5>3. c + 2 =< n + 1 /\ c \in Nat
          BY <1>3, <3>2, <4>2
        <5> HIDE DEF c
        <5> QED BY <1>3, <5>2, <5>3
      <4> HIDE DEF b, c, j
      <4>5. F[j] = "/" /\ NoSlash(F, b, j - 1)
        BY <3>2, <4>2, <4>4 DEF j
      <4>6. from[b] = <<Part(F, b, j - 1)>> \o from[j + 1]
        BY <2>4, <3>2, <4>4, <4>5
      <4>7. from[b] = <<canon[h]>> \o rest(h)
        BY <3>2, <4>3, <4>4, <4>6
      <4> QED BY <3>3, <4>7 DEF b
    <3> QED BY <3>4, <3>5
  <2>7. D \subseteq Right
    <3> HIDE DEF D, rank, Right
    <3> QED BY <2>5, <2>6, ByRank
  <2>8. from[2] = rest(0)
    <3>1. L[0] + 2 = 2
      BY <1>3
    <3> QED BY <2>5, <2>7, <3>1
  <2>9. rest(0) = canon
    BY <1>4, SubSeqFull
  <2>10. ParsePointer(F) = Tokens(F)
    BY <1>3, <2>2, ParseIsTokens DEF n
  <2> QED BY <2>4, <2>8, <2>9, <2>10 DEF F, canon
<1> QED BY <1>5, <1>6

\* Parsing loses nothing of a pointer.
LEMMA ParseFacts ==
  ASSUME NEW s \in Seq(Char), IsPointer(s)
  PROVE  ParsePointer(s) \in Seq(MadeTokens) /\ Joined(ParsePointer(s)) = s
<1>1. CASE s = <<>>
  <2>1. ParsePointer(s) = <<>>
    BY <1>1, ParseIsTokens
  <2>2. <<>> \in Seq(MadeTokens)
    OBVIOUS
  <2> QED BY <1>1, <2>1, <2>2, JoinedNone
<1>2. CASE s # <<>>
  <2>1. Len(s) >= 1 /\ s[1] = "/"
    BY <1>2 DEF IsPointer
  <2>2. EscapesFrom(s, 1)
    BY DEF IsPointer, EscapesFrom
  <2>3. ParsePointer(s) = Tokens(s)
    BY <2>1, ParseIsTokens
  <2> QED BY <2>1, <2>2, <2>3, JoinedTokens
<1> QED BY <1>1, <1>2

\* A number is written as a text.
LEMMA NumberTextIsText ==
  ASSUME NEW n \in Int
  PROVE  NumberText(n) \in Seq(Char)
<1>1. CASE n < 0
  <2> DEFINE minus == "-"
             t == NaturalText(-n)
             w == <<minus>> \o t
  <2>1. -n \in Nat
    BY <1>1
  <2>2. IsText(t, -n)
    BY <2>1, NaturalTextIsText
  <2>3. t \in Seq(Char) /\ minus \in Char
    BY <2>2, SeqMonotonic DEF IsText, Char
  <2>4. NumberText(n) = w
    BY <1>1 DEF NumberText
  <2> HIDE DEF minus, t
  <2>5. w \in Seq(Char)
    BY <2>3, ConsElements
  <2> QED BY <2>4, <2>5
<1>2. CASE ~(n < 0)
  <2>1. n \in Nat /\ NumberText(n) = NaturalText(n)
    BY <1>2 DEF NumberText
  <2>2. IsText(NaturalText(n), n)
    BY <2>1, NaturalTextIsText
  <2> QED BY <2>1, <2>2, SeqMonotonic DEF IsText, Char
<1> QED BY <1>1, <1>2

\* The token that appended(index) appends.
LEMMA IndexTokenIsMade ==
  ASSUME NEW n \in -LongLongMax - 1 .. LongLongMax
  PROVE  (IF n >= 0 THEN Token("Index", n, NumberText(n)) ELSE Token("Key", 0, NumberText(n)))
           \in MadeTokens
<1> DEFINE T == Seq(Char)
           key == NumberText(n)
<1>1. n \in Int /\ LongLongMax \in Nat
  BY LongLongMaxAssumption
<1>2. key \in T
  BY <1>1, NumberTextIsText
<1>3. MadeTokens = {t \in [kind : {"Key", "Index"}, index : Int, key : T] :
                      \/ t.kind = "Key" /\ t.index = 0 /\ ParseArrayIndex(t.key).ok = FALSE
                      \/ t.kind = "Index" /\ t.index \in 0..LongLongMax}
  BY DEF MadeTokens
<1>4. n < 0 => ParseArrayIndex(key).ok = FALSE
  BY <1>1, NegativeIsKey
<1> HIDE DEF T, key
<1>5. CASE n >= 0
  <2> DEFINE t == [kind |-> "Index", index |-> n, key |-> key]
  <2>1. t \in [kind : {"Key", "Index"}, index : Int, key : T]
    BY <1>1, <1>2
  <2>2. t.kind = "Index" /\ t.index \in 0..LongLongMax
    BY <1>1, <1>5
  <2>3. t = Token("Index", n, key)
    BY DEF Token
  <2> HIDE DEF t
  <2>4. t \in MadeTokens
    BY <1>3, <2>1, <2>2
  <2> QED BY <1>5, <2>3, <2>4 DEF key
<1>6. CASE ~(n >= 0)
  <2> DEFINE t == [kind |-> "Key", index |-> 0, key |-> key]
  <2>1. t \in [kind : {"Key", "Index"}, index : Int, key : T]
    BY <1>1, <1>2
  <2>2. t.kind = "Key" /\ t.index = 0 /\ t.key = key
    OBVIOUS
  <2>3. t = Token("Key", 0, key)
    BY DEF Token
  <2>4. ParseArrayIndex(t.key).ok = FALSE
    BY <1>1, <1>4, <1>6, <2>2
  <2> HIDE DEF t
  <2>5. t \in MadeTokens
    BY <1>3, <2>1, <2>2, <2>4
  <2> QED BY <1>6, <2>3, <2>5 DEF key
<1> QED BY <1>5, <1>6

(***************************************************************************)
(* Pointers                                                                *)
(***************************************************************************)

\* What is true of a pointer however it was made.
PointerInv ==
  /\ pc \in {"start", "rejected", "parsed", "composed"}
  /\ input \in Seq(Char)
  /\ tokens \in Seq(MadeTokens)
  /\ pc = "rejected" => ~IsPointer(input)
  /\ pc = "parsed" => IsPointer(input) /\ tokens = ParsePointer(input)

\* The texts given to create, append and the patch builder are texts.
LEMMA TextsAreChars ==
  /\ \A s \in Inputs : s \in Seq(Char)
  /\ \A s \in Keys : s \in Seq(Char)
  /\ \A s \in RawTexts : s \in Seq(Char)
<1>1. \A s \in Seq(STRING) : s \in Seq(Char)
  BY SeqMonotonic DEF Char
<1> QED BY <1>1, TextsAssumption, RawTextsAssumption

\* The program starts with an empty pointer.
LEMMA PointerInit == WireInit => PointerInv
<1> SUFFICES ASSUME WireInit
             PROVE  PointerInv
  OBVIOUS
<1>1. pc = "start" /\ input = <<>> /\ tokens = <<>>
  BY DEF WireInit, Init
<1>2. <<>> \in Seq(Char) /\ <<>> \in Seq(MadeTokens)
  OBVIOUS
<1> QED BY <1>1, <1>2 DEF PointerInv

\* append() keeps the tokens of the pointer, and adds one.
LEMMA ExtendKeeps ==
  ASSUME PointerInv, NEW token \in MadeTokens, Extend(token)
  PROVE  PointerInv'
<1>1. pc' = "composed" /\ tokens' = Append(tokens, token) /\ input' = <<>>
  BY DEF Extend
<1>2. Append(tokens, token) \in Seq(MadeTokens)
  BY AppendProperties DEF PointerInv
<1>3. <<>> \in Seq(Char)
  OBVIOUS
<1> QED BY <1>1, <1>2, <1>3 DEF PointerInv

\* create() and append() make tokens of the kind assumed, and patches none.
LEMMA PointerStepKeeps == PointerInv /\ [WireNext]_<<vars, wireVars>> => PointerInv'
<1> SUFFICES ASSUME PointerInv, [WireNext]_<<vars, wireVars>>
             PROVE  PointerInv'
  OBVIOUS
<1>1. CASE UNCHANGED vars
  BY <1>1 DEF vars, PointerInv
<1>2. ASSUME NEW s \in Inputs, Create(s)
      PROVE  PointerInv'
  <2>1. s \in Seq(Char) /\ input' = s
    BY <1>2, TextsAreChars DEF Create
  <2>2. ValidPointerSyntax(s) <=> IsPointer(s)
    BY <2>1, SyntaxIsGrammar
  <2>3. CASE IsPointer(s)
    <3>1. pc' = "parsed" /\ tokens' = ParsePointer(s)
      BY <1>2, <2>2, <2>3 DEF Create
    <3>2. ParsePointer(s) \in Seq(MadeTokens)
      BY <2>1, <2>3, ParseFacts
    <3> QED BY <2>1, <2>3, <3>1, <3>2 DEF PointerInv
  <2>4. CASE ~IsPointer(s)
    <3>1. pc' = "rejected" /\ tokens' = tokens
      BY <1>2, <2>2, <2>4 DEF Create
    <3> QED BY <2>1, <2>4, <3>1 DEF PointerInv
  <2> QED BY <2>3, <2>4
<1>3. ASSUME NEW key \in Keys, AppendKey(key)
      PROVE  PointerInv'
  <2>1. key \in Seq(Char)
    BY TextsAreChars
  <2>2. Classified(key) \in MadeTokens
    BY <2>1, ClassifiedIsMade
  <2> QED BY <1>3, <2>2, ExtendKeeps DEF AppendKey
<1>4. ASSUME NEW index \in Indices, AppendIndex(index)
      PROVE  PointerInv'
  <2>1. index \in -LongLongMax - 1 .. LongLongMax
    BY IndicesAssumption
  <2> QED BY <1>4, <2>1, IndexTokenIsMade, ExtendKeeps DEF AppendIndex
<1>5. CASE PointerStep
  BY <1>2, <1>3, <1>4, <1>5 DEF PointerStep, Next
<1>6. CASE WireStep /\ UNCHANGED vars
  BY <1>1, <1>6
<1>7. CASE UNCHANGED <<vars, wireVars>>
  BY <1>1, <1>7
<1> QED BY <1>5, <1>6, <1>7 DEF WireNext

\* Pointers are made of such tokens for good.
LEMMA PointersAreMade == WireSpec => []PointerInv
<1> QED BY PointerInit, PointerStepKeeps, PTL DEF WireSpec

\* A pointer that create() accepts has the tokens its text says: escaping them
\* again, each after a /, gives the text back; and only texts are accepted
\* that RFC 6901 takes for pointers.
THEOREM CreatedFaithfully == WireSpec => []CreateFaithful
<1>1. PointerInv => CreateFaithful
  <2> SUFFICES ASSUME PointerInv
               PROVE  CreateFaithful
    OBVIOUS
  <2>1. pc = "parsed" => Joined(tokens) = input
    BY ParseFacts DEF PointerInv
  <2> QED BY <2>1 DEF CreateFaithful, PointerInv, Joined, SlashedParts
<1> QED BY <1>1, PointersAreMade, PTL

\* What to_string() writes of any pointer, also one put together with append(),
\* is accepted by create(), which reads the same tokens; the text of an
\* index becomes canonical.
THEOREM ReparsedAsWritten == WireSpec => []ReparseAgrees
<1>1. PointerInv => ReparseAgrees
  <2> SUFFICES ASSUME PointerInv
               PROVE  ReparseAgrees
    OBVIOUS
  <2>1. tokens \in Seq(MadeTokens)
    BY DEF PointerInv
  <2>2. PointerText(tokens) \in Seq(Char) /\ IsPointer(PointerText(tokens))
    BY <2>1, TextIsPointer
  <2>3. ValidPointerSyntax(PointerText(tokens))
    BY <2>2, SyntaxIsGrammar
  <2>4. ParsePointer(PointerText(tokens)) = CanonicalTokens(tokens)
    BY <2>1, ParseText
  <2> QED BY <2>3, <2>4 DEF ReparseAgrees
<1> QED BY <1>1, PointersAreMade, PTL

(***************************************************************************)
(* Entries                                                                 *)
(***************************************************************************)

\* The members of an entry that are read as pointers are texts.
Legible(entry) ==
  IsObject(entry) => \A name \in {"path", "from"} :
                       HasText(entry, name) => TextAt(entry, name) \in Seq(Char)

\* The names that RFC 6902 gives the operations.
OperationNames == {"add", "copy", "move", "remove", "replace", "test"}

\* The names of the operations and their kinds.
LEMMA KindFacts ==
  /\ DOMAIN KindOf = OperationNames
  /\ KindOf["add"] = "Add" /\ NameOf("Add") = "add"
  /\ KindOf["copy"] = "Copy" /\ NameOf("Copy") = "copy"
  /\ KindOf["move"] = "Move" /\ NameOf("Move") = "move"
  /\ KindOf["remove"] = "Remove" /\ NameOf("Remove") = "remove"
  /\ KindOf["replace"] = "Replace" /\ NameOf("Replace") = "replace"
  /\ KindOf["test"] = "Test" /\ NameOf("Test") = "test"
<1>1. /\ DOMAIN KindOf = OperationNames
      /\ KindOf["add"] = "Add" /\ KindOf["copy"] = "Copy" /\ KindOf["move"] = "Move"
      /\ KindOf["remove"] = "Remove" /\ KindOf["replace"] = "Replace" /\ KindOf["test"] = "Test"
  BY DEF KindOf, OperationNames
<1> QED BY <1>1 DEF NameOf, OperationNames

\* What an entry needs, by the name of its operation.
LEMMA NeedsFacts ==
  ASSUME NEW name \in OperationNames
  PROVE  /\ TakesFrom(KindOf[name]) <=> name \in {"move", "copy"}
         /\ TakesValue(KindOf[name]) <=> name \in {"add", "replace", "test"}
BY KindFacts DEF TakesFrom, TakesValue, OperationNames

\* The entries without fault are those that RFC 6902 allows.
LEMMA FaultIsMeant ==
  ASSUME NEW entry, Legible(entry)
  PROVE  Fault(entry) = "none" <=> WellFormed(entry)
<1> DEFINE op == TextAt(entry, "op")
           path == TextAt(entry, "path")
           from == TextAt(entry, "from")
           kind == KindOf[op]
<1>1. ASSUME IsObject(entry), NEW name \in {"path", "from"}, HasText(entry, name)
      PROVE  ValidPointerSyntax(TextAt(entry, name)) <=> IsPointer(TextAt(entry, name))
  <2>1. TextAt(entry, name) \in Seq(Char)
    BY <1>1 DEF Legible
  <2> QED BY <2>1, SyntaxIsGrammar
<1>2. WellFormed(entry) <=>
        /\ IsObject(entry) /\ HasText(entry, "op") /\ op \in OperationNames
        /\ HasText(entry, "path") /\ IsPointer(path)
        /\ op \in {"move", "copy"} => HasText(entry, "from") /\ IsPointer(from)
        /\ op \in {"add", "replace", "test"} => HasMember(entry, "value")
  <2> HIDE DEF op
  <2> QED BY Zenon DEF WellFormed, OperationNames, HasMember, op, path, from
<1>3. CASE ~IsObject(entry)
  BY <1>2, <1>3 DEF Fault
<1>4. CASE IsObject(entry) /\ ~HasText(entry, "op")
  BY <1>2, <1>4 DEF Fault
<1>5. CASE IsObject(entry) /\ HasText(entry, "op") /\ op \notin OperationNames
  <2>1. Fault(entry) = "InvalidOperationName"
    BY <1>5, KindFacts DEF Fault
  <2> QED BY <1>2, <1>5, <2>1
<1>6. CASE /\ IsObject(entry) /\ HasText(entry, "op") /\ op \in OperationNames
           /\ ~HasText(entry, "path")
  <2>1. Fault(entry) = "MissingPath"
    BY <1>6, KindFacts DEF Fault
  <2> QED BY <1>2, <1>6, <2>1
<1>7. CASE /\ IsObject(entry) /\ HasText(entry, "op") /\ op \in OperationNames
           /\ HasText(entry, "path")
  <2> HIDE DEF op, path, from, kind
  <2>1. Fault(entry) = IF ~ValidPointerSyntax(path) THEN "InvalidTargetPointer"
                       ELSE IF TakesFrom(kind) /\ ~HasText(entry, "from") THEN "MissingFrom"
                       ELSE IF TakesFrom(kind) /\ ~ValidPointerSyntax(from)
                       THEN "InvalidFromPointer"
                       ELSE IF TakesValue(kind) /\ ~HasMember(entry, "value") THEN "MissingValue"
                       ELSE "none"
    BY <1>7, KindFacts, Zenon DEF Fault, op, path, from, kind
  <2>2. ValidPointerSyntax(path) <=> IsPointer(path)
    BY <1>1, <1>7 DEF path
  <2>3. HasText(entry, "from") => (ValidPointerSyntax(from) <=> IsPointer(from))
    BY <1>1, <1>7 DEF from
  <2>4. /\ TakesFrom(kind) <=> op \in {"move", "copy"}
        /\ TakesValue(kind) <=> op \in {"add", "replace", "test"}
    BY <1>7, NeedsFacts DEF kind
  <2>5. CASE ~IsPointer(path)
    <3>1. Fault(entry) = "InvalidTargetPointer"
      BY <2>1, <2>2, <2>5
    <3> QED BY <1>2, <2>5, <3>1
  <2>6. CASE IsPointer(path) /\ TakesFrom(kind) /\ ~HasText(entry, "from")
    <3>1. Fault(entry) = "MissingFrom"
      BY <2>1, <2>2, <2>6
    <3> QED BY <1>2, <2>4, <2>6, <3>1
  <2>7. CASE IsPointer(path) /\ TakesFrom(kind) /\ HasText(entry, "from") /\ ~IsPointer(from)
    <3>1. Fault(entry) = "InvalidFromPointer"
      BY <2>1, <2>2, <2>3, <2>7
    <3> QED BY <1>2, <2>4, <2>7, <3>1
  <2>8. CASE /\ IsPointer(path)
             /\ TakesFrom(kind) => HasText(entry, "from") /\ IsPointer(from)
             /\ TakesValue(kind) /\ ~HasMember(entry, "value")
    <3>1. Fault(entry) = "MissingValue"
      BY <2>1, <2>2, <2>3, <2>8
    <3> QED BY <1>2, <2>4, <2>8, <3>1
  <2>9. CASE /\ IsPointer(path)
             /\ TakesFrom(kind) => HasText(entry, "from") /\ IsPointer(from)
             /\ TakesValue(kind) => HasMember(entry, "value")
    <3>1. Fault(entry) = "none"
      BY <2>1, <2>2, <2>3, <2>9
    <3>2. WellFormed(entry)
      BY <1>2, <1>7, <2>4, <2>9
    <3> QED BY <3>1, <3>2
  <2> QED BY <2>5, <2>6, <2>7, <2>8, <2>9
<1> QED BY <1>3, <1>4, <1>5, <1>6, <1>7

\* An entry with these members: a path, and a from or a value if there is one.
HasMembers(entry, name, path, from, value) ==
  /\ IsObject(entry) /\ HasText(entry, "op") /\ TextAt(entry, "op") = name
  /\ HasText(entry, "path") /\ TextAt(entry, "path") = path
  /\ name \in {"move", "copy"} => HasText(entry, "from") /\ TextAt(entry, "from") = from
  /\ name \notin {"move", "copy"} => ~HasMember(entry, "from")
  /\ name \in {"add", "replace", "test"} => HasMember(entry, "value") /\ entry.members.value = value

\* It is at fault only for its texts, and it compiles to what it says.
LEMMA MembersCompile ==
  ASSUME NEW entry, NEW name \in OperationNames, NEW path \in Seq(Char), NEW from, NEW value,
         name \in {"move", "copy"} => from \in Seq(Char),
         HasMembers(entry, name, path, from, value)
  PROVE  /\ Legible(entry)
         /\ Fault(entry) = "none" <=>
              IsPointer(path) /\ (name \in {"move", "copy"} => IsPointer(from))
         /\ CompiledEntry(entry) =
              Op(KindOf[name], ParsePointer(path),
                 IF name \in {"move", "copy"} THEN {ParsePointer(from)} ELSE {},
                 IF name \in {"add", "replace", "test"} THEN value ELSE Null)
<1>1. Legible(entry)
  BY Zenon DEF Legible, HasMembers, HasText
<1>2. WellFormed(entry) <=> IsPointer(path) /\ (name \in {"move", "copy"} => IsPointer(from))
  <2>1. "value" \in DOMAIN entry.members <=> HasMember(entry, "value")
    BY DEF HasMember
  <2>2. name \in {"add", "remove", "replace", "move", "copy", "test"}
    BY DEF OperationNames
  <2> QED BY <2>1, <2>2 DEF WellFormed, HasMembers
<1>3. TextAt(entry, "op") = name /\ TextAt(entry, "path") = path
      /\ (name \in {"move", "copy"} => TextAt(entry, "from") = from)
      /\ (name \in {"add", "replace", "test"} => entry.members.value = value)
  BY DEF HasMembers
<1>4. /\ TakesFrom(KindOf[name]) <=> name \in {"move", "copy"}
      /\ TakesValue(KindOf[name]) <=> name \in {"add", "replace", "test"}
  BY NeedsFacts
<1>5. CompiledEntry(entry) =
        Op(KindOf[name], ParsePointer(path),
           IF TakesFrom(KindOf[name]) THEN {ParsePointer(TextAt(entry, "from"))} ELSE {},
           IF TakesValue(KindOf[name]) THEN entry.members.value ELSE Null)
  BY <1>3 DEF CompiledEntry
<1>6. CASE name \in {"move", "copy"}
  <2>1. /\ TakesFrom(KindOf[name]) /\ ~TakesValue(KindOf[name])
        /\ name \notin {"add", "replace", "test"}
    BY <1>4, <1>6
  <2> QED BY <1>1, <1>2, <1>3, <1>5, <1>6, <2>1, FaultIsMeant
<1>7. CASE name \in {"add", "replace", "test"}
  <2>1. ~TakesFrom(KindOf[name]) /\ TakesValue(KindOf[name]) /\ name \notin {"move", "copy"}
    BY <1>4, <1>7
  <2> QED BY <1>1, <1>2, <1>3, <1>5, <1>7, <2>1, FaultIsMeant
<1>8. CASE name \notin {"move", "copy"} /\ name \notin {"add", "replace", "test"}
  <2>1. ~TakesFrom(KindOf[name]) /\ ~TakesValue(KindOf[name])
    BY <1>4, <1>8
  <2> QED BY <1>1, <1>2, <1>3, <1>5, <1>8, <2>1, FaultIsMeant
<1> QED BY <1>6, <1>7, <1>8

(***************************************************************************)
(* Operations                                                              *)
(***************************************************************************)

\* The operation of a name with these arguments, as far as it takes them.
OpNamed(name, path, from, value) ==
  Op(KindOf[name], path, IF name \in {"move", "copy"} THEN {from} ELSE {},
     IF name \in {"add", "replace", "test"} THEN value ELSE Null)

\* The operations that parsing an entry makes.
IsMadeOp(op) ==
  \E name \in OperationNames, path, from \in Seq(MadeTokens) : \E value :
    op = OpNamed(name, path, from, value)

\* An entry without a fault is compiled to an operation that the program makes.
LEMMA CompiledIsMade ==
  ASSUME NEW entry, Legible(entry), Fault(entry) = "none"
  PROVE  IsMadeOp(CompiledEntry(entry))
<1> DEFINE name == TextAt(entry, "op")
           path == ParsePointer(TextAt(entry, "path"))
           from == ParsePointer(TextAt(entry, "from"))
           value == entry.members.value
<1>1. WellFormed(entry)
  BY FaultIsMeant
<1>2. /\ IsObject(entry) /\ name \in OperationNames
      /\ HasText(entry, "path") /\ IsPointer(TextAt(entry, "path"))
      /\ name \in {"move", "copy"} => HasText(entry, "from") /\ IsPointer(TextAt(entry, "from"))
  <2> HIDE DEF name
  <2> QED BY <1>1, Zenon DEF WellFormed, OperationNames, name
<1>3. path \in Seq(MadeTokens)
  <2>1. TextAt(entry, "path") \in Seq(Char)
    BY <1>2 DEF Legible
  <2> QED BY <1>2, <2>1, ParseFacts
<1>4. name \in {"move", "copy"} => from \in Seq(MadeTokens)
  <2>1. name \in {"move", "copy"} => TextAt(entry, "from") \in Seq(Char)
    BY <1>2 DEF Legible
  <2> QED BY <1>2, <2>1, ParseFacts
<1>5. /\ TakesFrom(KindOf[name]) <=> name \in {"move", "copy"}
      /\ TakesValue(KindOf[name]) <=> name \in {"add", "replace", "test"}
  BY <1>2, NeedsFacts
<1>6. CompiledEntry(entry) =
        Op(KindOf[name], path, IF TakesFrom(KindOf[name]) THEN {from} ELSE {},
           IF TakesValue(KindOf[name]) THEN value ELSE Null)
  BY DEF CompiledEntry
<1> DEFINE source == IF name \in {"move", "copy"} THEN from ELSE path
<1>7. source \in Seq(MadeTokens)
  BY <1>3, <1>4
<1> HIDE DEF name, path, from, value
<1>8. CompiledEntry(entry) = OpNamed(name, path, source, value)
  <2>1. CASE name \in {"move", "copy"}
    <3>1. TakesFrom(KindOf[name]) = TRUE /\ source = from
      BY <1>5, <2>1 DEF TakesFrom
    <3>2. name \notin {"add", "replace", "test"} /\ ~TakesValue(KindOf[name])
      BY <1>5, <2>1
    <3> QED BY <1>6, <2>1, <3>1, <3>2 DEF OpNamed
  <2>2. CASE name \notin {"move", "copy"}
    <3>1. ~TakesFrom(KindOf[name])
      BY <1>5, <2>2
    <3>2. CASE name \in {"add", "replace", "test"}
      BY <1>5, <1>6, <2>2, <3>1, <3>2 DEF OpNamed
    <3>3. CASE name \notin {"add", "replace", "test"}
      BY <1>5, <1>6, <2>2, <3>1, <3>3 DEF OpNamed
    <3> QED BY <3>2, <3>3
  <2> QED BY <2>1, <2>2
<1> QED BY <1>2, <1>3, <1>7, <1>8 DEF IsMadeOp

\* The operation that is meant when its pointers are read back from their texts.
Reread(op) ==
  [op EXCEPT !.path = CanonicalTokens(@), !.from = {CanonicalTokens(f) : f \in @}]

\* The entry that toJson() writes says what the operation is.
LEMMA EntryHasMembers ==
  ASSUME NEW name \in OperationNames, NEW path, NEW from, NEW value
  PROVE  HasMembers(EntryOf(OpNamed(name, path, from, value)), name,
                    PointerText(path), PointerText(from), value)
<1> DEFINE op == OpNamed(name, path, from, value)
           names == {"op", "path"} \cup (IF op.from = {} THEN {} ELSE {"from"})
                      \cup (IF TakesValue(op.kind) THEN {"value"} ELSE {})
           member(x) == IF x = "value" THEN op.value
                        ELSE Str(IF x = "op" THEN NameOf(op.kind)
                                 ELSE PointerText(IF x = "path" THEN op.path
                                                  ELSE CHOOSE f \in op.from : TRUE))
           members == [x \in names |-> member(x)]
           entry == EntryOf(op)
<1>1. /\ op.kind = KindOf[name] /\ op.path = path
      /\ op.from = (IF name \in {"move", "copy"} THEN {from} ELSE {})
      /\ op.value = (IF name \in {"add", "replace", "test"} THEN value ELSE Null)
  BY DEF OpNamed, Op
<1>2. entry = Object(members)
  BY DEF EntryOf
<1>3. TakesValue(op.kind) <=> name \in {"add", "replace", "test"}
  BY <1>1, NeedsFacts
<1>4. NameOf(op.kind) = name
  BY <1>1, KindFacts DEF OperationNames
<1> HIDE DEF op
<1>5. /\ "op" \in names /\ "path" \in names
      /\ "from" \in names <=> name \in {"move", "copy"}
      /\ "value" \in names <=> name \in {"add", "replace", "test"}
  BY <1>1, <1>3
<1>6. /\ member("op") = Str(name) /\ member("path") = Str(PointerText(path))
      /\ name \in {"move", "copy"} => member("from") = Str(PointerText(from))
      /\ name \in {"add", "replace", "test"} => member("value") = value
  BY <1>1, <1>4
<1> HIDE DEF names, member
<1>7. /\ DOMAIN members = names /\ members["op"] = Str(name)
      /\ members["path"] = Str(PointerText(path))
      /\ name \in {"move", "copy"} => members["from"] = Str(PointerText(from))
      /\ name \in {"add", "replace", "test"} => members["value"] = value
  BY <1>5, <1>6
<1> HIDE DEF members, entry
<1>8. IsObject(entry) /\ entry.members = members
  BY <1>2 DEF IsObject, Object
<1>9. \A t : Str(t).kind = "string" /\ Str(t).str = t
  BY DEF Str
<1> QED BY <1>5, <1>7, <1>8, <1>9 DEF HasMembers, HasText, HasMember, TextAt, op, entry

\* It is without fault, and it is read back as it was written.
LEMMA OpIsReread ==
  ASSUME NEW op, IsMadeOp(op)
  PROVE  /\ Legible(EntryOf(op)) /\ Fault(EntryOf(op)) = "none"
         /\ CompiledEntry(EntryOf(op)) = Reread(op)
<1>1. PICK name \in OperationNames, path \in Seq(MadeTokens), from \in Seq(MadeTokens) :
        \E value : op = OpNamed(name, path, from, value)
  BY DEF IsMadeOp
<1>2. PICK value : op = OpNamed(name, path, from, value)
  BY <1>1
<1>3. /\ PointerText(path) \in Seq(Char) /\ IsPointer(PointerText(path))
      /\ PointerText(from) \in Seq(Char) /\ IsPointer(PointerText(from))
      /\ ParsePointer(PointerText(path)) = CanonicalTokens(path)
      /\ ParsePointer(PointerText(from)) = CanonicalTokens(from)
  BY TextIsPointer, ParseText
<1>4. HasMembers(EntryOf(op), name, PointerText(path), PointerText(from), value)
  BY <1>2, EntryHasMembers
<1>5. /\ Legible(EntryOf(op)) /\ Fault(EntryOf(op)) = "none"
      /\ CompiledEntry(EntryOf(op)) =
            OpNamed(name, CanonicalTokens(path), CanonicalTokens(from), value)
  BY <1>3, <1>4, MembersCompile DEF OpNamed
<1>6. OpNamed(name, CanonicalTokens(path), CanonicalTokens(from), value) = Reread(op)
  <2> DEFINE some == IF name \in {"add", "replace", "test"} THEN value ELSE Null
  <2> HIDE DEF some
  <2>1. CASE name \in {"move", "copy"}
    <3>1. op = [kind |-> KindOf[name], path |-> path, from |-> {from}, value |-> some]
      BY <1>2, <2>1 DEF OpNamed, Op, some
    <3>2. OpNamed(name, CanonicalTokens(path), CanonicalTokens(from), value) =
            [kind |-> KindOf[name], path |-> CanonicalTokens(path),
             from |-> {CanonicalTokens(from)}, value |-> some]
      BY <2>1 DEF OpNamed, Op, some
    <3> DEFINE p == CanonicalTokens(op.path)
               g == {CanonicalTokens(f) : f \in op.from}
    <3>3. Reread(op) = [op EXCEPT !.path = p, !.from = g]
      BY DEF Reread
    <3>4. p = CanonicalTokens(path)
      BY <3>1
    <3>5. g = {CanonicalTokens(from)}
      <4>1. op.from = {from}
        BY <3>1
      <4> QED BY <4>1
    <3> HIDE DEF p, g
    <3> QED BY <3>1, <3>2, <3>3, <3>4, <3>5
  <2>2. CASE name \notin {"move", "copy"}
    <3>1. op = [kind |-> KindOf[name], path |-> path, from |-> {}, value |-> some]
      BY <1>2, <2>2 DEF OpNamed, Op, some
    <3>2. OpNamed(name, CanonicalTokens(path), CanonicalTokens(from), value) =
            [kind |-> KindOf[name], path |-> CanonicalTokens(path), from |-> {}, value |-> some]
      BY <2>2 DEF OpNamed, Op, some
    <3> DEFINE p == CanonicalTokens(op.path)
               g == {CanonicalTokens(f) : f \in op.from}
    <3>3. Reread(op) = [op EXCEPT !.path = p, !.from = g]
      BY DEF Reread
    <3>4. p = CanonicalTokens(path)
      BY <3>1
    <3>5. g = {}
      <4>1. op.from = {}
        BY <3>1
      <4> QED BY <4>1
    <3> HIDE DEF p, g
    <3> QED BY <3>1, <3>2, <3>3, <3>4, <3>5
  <2> QED BY <2>1, <2>2
<1> QED BY <1>5, <1>6

(***************************************************************************)
(* The builder's calls                                                     *)
(***************************************************************************)

\* The operands that the builder can be given.
MadeOperands == {Raw(s) : s \in Seq(Char)} \cup {Compiled(tks) : tks \in Seq(MadeTokens)}

\* An operand is read as what it means; only a raw text can be no pointer.
LEMMA OperandFacts ==
  ASSUME NEW operand \in MadeOperands
  PROVE  /\ TextOf(operand) \in Seq(Char)
         /\ ParsePointer(TextOf(operand)) = Meant(operand)
         /\ ~IsPointer(TextOf(operand)) => ~operand.compiled /\ ~IsPointer(operand.text)
<1>1. ASSUME NEW s \in Seq(Char), operand = Raw(s)
      PROVE  /\ TextOf(operand) = s /\ Meant(operand) = ParsePointer(s)
             /\ ~operand.compiled /\ operand.text = s
  BY <1>1 DEF Raw, TextOf, Meant
<1>2. ASSUME NEW tks \in Seq(MadeTokens), operand = Compiled(tks)
      PROVE  TextOf(operand) = PointerText(tks) /\ Meant(operand) = CanonicalTokens(tks)
  BY <1>2 DEF Compiled, TextOf, Meant
<1>3. CASE \E s \in Seq(Char) : operand = Raw(s)
  BY <1>1, <1>3
<1>4. CASE \E tks \in Seq(MadeTokens) : operand = Compiled(tks)
  BY <1>2, <1>4, TextIsPointer, ParseText
<1> QED BY <1>3, <1>4 DEF MadeOperands

\* The call of a name with these operands, and the entry that it assembles.
Asked(call, entry) ==
  \E name \in OperationNames, path, from \in MadeOperands : \E value :
    /\ call = OpNamed(name, path, from, value)
    /\ HasMembers(entry, name, TextOf(path), TextOf(from), value)

\* The entry that JSONPatchBuilder writes for a call is compiled to the call, or
\* faulty because of an operand of the call.
LEMMA AskedIsMeant ==
  ASSUME NEW call, NEW entry, Asked(call, entry)
  PROVE  /\ Legible(entry)
         /\ Fault(entry) = "none" =>
              CompiledEntry(entry) =
                [call EXCEPT !.path = Meant(@), !.from = {Meant(f) : f \in @}]
         /\ Fault(entry) # "none" =>
              \E operand \in {call.path} \cup call.from :
                ~operand.compiled /\ ~IsPointer(operand.text)
<1>1. PICK name \in OperationNames, path \in MadeOperands, from \in MadeOperands : \E value :
        /\ call = OpNamed(name, path, from, value)
        /\ HasMembers(entry, name, TextOf(path), TextOf(from), value)
  BY DEF Asked
<1>2. PICK value : /\ call = OpNamed(name, path, from, value)
                   /\ HasMembers(entry, name, TextOf(path), TextOf(from), value)
  BY <1>1
<1> DEFINE some == IF name \in {"add", "replace", "test"} THEN value ELSE Null
<1>3. /\ TextOf(path) \in Seq(Char) /\ ParsePointer(TextOf(path)) = Meant(path)
      /\ ~IsPointer(TextOf(path)) => ~path.compiled /\ ~IsPointer(path.text)
  BY OperandFacts
<1>4. /\ TextOf(from) \in Seq(Char) /\ ParsePointer(TextOf(from)) = Meant(from)
      /\ ~IsPointer(TextOf(from)) => ~from.compiled /\ ~IsPointer(from.text)
  BY OperandFacts
<1>5. /\ Legible(entry)
      /\ Fault(entry) = "none" <=>
           IsPointer(TextOf(path)) /\ (name \in {"move", "copy"} => IsPointer(TextOf(from)))
      /\ CompiledEntry(entry) = OpNamed(name, Meant(path), Meant(from), value)
  BY <1>2, <1>3, <1>4, MembersCompile DEF OpNamed
<1> HIDE DEF some
<1>6. CASE name \in {"move", "copy"}
  <2>1. call = [kind |-> KindOf[name], path |-> path, from |-> {from}, value |-> some]
    BY <1>2, <1>6 DEF OpNamed, Op, some
  <2>2. CompiledEntry(entry) = [kind |-> KindOf[name], path |-> Meant(path),
                                from |-> {Meant(from)}, value |-> some]
    BY <1>5, <1>6 DEF OpNamed, Op, some
  <2>4. CompiledEntry(entry) = [call EXCEPT !.path = Meant(@), !.from = {Meant(f) : f \in @}]
    <3> DEFINE p == Meant(call.path)
               g == {Meant(f) : f \in call.from}
    <3>1. p = Meant(path)
      BY <2>1
    <3>2. g = {Meant(from)}
      <4>1. call.from = {from}
        BY <2>1
      <4> QED BY <4>1
    <3> HIDE DEF p, g
    <3>3. [call EXCEPT !.path = p, !.from = g] =
            [kind |-> KindOf[name], path |-> p, from |-> g, value |-> some]
      <4> DEFINE r == [call EXCEPT !.path = p]
      <4>1. r = [kind |-> KindOf[name], path |-> p, from |-> {from}, value |-> some]
        BY <2>1
      <4>2. [call EXCEPT !.path = p, !.from = g] = [r EXCEPT !.from = g]
        BY <2>1
      <4> HIDE DEF r
      <4>3. [r EXCEPT !.from = g] = [kind |-> KindOf[name], path |-> p, from |-> g, value |-> some]
        BY <4>1
      <4> QED BY <4>2, <4>3
    <3>4. CompiledEntry(entry) = [kind |-> KindOf[name], path |-> p, from |-> g, value |-> some]
      BY <2>2, <3>1, <3>2
    <3>5. CompiledEntry(entry) = [call EXCEPT !.path = p, !.from = g]
      BY <3>3, <3>4, Zenon
    <3> QED BY <3>5 DEF p, g
  <2>5. path \in {call.path} \cup call.from /\ from \in {call.path} \cup call.from
    BY <2>1
  <2>6. Fault(entry) # "none" => ~IsPointer(TextOf(path)) \/ ~IsPointer(TextOf(from))
    BY <1>5
  <2> QED BY <1>3, <1>4, <1>5, <2>4, <2>5, <2>6, Zenon
<1>7. CASE name \notin {"move", "copy"}
  <2>1. call = [kind |-> KindOf[name], path |-> path, from |-> {}, value |-> some]
    BY <1>2, <1>7 DEF OpNamed, Op, some
  <2>2. CompiledEntry(entry) = [kind |-> KindOf[name], path |-> Meant(path), from |-> {},
                                value |-> some]
    BY <1>5, <1>7 DEF OpNamed, Op, some
  <2>4. CompiledEntry(entry) = [call EXCEPT !.path = Meant(@), !.from = {Meant(f) : f \in @}]
    <3> DEFINE p == Meant(call.path)
               g == {Meant(f) : f \in call.from}
    <3>1. p = Meant(path)
      BY <2>1
    <3>2. g = {}
      <4>1. call.from = {}
        BY <2>1
      <4> QED BY <4>1
    <3> HIDE DEF p, g
    <3>3. [call EXCEPT !.path = p, !.from = g] =
            [kind |-> KindOf[name], path |-> p, from |-> g, value |-> some]
      <4> DEFINE r == [call EXCEPT !.path = p]
      <4>1. r = [kind |-> KindOf[name], path |-> p, from |-> {}, value |-> some]
        BY <2>1
      <4>2. [call EXCEPT !.path = p, !.from = g] = [r EXCEPT !.from = g]
        BY <2>1
      <4> HIDE DEF r
      <4>3. [r EXCEPT !.from = g] = [kind |-> KindOf[name], path |-> p, from |-> g, value |-> some]
        BY <4>1
      <4> QED BY <4>2, <4>3
    <3>4. CompiledEntry(entry) = [kind |-> KindOf[name], path |-> p, from |-> g, value |-> some]
      BY <2>2, <3>1, <3>2
    <3>5. CompiledEntry(entry) = [call EXCEPT !.path = p, !.from = g]
      BY <3>3, <3>4, Zenon
    <3> QED BY <3>5 DEF p, g
  <2>5. path \in {call.path} \cup call.from
    BY <2>1
  <2>6. Fault(entry) # "none" => ~IsPointer(TextOf(path))
    BY <1>5, <1>7
  <2> QED BY <1>3, <1>5, <2>4, <2>5, <2>6, Zenon
<1> QED BY <1>6, <1>7

\* What each call on the builder asks for.
LEMMA CallsAreAsked ==
  ASSUME NEW path \in MadeOperands, NEW from \in MadeOperands, NEW v
  PROVE  /\ Asked(Op("Add", path, {}, v), ValueOp("add", path, v))
         /\ Asked(Op("Replace", path, {}, v), ValueOp("replace", path, v))
         /\ Asked(Op("Test", path, {}, v), ValueOp("test", path, v))
         /\ Asked(Op("Remove", path, {}, Null), RemoveOp(path))
         /\ Asked(Op("Move", path, {from}, Null), FromOp("move", from, path))
         /\ Asked(Op("Copy", path, {from}, Null), FromOp("copy", from, path))
<1>1. \A t : Str(t).kind = "string" /\ Str(t).str = t
  BY DEF Str
<1>2. ASSUME NEW name \in {"add", "replace", "test"}
      PROVE  Asked(Op(KindOf[name], path, {}, v), ValueOp(name, path, v))
  <2> DEFINE entry == ValueOp(name, path, v)
             members == [op |-> Str(name), path |-> Str(TextOf(path)), value |-> v]
  <2>1. IsObject(entry) /\ entry.members = members
    BY DEF ValueOp, Object, IsObject
  <2>2. /\ DOMAIN members = {"op", "path", "value"} /\ members["op"] = Str(name)
        /\ members["path"] = Str(TextOf(path)) /\ members["value"] = v
    OBVIOUS
  <2> HIDE DEF entry, members
  <2>3. name \notin {"move", "copy"} /\ "from" \notin DOMAIN members
    BY <2>2
  <2>4. HasMembers(entry, name, TextOf(path), TextOf(from), v)
    BY <1>1, <2>1, <2>2, <2>3 DEF HasMembers, HasText, HasMember, TextAt
  <2>5. Op(KindOf[name], path, {}, v) = OpNamed(name, path, from, v) /\ name \in OperationNames
    BY <2>3 DEF OpNamed, OperationNames
  <2> QED BY <2>4, <2>5 DEF Asked, entry
<1>3. Asked(Op(KindOf["remove"], path, {}, Null), RemoveOp(path))
  <2> DEFINE entry == RemoveOp(path)
             members == [op |-> Str("remove"), path |-> Str(TextOf(path))]
             name == "remove"
  <2>1. IsObject(entry) /\ entry.members = members
    BY DEF RemoveOp, Object, IsObject
  <2>2. /\ DOMAIN members = {"op", "path"} /\ members["op"] = Str(name)
        /\ members["path"] = Str(TextOf(path))
    OBVIOUS
  <2> HIDE DEF entry, members
  <2>3. name \notin {"move", "copy"} /\ name \notin {"add", "replace", "test"}
        /\ "from" \notin DOMAIN members
    BY <2>2
  <2>4. HasMembers(entry, name, TextOf(path), TextOf(from), v)
    BY <1>1, <2>1, <2>2, <2>3 DEF HasMembers, HasText, HasMember, TextAt
  <2>5. Op(KindOf[name], path, {}, Null) = OpNamed(name, path, from, v) /\ name \in OperationNames
    BY <2>3 DEF OpNamed, OperationNames
  <2> QED BY <2>4, <2>5 DEF Asked, entry
<1>4. ASSUME NEW name \in {"move", "copy"}
      PROVE  Asked(Op(KindOf[name], path, {from}, Null), FromOp(name, from, path))
  <2> DEFINE entry == FromOp(name, from, path)
             members == [op |-> Str(name), path |-> Str(TextOf(path)), from |-> Str(TextOf(from))]
  <2>1. IsObject(entry) /\ entry.members = members
    BY DEF FromOp, Object, IsObject
  <2>2. /\ DOMAIN members = {"op", "path", "from"} /\ members["op"] = Str(name)
        /\ members["path"] = Str(TextOf(path)) /\ members["from"] = Str(TextOf(from))
    OBVIOUS
  <2> HIDE DEF entry, members
  <2>3. name \notin {"add", "replace", "test"}
    OBVIOUS
  <2>4. HasMembers(entry, name, TextOf(path), TextOf(from), v)
    BY <1>1, <2>1, <2>2, <2>3 DEF HasMembers, HasText, HasMember, TextAt
  <2>5. Op(KindOf[name], path, {from}, Null) = OpNamed(name, path, from, v)
        /\ name \in OperationNames
    BY <2>3 DEF OpNamed, OperationNames
  <2> QED BY <2>4, <2>5 DEF Asked, entry
<1>5. /\ Asked(Op(KindOf["add"], path, {}, v), ValueOp("add", path, v))
      /\ Asked(Op(KindOf["replace"], path, {}, v), ValueOp("replace", path, v))
      /\ Asked(Op(KindOf["test"], path, {}, v), ValueOp("test", path, v))
      /\ Asked(Op(KindOf["move"], path, {from}, Null), FromOp("move", from, path))
      /\ Asked(Op(KindOf["copy"], path, {from}, Null), FromOp("copy", from, path))
  BY <1>2, <1>4
<1> QED BY <1>3, <1>5, KindFacts

(***************************************************************************)
(* Sequences of whatever elements                                          *)
(***************************************************************************)

\* A sequence, of whatever elements.
IsSequence(s) == Len(s) \in Nat /\ s = [k \in 1..Len(s) |-> s[k]]

\* The sequences over a set are sequences.
LEMMA SeqIsSequence ==
  ASSUME NEW S, NEW s \in Seq(S)
  PROVE  IsSequence(s) /\ \A k \in 1..Len(s) : s[k] \in S
BY DEF IsSequence

\* The empty sequence is one.
LEMMA EmptyIsSequence == IsSequence(<<>>) /\ Len(<<>>) = 0
BY DEF IsSequence

\* Sequences with the same elements are equal.
LEMMA EqualSequences ==
  ASSUME NEW s, NEW t, IsSequence(s), IsSequence(t), Len(s) = Len(t),
         \A k \in 1..Len(s) : s[k] = t[k]
  PROVE  s = t
<1> DEFINE n == Len(s)
<1>1. s = [k \in 1..n |-> s[k]] /\ t = [k \in 1..n |-> t[k]] /\ \A k \in 1..n : s[k] = t[k]
  BY DEF IsSequence
<1>2. [k \in 1..n |-> s[k]] = [k \in 1..n |-> t[k]]
  BY <1>1
<1> QED BY <1>1, <1>2

\* What appending does to a sequence.
LEMMA SequenceAppend ==
  ASSUME NEW s, NEW e, IsSequence(s)
  PROVE  /\ IsSequence(Append(s, e)) /\ Len(Append(s, e)) = Len(s) + 1
         /\ Append(s, e)[Len(s) + 1] = e
         /\ \A k \in 1..Len(s) : Append(s, e)[k] = s[k]
<1> DEFINE S == {s[k] : k \in 1..Len(s)} \cup {e}
<1>1. s \in Seq(S)
  <2> DEFINE n == Len(s)
  <2>1. n \in Nat /\ s = [k \in 1..n |-> s[k]] /\ \A k \in 1..n : s[k] \in S
    BY DEF IsSequence
  <2> HIDE DEF S, n
  <2>2. [k \in 1..n |-> s[k]] \in Seq(S)
    BY <2>1
  <2> QED BY <2>1, <2>2
<1>2. e \in S
  OBVIOUS
<1> HIDE DEF S
<1>3. /\ Append(s, e) \in Seq(S) /\ Len(Append(s, e)) = Len(s) + 1
      /\ Append(s, e)[Len(s) + 1] = e
      /\ \A k \in 1..Len(s) : Append(s, e)[k] = s[k]
  BY <1>1, <1>2, AppendProperties
<1> QED BY <1>3, SeqIsSequence

(***************************************************************************)
(* Building and parsing patches                                            *)
(***************************************************************************)

\* Of every entry, the members that are read as pointers are texts.
EntriesInv ==
  IsSequence(entries) /\ \A k \in 1..Len(entries) : Legible(entries[k])

\* The first i entries are compiled.
ParsedInv ==
  /\ i \in Nat /\ i <= Len(entries) /\ IsSequence(ops) /\ Len(ops) = i
  /\ \A k \in 1..i : ops[k] = CompiledEntry(entries[k]) /\ Fault(entries[k]) = "none"

\* While no patch is written back, the entries are those of the calls.
CallsInv ==
  /\ IsSequence(calls)
  /\ original = {} /\ Len(calls) # 0 =>
       Len(calls) = Len(entries) /\ \A k \in 1..Len(calls) : Asked(calls[k], entries[k])

\* The array that create was given is rejected for its first fault only.
OutcomeInv ==
  \/ outcome = Success /\ i = Len(entries)
  \/ /\ i < Len(entries) /\ Fault(entries[i + 1]) # "none"
     /\ outcome = Failure(Fault(entries[i + 1]), ClampOpIndex(i))
  \/ outcome = Failure("InvalidPatchDocument", 0) /\ Len(entries) = 0 /\ Len(calls) = 0
     /\ original = {}

\* The entries are put together, then parsed, then there is an outcome.
PhaseInv ==
  /\ phase \in {"assemble", "parse", "done"}
  /\ phase = "assemble" => i = 0 /\ original = {} /\ Len(calls) = Len(entries)
  /\ phase = "done" => OutcomeInv

\* A patch that is written back was compiled, and its entries are parsed.
OriginalInv ==
  \/ original = {}
  \/ \E patch : /\ original = {patch} /\ IsSequence(patch)
                /\ \A k \in 1..Len(patch) : IsMadeOp(patch[k])
                /\ entries = ToJson(patch)

\* The inductive invariant of the wire format.
WireInv == EntriesInv /\ ParsedInv /\ CallsInv /\ PhaseInv /\ OriginalInv

\* The invariant holds when nothing is asked for yet.
LEMMA WireInitInv == WireInit => WireInv
<1> SUFFICES ASSUME WireInit
             PROVE  WireInv
  OBVIOUS
<1>1. /\ calls = <<>> /\ entries = <<>> /\ phase = "assemble" /\ i = 0 /\ ops = <<>>
      /\ original = {}
  BY DEF WireInit
<1>2. EntriesInv
  BY <1>1, EmptyIsSequence DEF EntriesInv
<1>3. ParsedInv
  BY <1>1, EmptyIsSequence DEF ParsedInv
<1>4. CallsInv
  BY <1>1, EmptyIsSequence DEF CallsInv
<1>5. PhaseInv
  BY <1>1 DEF PhaseInv
<1>6. OriginalInv
  BY <1>1 DEF OriginalInv
<1> QED BY <1>2, <1>3, <1>4, <1>5, <1>6 DEF WireInv

\* A call of the builder adds the entry that asks for it.
LEMMA AssembleKeeps ==
  ASSUME WireInv, NEW entry, NEW call, Asked(call, entry), Assemble(entry, call)
  PROVE  WireInv'
<1>1. /\ phase = "assemble" /\ entries' = Append(entries, entry) /\ calls' = Append(calls, call)
      /\ phase' = phase /\ i' = i /\ ops' = ops /\ outcome' = outcome /\ original' = original
  BY DEF Assemble
<1>2. i = 0 /\ original = {} /\ Len(calls) = Len(entries)
  BY <1>1 DEF WireInv, PhaseInv
<1> DEFINE n == Len(entries)
<1>3. /\ n \in Nat /\ IsSequence(entries') /\ Len(entries') = n + 1 /\ entries'[n + 1] = entry
      /\ \A k \in 1..n : entries'[k] = entries[k]
  BY <1>1, SequenceAppend DEF WireInv, EntriesInv, IsSequence
<1>4. /\ IsSequence(calls') /\ Len(calls') = n + 1 /\ calls'[n + 1] = call
      /\ \A k \in 1..n : calls'[k] = calls[k]
  BY <1>1, <1>2, SequenceAppend DEF WireInv, CallsInv
<1>5. /\ \A k \in 1..n : Legible(entries[k])
      /\ \A k \in 1..n : Asked(calls[k], entries[k])
  <2>1. n # 0 => \A k \in 1..n : Asked(calls[k], entries[k])
    BY <1>2 DEF WireInv, CallsInv
  <2> QED BY <2>1 DEF WireInv, EntriesInv
<1>6. \A k \in 1..n + 1 : k \in 1..n \/ k = n + 1
  BY <1>3
<1> HIDE DEF n
<1>7. EntriesInv'
  <2>1. Legible(entry)
    BY AskedIsMeant
  <2>2. \A k \in 1..n + 1 : Legible(entries'[k])
    BY <1>3, <1>5, <1>6, <2>1
  <2> QED BY <1>3, <2>2 DEF EntriesInv, Legible, HasText, TextAt, HasMember, IsObject
<1>8. CallsInv'
  <2>1. \A k \in 1..n + 1 : Asked(calls'[k], entries'[k])
    BY <1>3, <1>4, <1>5, <1>6
  <2> QED BY <1>3, <1>4, <2>1 DEF CallsInv
<1>9. ParsedInv'
  BY <1>1, <1>2, <1>3 DEF WireInv, ParsedInv
<1>10. PhaseInv'
  BY <1>1, <1>2, <1>3, <1>4 DEF PhaseInv
<1>11. OriginalInv'
  BY <1>1, <1>2 DEF OriginalInv
<1> QED BY <1>7, <1>8, <1>9, <1>10, <1>11 DEF WireInv

\* JSONPatch::create takes the entries of an array as they are.
LEMMA CreatePatchKeeps ==
  ASSUME WireInv, NEW document \in Documents, CreatePatch(document), entries = <<>>
  PROVE  WireInv'
<1>1. /\ phase = "assemble" /\ calls' = calls /\ i' = i /\ ops' = ops /\ original' = original
      /\ Len(entries) = 0
  BY EmptyIsSequence DEF CreatePatch
<1>2. /\ i = 0 /\ original = {} /\ Len(calls) = 0
      /\ IsSequence(calls) /\ IsSequence(ops) /\ Len(ops) = 0
  BY <1>1 DEF WireInv, PhaseInv, CallsInv, ParsedInv
<1>3. CASE IsArray(document)
  <2> DEFINE elements == document.elements
  <2>1. entries' = elements /\ phase' = "parse"
    BY <1>3 DEF CreatePatch
  <2>2. elements \in Seq(Children(document))
    BY <1>3, DocumentsAssumption DEF WellShaped
  <2>3. ASSUME NEW entry \in Children(document)
        PROVE  Legible(entry)
    <3>1. \A name \in {"path", "from"} :
            IsObject(entry) /\ HasText(entry, name) => TextAt(entry, name) \in Seq(STRING)
      BY <1>3, DocumentsAssumption
    <3>2. \A t \in Seq(STRING) : t \in Seq(Char)
      BY SeqMonotonic DEF Char
    <3> QED BY <3>1, <3>2 DEF Legible
  <2>4. IsSequence(elements) /\ \A k \in 1..Len(elements) : Legible(elements[k])
    BY <2>2, <2>3, SeqIsSequence
  <2>5. EntriesInv'
    BY <2>1, <2>4 DEF EntriesInv, Legible, HasText, TextAt, HasMember, IsObject
  <2>6. ParsedInv'
    BY <1>1, <1>2, <2>1, <2>4 DEF ParsedInv, IsSequence
  <2>7. CallsInv' /\ PhaseInv' /\ OriginalInv'
    BY <1>1, <1>2, <2>1 DEF CallsInv, PhaseInv, OriginalInv
  <2> QED BY <2>5, <2>6, <2>7 DEF WireInv
<1>4. CASE ~IsArray(document)
  <2>1. /\ entries' = entries /\ phase' = "done"
        /\ outcome' = Failure("InvalidPatchDocument", 0)
    BY <1>4 DEF CreatePatch
  <2>2. EntriesInv' /\ ParsedInv'
    BY <1>1, <2>1 DEF WireInv, EntriesInv, ParsedInv
  <2>3. OutcomeInv'
    BY <1>1, <1>2, <2>1 DEF OutcomeInv
  <2>4. CallsInv' /\ PhaseInv' /\ OriginalInv'
    BY <1>1, <1>2, <2>1, <2>3 DEF CallsInv, PhaseInv, OriginalInv
  <2> QED BY <2>2, <2>4 DEF WireInv
<1> QED BY <1>3, <1>4

\* An entry without a fault is compiled after those before it.
LEMMA ParseEntryKeeps ==
  ASSUME WireInv, ParseEntry
  PROVE  WireInv'
<1>1. /\ phase = "parse" /\ i < Len(entries) /\ Fault(entries[i + 1]) = "none"
      /\ ops' = Append(ops, CompiledEntry(entries[i + 1])) /\ i' = i + 1
      /\ calls' = calls /\ entries' = entries /\ phase' = phase /\ outcome' = outcome
      /\ original' = original
  BY DEF ParseEntry
<1>2. /\ i \in Nat /\ Len(entries) \in Nat /\ IsSequence(ops) /\ Len(ops) = i
      /\ \A k \in 1..i : ops[k] = CompiledEntry(entries[k]) /\ Fault(entries[k]) = "none"
  BY DEF WireInv, ParsedInv, EntriesInv, IsSequence
<1> DEFINE h == i + 1
           op == CompiledEntry(entries[h])
<1>3. IsSequence(Append(ops, op)) /\ Len(Append(ops, op)) = h
      /\ Append(ops, op)[h] = op /\ \A k \in 1..i : Append(ops, op)[k] = ops[k]
  <2> HIDE DEF op
  <2> QED BY <1>2, SequenceAppend
<1>4. h \in Nat /\ h <= Len(entries) /\ \A k \in 1..h : k \in 1..i \/ k = h
  BY <1>1, <1>2
<1> HIDE DEF h
<1>5. ops' = Append(ops, op) /\ i' = h /\ Fault(entries[h]) = "none"
  BY <1>1 DEF h
<1>6. \A k \in 1..h : ops'[k] = CompiledEntry(entries[k]) /\ Fault(entries[k]) = "none"
  BY <1>2, <1>3, <1>4, <1>5
<1>7. ParsedInv'
  BY <1>1, <1>3, <1>4, <1>5, <1>6 DEF ParsedInv
<1>8. EntriesInv' /\ CallsInv' /\ PhaseInv' /\ OriginalInv'
  BY <1>1 DEF WireInv, EntriesInv, CallsInv, PhaseInv, OriginalInv
<1> QED BY <1>7, <1>8 DEF WireInv

\* The patch compiled is written back, and its entries take the place of the
\* ones it was compiled from.
LEMMA CreateAgainKeeps ==
  ASSUME WireInv, CreateAgain
  PROVE  WireInv'
<1>1. /\ phase = "done" /\ outcome.ok /\ original' = {ops} /\ entries' = ToJson(ops)
      /\ ops' = <<>> /\ i' = 0 /\ phase' = "parse" /\ calls' = calls
  BY DEF CreateAgain
<1>2. i = Len(entries)
  <2>1. outcome # Failure("InvalidPatchDocument", 0)
    BY <1>1 DEF Failure
  <2>2. outcome # Failure(Fault(entries[i + 1]), ClampOpIndex(i))
    BY <1>1 DEF Failure
  <2>3. OutcomeInv
    BY <1>1 DEF WireInv, PhaseInv
  <2> QED BY <2>1, <2>2, <2>3 DEF OutcomeInv
<1>3. /\ IsSequence(ops) /\ Len(ops) = i /\ i \in Nat
      /\ \A k \in 1..i : ops[k] = CompiledEntry(entries[k]) /\ Fault(entries[k]) = "none"
      /\ \A k \in 1..i : Legible(entries[k])
  BY <1>2 DEF WireInv, ParsedInv, EntriesInv
<1>4. ASSUME NEW k \in 1..Len(ops)
      PROVE  IsMadeOp(ops[k]) /\ Legible(EntryOf(ops[k]))
  <2>1. IsMadeOp(ops[k])
    BY <1>3, CompiledIsMade
  <2> QED BY <2>1, OpIsReread
<1>5. /\ IsSequence(ToJson(ops)) /\ Len(ToJson(ops)) = Len(ops)
      /\ \A k \in 1..Len(ops) : ToJson(ops)[k] = EntryOf(ops[k])
  BY <1>3 DEF ToJson, IsSequence
<1>6. \A k \in 1..Len(ToJson(ops)) : Legible(ToJson(ops)[k])
  BY <1>4, <1>5
<1>7. EntriesInv'
  BY <1>1, <1>5, <1>6 DEF EntriesInv, Legible, HasText, TextAt, HasMember, IsObject
<1>8. ParsedInv'
  BY <1>1, <1>3, <1>5, EmptyIsSequence DEF ParsedInv
<1>9. CallsInv' /\ PhaseInv'
  BY <1>1 DEF WireInv, CallsInv, PhaseInv
<1>10. OriginalInv'
  BY <1>1, <1>3, <1>4 DEF OriginalInv
<1> QED BY <1>7, <1>8, <1>9, <1>10 DEF WireInv

\* The operands given to the builder are raw texts or pointers that exist.
LEMMA OperandsAreMade ==
  ASSUME PointerInv, NEW operand \in Operands
  PROVE  operand \in MadeOperands
<1>1. tokens \in Seq(MadeTokens)
  BY DEF PointerInv
<1>2. \A s \in RawTexts : Raw(s) \in MadeOperands
  BY TextsAreChars DEF MadeOperands
<1>3. Compiled(tokens) \in MadeOperands
  BY <1>1 DEF MadeOperands
<1> QED BY <1>2, <1>3 DEF Operands

\* Each method of JSONPatchBuilder adds the entry that asks for its operation.
LEMMA BuilderKeeps ==
  ASSUME PointerInv, WireInv, NEW path \in Operands, NEW from \in Operands, NEW v \in Values,
         \/ BuilderAdd(path, v) \/ BuilderReplace(path, v) \/ BuilderTest(path, v)
         \/ BuilderRemove(path) \/ BuilderMove(from, path) \/ BuilderCopy(from, path)
  PROVE  WireInv'
<1>1. path \in MadeOperands /\ from \in MadeOperands
  BY OperandsAreMade
<1>2. /\ Asked(Op("Add", path, {}, v), ValueOp("add", path, v))
      /\ Asked(Op("Replace", path, {}, v), ValueOp("replace", path, v))
      /\ Asked(Op("Test", path, {}, v), ValueOp("test", path, v))
      /\ Asked(Op("Remove", path, {}, Null), RemoveOp(path))
      /\ Asked(Op("Move", path, {from}, Null), FromOp("move", from, path))
      /\ Asked(Op("Copy", path, {from}, Null), FromOp("copy", from, path))
  BY <1>1, CallsAreAsked
<1>3. CASE BuilderAdd(path, v)
  BY <1>2, <1>3, AssembleKeeps DEF BuilderAdd
<1>4. CASE BuilderReplace(path, v)
  BY <1>2, <1>4, AssembleKeeps DEF BuilderReplace
<1>5. CASE BuilderTest(path, v)
  BY <1>2, <1>5, AssembleKeeps DEF BuilderTest
<1>6. CASE BuilderRemove(path)
  BY <1>2, <1>6, AssembleKeeps DEF BuilderRemove
<1>7. CASE BuilderMove(from, path)
  BY <1>2, <1>7, AssembleKeeps DEF BuilderMove
<1>8. CASE BuilderCopy(from, path)
  BY <1>2, <1>8, AssembleKeeps DEF BuilderCopy
<1> QED BY <1>3, <1>4, <1>5, <1>6, <1>7, <1>8

\* Every step of building, parsing and writing back keeps the invariant.
LEMMA WireStepKeeps ==
  PointerInv /\ WireInv /\ [WireNext]_<<vars, wireVars>> => WireInv'
<1> SUFFICES ASSUME PointerInv, WireInv, [WireNext]_<<vars, wireVars>>
             PROVE  WireInv'
  OBVIOUS
<1>1. CASE UNCHANGED wireVars
  BY <1>1 DEF wireVars, WireInv, EntriesInv, ParsedInv, CallsInv, PhaseInv, OutcomeInv, OriginalInv
<1>2. ASSUME NEW path \in Operands, NEW v \in Values,
             BuilderAdd(path, v) \/ BuilderReplace(path, v) \/ BuilderTest(path, v)
      PROVE  WireInv'
  BY <1>2, BuilderKeeps
<1>3. ASSUME NEW path \in Operands, BuilderRemove(path)
      PROVE  WireInv'
  <2>1. Asked(Op("Remove", path, {}, Null), RemoveOp(path))
    BY OperandsAreMade, CallsAreAsked
  <2> QED BY <1>3, <2>1, AssembleKeeps DEF BuilderRemove
<1>4. ASSUME NEW path \in Operands, NEW from \in Operands,
             BuilderMove(from, path) \/ BuilderCopy(from, path)
      PROVE  WireInv'
  <2>1. path \in MadeOperands /\ from \in MadeOperands
    BY OperandsAreMade
  <2>2. /\ Asked(Op("Move", path, {from}, Null), FromOp("move", from, path))
        /\ Asked(Op("Copy", path, {from}, Null), FromOp("copy", from, path))
    BY <2>1, CallsAreAsked
  <2>3. CASE BuilderMove(from, path)
    BY <2>2, <2>3, AssembleKeeps DEF BuilderMove
  <2>4. CASE BuilderCopy(from, path)
    BY <2>2, <2>4, AssembleKeeps DEF BuilderCopy
  <2> QED BY <1>4, <2>3, <2>4
<1>5. ASSUME NEW document \in Documents, CreatePatch(document), entries = <<>>
      PROVE  WireInv'
  BY <1>5, CreatePatchKeeps
<1>6. CASE Build
  <2>1. /\ phase' = "parse" /\ calls' = calls /\ entries' = entries /\ i' = i /\ ops' = ops
        /\ original' = original
    BY <1>6 DEF Build
  <2> QED BY <2>1 DEF WireInv, EntriesInv, ParsedInv, CallsInv, PhaseInv, OriginalInv
<1>7. CASE ParseEntry
  BY <1>7, ParseEntryKeeps
<1>8. CASE RejectEntry
  <2>1. /\ i < Len(entries) /\ Fault(entries[i + 1]) # "none"
        /\ outcome' = Failure(Fault(entries[i + 1]), ClampOpIndex(i))
        /\ phase' = "done" /\ calls' = calls /\ entries' = entries /\ i' = i /\ ops' = ops
        /\ original' = original
    BY <1>8 DEF RejectEntry
  <2>2. OutcomeInv'
    BY <2>1 DEF OutcomeInv
  <2> QED BY <2>1, <2>2 DEF WireInv, EntriesInv, ParsedInv, CallsInv, PhaseInv, OriginalInv
<1>9. CASE ParseEnds
  <2>1. /\ i = Len(entries) /\ outcome' = Success
        /\ phase' = "done" /\ calls' = calls /\ entries' = entries /\ i' = i /\ ops' = ops
        /\ original' = original
    BY <1>9 DEF ParseEnds
  <2>2. OutcomeInv'
    BY <2>1 DEF OutcomeInv
  <2> QED BY <2>1, <2>2 DEF WireInv, EntriesInv, ParsedInv, CallsInv, PhaseInv, OriginalInv
<1>10. CASE CreateAgain
  BY <1>10, CreateAgainKeeps
<1>11. CASE WireStep /\ UNCHANGED vars
  BY <1>2, <1>3, <1>4, <1>5, <1>6, <1>7, <1>8, <1>9, <1>10, <1>11 DEF WireStep
<1>12. CASE PointerStep
  BY <1>1, <1>12 DEF PointerStep
<1>13. CASE UNCHANGED <<vars, wireVars>>
  BY <1>1, <1>13
<1> QED BY <1>11, <1>12, <1>13 DEF WireNext

\* The invariant holds of every reachable state.
LEMMA WireIsInvariant == WireSpec => []WireInv
<1> QED BY WireInitInv, WireStepKeeps, PointersAreMade, PTL DEF WireSpec

\* A patch is accepted exactly if all entries are well-formed; else the index
\* of the first fault is told, as far as it can be.
THEOREM FirstFaultIsTold == WireSpec => []FirstFault
<1>1. WireInv => FirstFault
  <2> DEFINE n == Len(entries)
             bad == {k \in 1..Len(entries) : ~WellFormed(entries[k])}
  <2> SUFFICES ASSUME WireInv, phase = "done"
               PROVE  \/ outcome.ok /\ bad = {}
                      \/ ~outcome.ok /\ bad # {} /\ outcome.detail = Min({Min(bad) - 1, OpIndexMax})
                      \/ outcome = Failure("InvalidPatchDocument", 0) /\ entries = <<>>
    BY DEF FirstFault
  <2>1. n \in Nat /\ i \in Nat /\ i <= n /\ IsSequence(entries) /\ OpIndexMax \in Nat
    BY WireAssumption DEF WireInv, EntriesInv, ParsedInv, IsSequence
  <2>2. \A k \in 1..n : Fault(entries[k]) = "none" <=> WellFormed(entries[k])
    BY FaultIsMeant DEF WireInv, EntriesInv
  <2>3. \A k \in 1..i : Fault(entries[k]) = "none" /\ k \in 1..n
    BY <2>1 DEF WireInv, ParsedInv
  <2>4. OutcomeInv
    BY DEF WireInv, PhaseInv
  <2>5. CASE outcome = Success /\ i = n
    <3>1. bad = {}
      BY <2>2, <2>3, <2>5
    <3>2. outcome.ok
      BY <2>5 DEF Success
    <3> QED BY <3>1, <3>2
  <2>6. CASE /\ i < n /\ Fault(entries[i + 1]) # "none"
             /\ outcome = Failure(Fault(entries[i + 1]), ClampOpIndex(i))
    <3> DEFINE h == i + 1
    <3>1. h \in 1..n /\ ~WellFormed(entries[h])
      BY <2>1, <2>2, <2>6
    <3>2. h \in bad /\ \A x \in bad : x \in Nat /\ h <= x
      <4>1. ASSUME NEW x \in bad
            PROVE  x \in Nat /\ h <= x
        <5>1. x \in 1..n /\ x \notin 1..i
          BY <2>2, <2>3
        <5> QED BY <2>1, <5>1
      <4> QED BY <3>1, <4>1
    <3> HIDE DEF bad, h
    <3>3. Min(bad) = h
      <4>1. bad \subseteq Nat /\ bad # {}
        BY <3>2
      <4>2. Min(bad) \in bad /\ \A x \in bad : Min(bad) <= x
        BY <4>1, MinIsLeast
      <4> DEFINE m == Min(bad)
      <4>3. m \in bad /\ m <= h
        BY <3>2, <4>2
      <4>4. h <= m /\ m \in Nat /\ h \in Nat
        BY <3>1, <3>2, <4>3, <2>1
      <4> HIDE DEF m
      <4>5. m = h
        BY <4>3, <4>4
      <4> QED BY <4>5 DEF m
    <3>4. h - 1 = i
      BY <2>1 DEF h
    <3>5. Min({i, OpIndexMax}) = ClampOpIndex(i)
      <4> DEFINE S == {i, OpIndexMax}
      <4>1. S \subseteq Nat /\ S # {}
        BY <2>1
      <4>2. \A x : x \in S <=> x = i \/ x = OpIndexMax
        OBVIOUS
      <4> HIDE DEF S
      <4>3. Min(S) \in S /\ \A x \in S : Min(S) <= x
        BY <4>1, MinIsLeast
      <4> DEFINE m == Min(S)
      <4>4. (m = i \/ m = OpIndexMax) /\ m <= i /\ m <= OpIndexMax
        BY <4>2, <4>3
      <4> HIDE DEF m
      <4>5. m = ClampOpIndex(i)
        BY <2>1, <4>4 DEF ClampOpIndex
      <4> QED BY <4>5 DEF m, S
    <3>6. ~outcome.ok /\ outcome.detail = ClampOpIndex(i)
      BY <2>6 DEF Failure
    <3> QED BY <3>2, <3>3, <3>4, <3>5, <3>6
  <2>7. CASE outcome = Failure("InvalidPatchDocument", 0) /\ Len(entries) = 0
    <3>1. entries = <<>>
      BY <2>1, <2>7, EmptyIsSequence, EqualSequences
    <3> QED BY <2>7, <3>1
  <2> QED BY <2>4, <2>5, <2>6, <2>7 DEF OutcomeInv
<1> QED BY <1>1, WireIsInvariant, PTL

\* What was asked of the builder is in the patch, call by call.
THEOREM CallsAreKept == WireSpec => []CallsKept
<1>1. WireInv => CallsKept
  <2> SUFFICES ASSUME WireInv, phase = "done", calls # <<>>, original = {}
               PROVE  IF outcome.ok
                      THEN ops = [k \in 1..Len(calls) |->
                                    [calls[k] EXCEPT !.path = Meant(@),
                                                     !.from = {Meant(f) : f \in @}]]
                      ELSE \E k \in 1..Len(calls) :
                             \E operand \in {calls[k].path} \cup calls[k].from :
                               ~operand.compiled /\ ~IsPointer(operand.text)
    BY DEF CallsKept
  <2> DEFINE n == Len(calls)
             kept(k) == [calls[k] EXCEPT !.path = Meant(@), !.from = {Meant(f) : f \in @}]
  <2>1. IsSequence(calls) /\ n # 0
    <3>1. IsSequence(calls)
      BY DEF WireInv, CallsInv
    <3> QED BY <3>1, EmptyIsSequence, EqualSequences
  <2>2. n = Len(entries) /\ \A k \in 1..n : Asked(calls[k], entries[k])
    BY <2>1 DEF WireInv, CallsInv
  <2>3. /\ i \in Nat /\ i <= n /\ IsSequence(ops) /\ Len(ops) = i
        /\ \A k \in 1..i : ops[k] = CompiledEntry(entries[k]) /\ Fault(entries[k]) = "none"
    BY <2>2 DEF WireInv, ParsedInv
  <2>4. n \in Nat
    BY <2>1 DEF IsSequence
  <2>5. OutcomeInv
    BY DEF WireInv, PhaseInv
  <2>6. ASSUME NEW k \in 1..n
        PROVE  /\ Fault(entries[k]) = "none" => CompiledEntry(entries[k]) = kept(k)
               /\ Fault(entries[k]) # "none" =>
                    \E operand \in {calls[k].path} \cup calls[k].from :
                      ~operand.compiled /\ ~IsPointer(operand.text)
    BY <2>2, AskedIsMeant
  <2>7. CASE outcome = Success /\ i = Len(entries)
    <3>1. outcome.ok
      BY <2>7 DEF Success
    <3> HIDE DEF n, kept
    <3>2. \A k \in 1..n : ops[k] = kept(k)
      BY <2>2, <2>3, <2>6, <2>7
    <3>3. ops = [k \in 1..n |-> ops[k]]
      BY <2>2, <2>3, <2>7 DEF IsSequence
    <3>4. [k \in 1..n |-> ops[k]] = [k \in 1..n |-> kept(k)]
      BY <3>2
    <3>5. ops = [k \in 1..n |-> kept(k)]
      BY <3>3, <3>4
    <3> QED BY <3>1, <3>5 DEF n, kept
  <2>8. CASE /\ i < Len(entries) /\ Fault(entries[i + 1]) # "none"
             /\ outcome = Failure(Fault(entries[i + 1]), ClampOpIndex(i))
    <3>1. ~outcome.ok
      BY <2>8 DEF Failure
    <3>2. i + 1 \in 1..n
      BY <2>2, <2>3, <2>4, <2>8
    <3> HIDE DEF n, kept
    <3>3. \E k \in 1..n : \E operand \in {calls[k].path} \cup calls[k].from :
            ~operand.compiled /\ ~IsPointer(operand.text)
      BY <2>6, <2>8, <3>2
    <3> QED BY <3>1, <3>3 DEF n
  <2> QED BY <2>1, <2>5, <2>7, <2>8 DEF OutcomeInv
<1> QED BY <1>1, WireIsInvariant, PTL

\* The patch that toJson() writes is accepted, and it is the same patch.
THEOREM WireIsRoundTrip == WireSpec => []WireRoundTrip
<1>1. WireInv => WireRoundTrip
  <2> SUFFICES ASSUME WireInv, phase = "done", NEW patch \in original
               PROVE  /\ outcome.ok
                      /\ ops = [k \in 1..Len(patch) |->
                                  [patch[k] EXCEPT !.path = CanonicalTokens(@),
                                                   !.from = {CanonicalTokens(f) : f \in @}]]
    BY DEF WireRoundTrip
  <2> DEFINE n == Len(patch)
  <2>1. /\ IsSequence(patch) /\ \A k \in 1..n : IsMadeOp(patch[k])
        /\ entries = ToJson(patch)
    BY DEF WireInv, OriginalInv
  <2>2. n \in Nat
    BY <2>1 DEF IsSequence
  <2>3. Len(entries) = n /\ \A k \in 1..n : entries[k] = EntryOf(patch[k])
    BY <2>1, <2>2 DEF ToJson
  <2>4. \A k \in 1..n : Fault(entries[k]) = "none" /\ CompiledEntry(entries[k]) = Reread(patch[k])
    BY <2>1, <2>3, OpIsReread
  <2>5. /\ i \in Nat /\ i <= n /\ IsSequence(ops) /\ Len(ops) = i
        /\ \A k \in 1..i : ops[k] = CompiledEntry(entries[k]) /\ Fault(entries[k]) = "none"
    BY <2>3 DEF WireInv, ParsedInv
  <2>6. outcome = Success /\ i = n
    <3>1. OutcomeInv
      BY DEF WireInv, PhaseInv
    <3>2. ~(i < n /\ Fault(entries[i + 1]) # "none")
      <4>1. i < n => i + 1 \in 1..n
        BY <2>2, <2>5
      <4> QED BY <2>4, <4>1
    <3> QED BY <2>3, <3>1, <3>2 DEF OutcomeInv
  <2>7. outcome.ok
    BY <2>6 DEF Success
  <2> HIDE DEF n
  <2>8. \A k \in 1..n : ops[k] = Reread(patch[k])
    BY <2>4, <2>5, <2>6
  <2>9. ops = [k \in 1..n |-> ops[k]]
    BY <2>5, <2>6 DEF IsSequence
  <2>10. [k \in 1..n |-> ops[k]] = [k \in 1..n |-> Reread(patch[k])]
    BY <2>8
  <2>11. ops = [k \in 1..n |-> Reread(patch[k])]
    BY <2>9, <2>10
  <2> QED BY <2>7, <2>11 DEF Reread, n
<1> QED BY <1>1, WireIsInvariant, PTL

=============================================================================
