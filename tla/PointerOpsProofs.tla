--------------------------- MODULE PointerOpsProofs ---------------------------
(***************************************************************************)
(* Lemmas about JSON values, the container operations, and the walks of a  *)
(* whole pointer call: what the proofs about JSONPointer and JSONPatch     *)
(* share.                                                                  *)
(***************************************************************************)
EXTENDS PointerOps, SequenceTheorems, IntervalInduction

(***************************************************************************)
(* Well-formed values.  The set of all JSON values is recursive; that a    *)
(* value is one is said without recursion, by exhibiting a downward closed *)
(* set it belongs to, without the undefined value.                         *)
(***************************************************************************)
IsJson(v) == \E S : v \in S /\ DownwardClosed(S) /\ Undefined \notin S

Closure(v) == CHOOSE S : v \in S /\ DownwardClosed(S) /\ Undefined \notin S

IsSequence(s) == \E S : s \in Seq(S)

\* A value is well formed exactly if its outermost level and its children are.
LEMMA JsonUnfold ==
  ASSUME NEW v, IsJson(v)
  PROVE  WellShaped(v) /\ ~IsUndefined(v) /\ \A c \in Children(v) : IsJson(c)
BY DEF IsJson, DownwardClosed, WellShaped

\* Conversely: a well-shaped value of well-formed children is well formed.
LEMMA JsonFold ==
  ASSUME NEW v, WellShaped(v), ~IsUndefined(v), \A c \in Children(v) : IsJson(c)
  PROVE  IsJson(v)
<1> DEFINE U == {v} \cup UNION {Closure(c) : c \in Children(v)}
<1>1. ASSUME NEW c \in Children(v)
      PROVE  c \in Closure(c) /\ DownwardClosed(Closure(c)) /\ Undefined \notin Closure(c)
  BY <1>1 DEF IsJson, Closure
<1>2. DownwardClosed(U)
  <2> SUFFICES ASSUME NEW w \in U PROVE WellShaped(w) /\ Children(w) \subseteq U
    BY DEF DownwardClosed
  <2>1. CASE w = v
    BY <2>1, <1>1
  <2>2. CASE w # v
    <3>1. PICK c \in Children(v) : w \in Closure(c)
      BY <2>2
    <3> QED
      BY <3>1, <1>1 DEF DownwardClosed
  <2> QED
    BY <2>1, <2>2
<1>3. Undefined \notin U
  BY <1>1 DEF IsUndefined, Undefined
<1> QED
  BY <1>2, <1>3 DEF IsJson

\* Appending to a sequence, whatever its elements are.
LEMMA AppendToSequence ==
  ASSUME NEW s, IsSequence(s), NEW e
  PROVE  /\ IsSequence(Append(s, e))
         /\ Len(s) \in Nat
         /\ Len(Append(s, e)) = Len(s) + 1
         /\ \A j \in 1..Len(s) : Append(s, e)[j] = s[j]
         /\ Append(s, e)[Len(s) + 1] = e
<1>1. PICK S : s \in Seq(S)
  BY DEF IsSequence
<1>2. s \in Seq(S \cup {e})
  BY <1>1, SeqMonotonic
<1>3. Append(s, e) \in Seq(S \cup {e})
  BY <1>2
<1> QED
  BY <1>2, <1>3, AppendProperties DEF IsSequence

\* What inserting an element does to a sequence.
LEMMA InsertIntoSequence ==
  ASSUME NEW S, NEW s \in Seq(S), NEW e \in S, NEW p \in 1..Len(s) + 1
  PROVE  InsertAt(s, p, e) \in Seq(S) /\ Len(InsertAt(s, p, e)) = Len(s) + 1
         /\ InsertAt(s, p, e)[p] = e
<1> DEFINE front == SubSeq(s, 1, p - 1)
           back == SubSeq(s, p, Len(s))
<1>1. front \in Seq(S) /\ Len(front) = p - 1 /\ back \in Seq(S) /\ Len(back) = Len(s) - p + 1
  BY SubSeqProperties
<1> DEFINE single == <<e>>
<1>2. single \in Seq(S) /\ Len(single) = 1 /\ single[1] = e
  OBVIOUS
<1> HIDE DEF front, back, single
<1> DEFINE upto == front \o single
<1>3. /\ upto \in Seq(S) /\ Len(upto) = Len(front) + Len(single)
      /\ \A k \in 1..Len(front) + Len(single) :
           upto[k] = IF k <= Len(front) THEN front[k] ELSE single[k - Len(front)]
  BY <1>1, <1>2, ConcatProperties, Zenon
<1> HIDE DEF upto
<1>4. Len(upto) = p /\ upto[p] = e
  BY <1>1, <1>2, <1>3
<1>5. /\ upto \o back \in Seq(S) /\ Len(upto \o back) = Len(upto) + Len(back)
      /\ \A k \in 1..Len(upto) + Len(back) :
           (upto \o back)[k] = IF k <= Len(upto) THEN upto[k] ELSE back[k - Len(upto)]
  <2>1. upto \in Seq(S) /\ back \in Seq(S)
    BY <1>1, <1>3
  <2> QED
    BY <2>1, ConcatProperties, Zenon
<1>6. p \in 1..Len(upto) + Len(back) /\ Len(upto) + Len(back) = Len(s) + 1
  BY <1>1, <1>4
<1> DEFINE whole == upto \o back
<1>7. Len(whole) = Len(s) + 1 /\ whole[p] = e
  <2> HIDE DEF whole
  <2> QED
    BY <1>4, <1>5, <1>6 DEF whole
<1> QED
  BY <1>5, <1>7 DEF InsertAt, front, back, single, upto

\* Removing an element of a sequence leaves a sequence over the same set.
LEMMA RemoveFromSequence ==
  ASSUME NEW S, NEW s \in Seq(S), NEW p \in 1..Len(s)
  PROVE  RemoveAt(s, p) \in Seq(S)
BY SubSeqProperties, ConcatProperties DEF RemoveAt

-----------------------------------------------------------------------------
(* The container operations keep values well formed. *)

\* An array of well-formed elements is well formed, and its elements are.
LEMMA JsonArray ==
  ASSUME NEW s, IsSequence(s), \A j \in 1..Len(s) : IsJson(s[j])
  PROVE  IsJson(Array(s))
<1>1. PICK S : s \in Seq(S)
  BY DEF IsSequence
<1>2. Children(Array(s)) = {s[j] : j \in 1..Len(s)}
  BY DEF Children, Array, IsObject, IsArray
<1>3. s \in Seq({s[j] : j \in 1..Len(s)})
  BY <1>1, SeqDef, LenProperties
<1>4. WellShaped(Array(s))
  BY <1>2, <1>3 DEF WellShaped, Array, IsObject, IsArray, IsUndefined
<1>5. ~IsUndefined(Array(s))
  BY DEF Array, IsUndefined
<1> QED
  BY <1>2, <1>4, <1>5, JsonFold

\* The elements of a well-formed array are well formed.
LEMMA JsonElements ==
  ASSUME NEW c, IsJson(c), IsArray(c)
  PROVE  /\ c.elements \in Seq(Children(c))
         /\ Len(c.elements) \in Nat
         /\ \A e \in Children(c) : IsJson(e)
         /\ \A j \in 1..Len(c.elements) : c.elements[j] \in Children(c)
<1>1. c.elements \in Seq(Children(c))
  BY JsonUnfold DEF WellShaped
<1> QED
  BY <1>1, JsonUnfold, LenProperties, ElementOfSeq

\* Inserting or overwriting a member (QJsonObject::insert) keeps an object well formed.
LEMMA JsonInsertMember ==
  ASSUME NEW c, IsJson(c), IsObject(c), NEW key, NEW x, IsJson(x)
  PROVE  IsJson(InsertMember(c, key, x))
<1> DEFINE new == InsertMember(c, key, x)
<1>1. Children(new) = {new.members[q] : q \in DOMAIN c.members \cup {key}}
  BY DEF InsertMember, Children, Object, IsObject
<1>2. \A y \in Children(new) : IsJson(y)
  BY <1>1, JsonUnfold DEF InsertMember, Object, Children
<1>3. WellShaped(new)
  BY <1>1 DEF InsertMember, WellShaped, Object, IsObject, IsArray, IsUndefined
<1>4. ~IsUndefined(new)
  BY DEF InsertMember, Object, IsUndefined
<1> QED
  BY <1>2, <1>3, <1>4, JsonFold

\* So does removing one (QJsonObject::remove).
LEMMA JsonRemoveMember ==
  ASSUME NEW c, IsJson(c), IsObject(c), NEW key
  PROVE  IsJson(RemoveMember(c, key))
<1> DEFINE new == RemoveMember(c, key)
<1>1. Children(new) = {new.members[q] : q \in DOMAIN c.members \ {key}}
  BY DEF RemoveMember, Children, Object, IsObject
<1>2. \A y \in Children(new) : IsJson(y)
  BY <1>1, JsonUnfold DEF RemoveMember, Object, Children
<1>3. WellShaped(new)
  BY <1>1 DEF RemoveMember, WellShaped, Object, IsObject, IsArray, IsUndefined
<1>4. ~IsUndefined(new)
  BY DEF RemoveMember, Object, IsUndefined
<1> QED
  BY <1>2, <1>3, <1>4, JsonFold

\* An array whose elements come from an array or are one well-formed value.
LEMMA JsonFromElements ==
  ASSUME NEW c, IsJson(c), IsArray(c), NEW x, IsJson(x),
         NEW s \in Seq(Children(c) \cup {x})
  PROVE  IsJson(Array(s))
<1>1. \A j \in 1..Len(s) : IsJson(s[j])
  BY JsonElements, ElementOfSeq
<1> QED
  BY <1>1, JsonArray DEF IsSequence

\* Inserting, replacing, appending and removing an element.
LEMMA ElementEdits ==
  ASSUME NEW c, IsJson(c), IsArray(c), NEW x, IsJson(x), NEW p \in 0..Size(c)
  PROVE  /\ IsJson(InsertElement(c, p, x))
         /\ IsArray(InsertElement(c, p, x))
         /\ p < Size(InsertElement(c, p, x))
         /\ ElementAt(InsertElement(c, p, x), p) = x
         /\ p < Size(c) => /\ IsJson(ReplaceElement(c, p, x))
                           /\ IsArray(ReplaceElement(c, p, x))
                           /\ p < Size(ReplaceElement(c, p, x))
                           /\ ElementAt(ReplaceElement(c, p, x), p) = x
                           /\ IsJson(RemoveElement(c, p))
<1> DEFINE S == Children(c) \cup {x}
           s == c.elements
<1>1. s \in Seq(S) /\ Len(s) \in Nat /\ p + 1 \in 1..Len(s) + 1 /\ Size(c) = Len(s)
  BY JsonElements, SeqMonotonic DEF Size
<1> HIDE DEF S, s
<1>2. x \in S
  BY DEF S
<1>3. InsertAt(s, p + 1, x) \in Seq(S) /\ Len(InsertAt(s, p + 1, x)) = Len(s) + 1
      /\ InsertAt(s, p + 1, x)[p + 1] = x
  BY <1>1, <1>2, InsertIntoSequence
<1>4. /\ IsJson(InsertElement(c, p, x))
      /\ IsArray(InsertElement(c, p, x))
      /\ p < Size(InsertElement(c, p, x))
      /\ ElementAt(InsertElement(c, p, x), p) = x
  BY <1>1, <1>3, JsonFromElements DEF InsertElement, Array, IsArray, Size, ElementAt, S, s
<1>5. ASSUME p < Size(c)
      PROVE  /\ IsJson(ReplaceElement(c, p, x))
             /\ IsArray(ReplaceElement(c, p, x))
             /\ p < Size(ReplaceElement(c, p, x))
             /\ ElementAt(ReplaceElement(c, p, x), p) = x
             /\ IsJson(RemoveElement(c, p))
  <2>1. p + 1 \in 1..Len(s)
    BY <1>1, <1>5
  <2>2. /\ ReplaceAt(s, p + 1, x) \in Seq(S)
        /\ Len(ReplaceAt(s, p + 1, x)) = Len(s)
        /\ ReplaceAt(s, p + 1, x)[p + 1] = x
    BY <1>1, <1>2, <2>1, ExceptSeq DEF ReplaceAt
  <2>3. RemoveAt(s, p + 1) \in Seq(S)
    BY <1>1, <2>1, RemoveFromSequence
  <2>4. IsJson(ReplaceElement(c, p, x)) /\ IsJson(RemoveElement(c, p))
    BY <2>2, <2>3, JsonFromElements DEF ReplaceElement, RemoveElement, S, s
  <2> QED
    BY <1>1, <2>1, <2>2, <2>4 DEF ReplaceElement, Array, IsArray, Size, ElementAt, s
<1> QED
  BY <1>4, <1>5

\* The elements that stay when one is inserted.
LEMMA InsertedElements ==
  ASSUME NEW S, NEW s \in Seq(S), NEW e \in S, NEW p \in 1..Len(s) + 1
  PROVE  /\ Len(InsertAt(s, p, e)) = Len(s) + 1
         /\ \A k \in 1..p - 1 : InsertAt(s, p, e)[k] = s[k]
         /\ \A k \in p..Len(s) : InsertAt(s, p, e)[k + 1] = s[k]
<1> DEFINE n == Len(s)
           front == SubSeq(s, 1, p - 1)
           back == SubSeq(s, p, n)
<1>1. n \in Nat /\ p \in Nat /\ p >= 1 /\ p =< n + 1
  OBVIOUS
<1>2. /\ front \in Seq(S) /\ Len(front) = p - 1 /\ \A k \in 1..p - 1 : front[k] = s[k]
      /\ back \in Seq(S) /\ Len(back) = n - p + 1 /\ \A k \in 1..n - p + 1 : back[k] = s[p + k - 1]
  OBVIOUS
<1> DEFINE single == <<e>>
<1>3. single \in Seq(S) /\ Len(single) = 1
  OBVIOUS
<1>4. InsertAt(s, p, e) = front \o single \o back
  BY DEF InsertAt
<1> HIDE DEF n, front, back, single
<1> DEFINE upto == front \o single
<1>c. /\ upto \in Seq(S) /\ Len(upto) = Len(front) + Len(single)
      /\ \A k \in 1..Len(front) + Len(single) :
           upto[k] = IF k =< Len(front) THEN front[k] ELSE single[k - Len(front)]
  BY <1>2, <1>3, ConcatProperties, Zenon
<1> HIDE DEF upto
<1>5. upto \in Seq(S) /\ Len(upto) = p /\ \A k \in 1..p - 1 : upto[k] = front[k]
  BY <1>1, <1>2, <1>3, <1>c
<1> HIDE DEF upto
<1> DEFINE whole == upto \o back
<1>6. /\ Len(whole) = Len(upto) + Len(back)
      /\ \A k \in 1..Len(upto) + Len(back) :
           whole[k] = IF k =< Len(upto) THEN upto[k] ELSE back[k - Len(upto)]
  BY <1>2, <1>5, ConcatProperties, Zenon
<1>7. \A k \in 1..p + (n - p + 1) : whole[k] = IF k =< p THEN upto[k] ELSE back[k - p]
  BY <1>2, <1>5, <1>6
<1> HIDE DEF whole
<1>8. \A k \in 1..p - 1 : whole[k] = s[k]
  BY <1>1, <1>2, <1>5, <1>7
<1>9. ASSUME NEW k \in p..n
      PROVE  whole[k + 1] = s[k]
  <2>1. k + 1 \in 1..p + (n - p + 1) /\ ~(k + 1 =< p) /\ (k + 1) - p \in 1..n - p + 1
        /\ p + ((k + 1) - p) - 1 = k
    BY <1>1
  <2>2. whole[k + 1] = back[(k + 1) - p]
    BY <1>7, <2>1
  <2>3. back[(k + 1) - p] = s[p + ((k + 1) - p) - 1]
    BY <1>2, <2>1
  <2> QED BY <2>1, <2>2, <2>3
<1>10. Len(whole) = n + 1
  BY <1>1, <1>2, <1>5, <1>6
<1> QED BY <1>4, <1>8, <1>9, <1>10 DEF whole, upto, n

\* The elements that stay when one is removed.
LEMMA RemovedElements ==
  ASSUME NEW S, NEW s \in Seq(S), NEW p \in 1..Len(s)
  PROVE  /\ Len(RemoveAt(s, p)) = Len(s) - 1
         /\ \A k \in 1..p - 1 : RemoveAt(s, p)[k] = s[k]
         /\ \A k \in p..Len(s) - 1 : RemoveAt(s, p)[k] = s[k + 1]
<1> DEFINE n == Len(s)
           front == SubSeq(s, 1, p - 1)
           back == SubSeq(s, p + 1, n)
<1>1. n \in Nat /\ p \in Nat /\ p >= 1 /\ p =< n
  OBVIOUS
<1>2. /\ front \in Seq(S) /\ Len(front) = p - 1 /\ \A k \in 1..p - 1 : front[k] = s[k]
      /\ back \in Seq(S) /\ Len(back) = n - p /\ \A k \in 1..n - p : back[k] = s[p + k]
  OBVIOUS
<1>3. RemoveAt(s, p) = front \o back
  BY DEF RemoveAt
<1> HIDE DEF n, front, back
<1> DEFINE whole == front \o back
<1>4. /\ Len(whole) = Len(front) + Len(back)
      /\ \A k \in 1..Len(front) + Len(back) :
           whole[k] = IF k =< Len(front) THEN front[k] ELSE back[k - Len(front)]
  BY <1>2, ConcatProperties, Zenon
<1>5. \A k \in 1..(p - 1) + (n - p) : whole[k] = IF k =< p - 1 THEN front[k] ELSE back[k - (p - 1)]
  BY <1>1, <1>2, <1>4
<1> HIDE DEF whole
<1>6. \A k \in 1..p - 1 : whole[k] = s[k]
  BY <1>1, <1>2, <1>5
<1>7. ASSUME NEW k \in p..n - 1
      PROVE  whole[k] = s[k + 1]
  <2>1. k \in 1..(p - 1) + (n - p) /\ ~(k =< p - 1) /\ k - (p - 1) \in 1..n - p
        /\ p + (k - (p - 1)) = k + 1
    BY <1>1
  <2>2. whole[k] = back[k - (p - 1)]
    BY <1>5, <2>1
  <2>3. back[k - (p - 1)] = s[p + (k - (p - 1))]
    BY <1>2, <2>1
  <2> QED BY <2>1, <2>2, <2>3
<1>8. Len(whole) = n - 1
  BY <1>1, <1>2, <1>4
<1> QED BY <1>3, <1>6, <1>7, <1>8 DEF whole, n

-----------------------------------------------------------------------------
(* One iteration of the walks. *)

\* A token that was accepted names an object member, an existing array position
\* or the one past the end.
LEMMA ResolvedInside ==
  ASSUME NEW c, IsJson(c), NEW tk \in TokenType, NEW create, NEW op,
         \/ DescendError(c, tk, create) = NoError
         \/ LeafError(c, tk, op) = NoError
  PROVE  /\ IsContainer(c)
         /\ IsObject(c) => ResolvedIndex(c, tk) = -1
         /\ IsArray(c) => ResolvedIndex(c, tk) \in 0..Size(c)
         /\ (IsArray(c) /\ LeafError(c, tk, op) = NoError /\ op # "Add") =>
              ResolvedIndex(c, tk) < Size(c)
<1>1. CASE IsObject(c)
  BY <1>1 DEF IsContainer, IsObject, IsArray, ResolvedIndex
<1>2. CASE IsArray(c)
  <2>1. Size(c) \in Nat
    BY <1>2, JsonElements DEF Size
  <2>2. ~IsObject(c)
    BY <1>2 DEF IsObject, IsArray
  <2> QED
    BY <1>2, <2>1, <2>2
    DEF IsContainer, ResolvedIndex, DescendError, LeafError, Exists, NoError, TokenType
<1>3. CASE ~IsObject(c) /\ ~IsArray(c)
  BY <1>3 DEF DescendError, LeafError, NoError
<1> QED
  BY <1>1, <1>2, <1>3

\* The descent stays among well-formed values.
LEMMA CreatedJson ==
  ASSUME NEW tk
  PROVE  IsJson(MakeCreatedContainer(tk))
<1>1. IsJson(EmptyArray)
  <2>1. IsSequence(<<>>) /\ Len(<<>>) = 0
    BY EmptySeq DEF IsSequence
  <2>2. IsJson(Array(<<>>))
    BY <2>1, JsonArray
  <2> QED
    BY <2>2 DEF EmptyArray
<1>2. IsJson(EmptyObject)
  <2>1. EmptyObject.members = <<>> /\ DOMAIN <<>> = {} /\ EmptyObject.kind = "object"
    BY DEF EmptyObject, Object
  <2>2. Children(EmptyObject) = {}
    BY <2>1 DEF Children, IsObject
  <2>3. <<>> \in [{} -> {}]
    <3>1. <<>> \in Seq({}) /\ Len(<<>>) = 0
      BY EmptySeq
    <3> QED
      BY <2>1, <3>1, LenProperties
  <2>4. WellShaped(EmptyObject)
    BY <2>1, <2>2, <2>3 DEF WellShaped, IsObject, IsArray, IsUndefined, EmptyObject, Object
  <2> QED
    BY <2>1, <2>2, <2>4, JsonFold DEF IsUndefined
<1> QED
  BY <1>1, <1>2 DEF MakeCreatedContainer

\* The value an iteration of writePointer hands to the next one is well formed.
LEMMA ChildJson ==
  ASSUME NEW c, IsJson(c), NEW tk \in TokenType, NEW next, NEW create,
         DescendError(c, tk, create) = NoError
  PROVE  IsJson(Child(c, tk, next))
<1>1. CASE ~Exists(c, tk)
  BY <1>1, CreatedJson DEF Child
<1>2. CASE Exists(c, tk) /\ IsObject(c)
  <2>1. c.members[tk.key] \in Children(c)
    BY <1>2 DEF Exists, HasMember, Children
  <2> QED
    BY <1>2, <2>1, JsonUnfold DEF Child
<1>3. CASE Exists(c, tk) /\ ~IsObject(c)
  <2>1. IsArray(c) /\ ResolvedIndex(c, tk) \in 0..Size(c)
    BY <1>3, ResolvedInside DEF IsContainer
  <2>2. ResolvedIndex(c, tk) + 1 \in 1..Len(c.elements)
    BY <1>3, <2>1, JsonElements DEF Exists, Size
  <2> QED
    BY <1>3, <2>1, <2>2, JsonElements DEF Child, ElementAt
<1> QED
  BY <1>1, <1>2, <1>3

-----------------------------------------------------------------------------
(***************************************************************************)
(* The walks of a whole call are recursive functions; that there are such  *)
(* functions is shown by extending one level at a time.                    *)
(***************************************************************************)
IsEvalWalk(w, tokens, root, n) ==
  w = [j \in 0..n |-> IF j = 0 THEN Success(root) ELSE EvalAfter(w[j - 1], tokens[j], j - 1)]

\* The evaluator's walk exists, so that it is what its recursion says.
LEMMA EvalWalkUnfolds ==
  ASSUME NEW tokens, Len(tokens) \in Nat, NEW root
  PROVE  IsEvalWalk(EvalWalk(tokens, root), tokens, root, Len(tokens))
<1> DEFINE n == Len(tokens)
           S == {k \in 0..n : \E w : IsEvalWalk(w, tokens, root, k)}
<1>1. 0 \in S
  <2> DEFINE w == [j \in 0..0 |-> Success(root)]
  <2>1. IsEvalWalk(w, tokens, root, 0)
    BY DEF IsEvalWalk
  <2> QED
    BY <2>1
<1>2. ASSUME NEW k \in 0..n, k \in S, k < n
      PROVE  k + 1 \in S
  <2>1. PICK v : IsEvalWalk(v, tokens, root, k)
    BY <1>2
  <2> DEFINE w == [j \in 0..k + 1 |-> IF j <= k THEN v[j] ELSE EvalAfter(v[k], tokens[k + 1], k)]
  <2>2. ASSUME NEW j \in 0..k + 1
        PROVE  w[j] = IF j = 0 THEN Success(root) ELSE EvalAfter(w[j - 1], tokens[j], j - 1)
    <3>1. CASE j <= k
      <4>1. j \in 0..k /\ (j # 0 => j - 1 \in 0..k /\ j - 1 \in 0..k + 1 /\ j - 1 <= k)
        BY <3>1
      <4>2. v[j] = IF j = 0 THEN Success(root) ELSE EvalAfter(v[j - 1], tokens[j], j - 1)
        BY <2>1, <4>1 DEF IsEvalWalk
      <4>3. w[j] = v[j] /\ (j # 0 => w[j - 1] = v[j - 1])
        BY <3>1, <4>1
      <4> QED
        BY <4>2, <4>3
    <3>2. CASE j = k + 1
      <4>1. j # 0 /\ j - 1 = k /\ k \in 0..k + 1 /\ ~(j <= k)
        BY <3>2
      <4>2. w[j] = EvalAfter(v[k], tokens[k + 1], k) /\ w[k] = v[k]
        BY <4>1
      <4> QED
        BY <3>2, <4>1, <4>2
    <3> QED
      BY <3>1, <3>2
  <2>3. IsEvalWalk(w, tokens, root, k + 1)
    BY <2>2 DEF IsEvalWalk
  <2>4. k + 1 \in 0..n
    BY <1>2
  <2> QED
    BY <2>3, <2>4
<1>3. n \in S
  <2> HIDE DEF S
  <2>1. 0..n \subseteq S
    BY <1>1, <1>2, Upwards
  <2> QED
    BY <2>1
<1>4. PICK w : IsEvalWalk(w, tokens, root, n)
  BY <1>3
<1> QED
  BY <1>4 DEF EvalWalk, IsEvalWalk

IsDescentWalk(w, tokens, root, op, create, n) ==
  w = [j \in 0..n |-> IF j = 0 THEN Success(<<>>)
                      ELSE DescendAfter(w[j - 1], tokens, j, root, op, create)]

\* So does the descent of a write.
LEMMA DescentWalkUnfolds ==
  ASSUME NEW tokens, Len(tokens) \in Nat, NEW root, NEW op, NEW create
  PROVE  IsDescentWalk(DescentWalk(tokens, root, op, create), tokens, root, op, create, Len(tokens))
<1> DEFINE n == Len(tokens)
           S == {k \in 0..n : \E w : IsDescentWalk(w, tokens, root, op, create, k)}
<1>1. 0 \in S
  <2> DEFINE w == [j \in 0..0 |-> Success(<<>>)]
  <2>1. IsDescentWalk(w, tokens, root, op, create, 0)
    BY DEF IsDescentWalk
  <2> QED
    BY <2>1
<1>2. ASSUME NEW k \in 0..n, k \in S, k < n
      PROVE  k + 1 \in S
  <2>1. PICK v : IsDescentWalk(v, tokens, root, op, create, k)
    BY <1>2
  <2> DEFINE next == DescendAfter(v[k], tokens, k + 1, root, op, create)
             w == [j \in 0..k + 1 |-> IF j <= k THEN v[j] ELSE next]
  <2>2. ASSUME NEW j \in 0..k + 1
        PROVE  w[j] = IF j = 0 THEN Success(<<>>)
                      ELSE DescendAfter(w[j - 1], tokens, j, root, op, create)
    <3>1. CASE j <= k
      <4>1. j \in 0..k /\ (j # 0 => j - 1 \in 0..k /\ j - 1 \in 0..k + 1 /\ j - 1 <= k)
        BY <3>1
      <4>2. v[j] = IF j = 0 THEN Success(<<>>)
                   ELSE DescendAfter(v[j - 1], tokens, j, root, op, create)
        BY <2>1, <4>1 DEF IsDescentWalk
      <4>3. w[j] = v[j] /\ (j # 0 => w[j - 1] = v[j - 1])
        BY <3>1, <4>1
      <4> QED
        BY <4>2, <4>3
    <3>2. CASE j = k + 1
      <4>1. j # 0 /\ j - 1 = k /\ k \in 0..k + 1 /\ ~(j <= k)
        BY <3>2
      <4>2. w[j] = next /\ w[k] = v[k]
        BY <4>1
      <4> QED
        BY <3>2, <4>1, <4>2
    <3> QED
      BY <3>1, <3>2
  <2>3. IsDescentWalk(w, tokens, root, op, create, k + 1)
    BY <2>2 DEF IsDescentWalk
  <2>4. k + 1 \in 0..n
    BY <1>2
  <2> QED
    BY <2>3, <2>4
<1>3. n \in S
  <2> HIDE DEF S
  <2>1. 0..n \subseteq S
    BY <1>1, <1>2, Upwards
  <2> QED
    BY <2>1
<1>4. PICK w : IsDescentWalk(w, tokens, root, op, create, n)
  BY <1>3
<1> QED
  BY <1>4 DEF DescentWalk, IsDescentWalk

\* After a level that failed, nothing happens.
LEMMA FailureStays ==
  ASSUME NEW n \in Nat, NEW w, NEW m \in 0..n, ~w[m].ok,
         \A j \in 1..n : ~w[j - 1].ok => w[j] = w[j - 1]
  PROVE  w[n] = w[m]
<1> DEFINE S == {k \in 0..n : k < m \/ w[k] = w[m]}
<1>1. 0 \in S
  OBVIOUS
<1>2. ASSUME NEW k \in 0..n, k \in S, k < n
      PROVE  k + 1 \in S
  <2>1. k + 1 \in 1..n /\ (k + 1) - 1 = k /\ k + 1 \in 0..n
    BY <1>2
  <2>2. CASE k < m
    BY <2>1, <2>2
  <2>3. CASE ~(k < m)
    BY <1>2, <2>1, <2>3
  <2> QED
    BY <2>2, <2>3
<1>3. 0..n \subseteq S
  <2> HIDE DEF S
  <2> QED
    BY <1>1, <1>2, Upwards
<1> QED
  BY <1>3

\* Two ways to rebuild levels from the leaf up agree if they agree at the leaf
\* and in each step.
LEMMA DownwardEqual ==
  ASSUME NEW n \in Nat \ {0}, NEW f, NEW g, f[n] = g[n],
         \A j \in 1..n : j < n /\ f[j + 1] = g[j + 1] => f[j] = g[j]
  PROVE  f[1] = g[1]
<1> DEFINE S == {k \in 0..n - 1 : f[n - k] = g[n - k]}
<1>1. 0 \in S
  BY n - 0 = n
<1>2. ASSUME NEW k \in 0..n - 1, k \in S, k < n - 1
      PROVE  k + 1 \in S
  <2>1. n - (k + 1) \in 1..n /\ n - (k + 1) < n /\ (n - (k + 1)) + 1 = n - k /\ k + 1 \in 0..n - 1
    BY <1>2
  <2> QED
    BY <1>2, <2>1
<1>3. 0..n - 1 \subseteq S
  <2>1. n - 1 \in Nat
    OBVIOUS
  <2> HIDE DEF S
  <2> QED
    BY <1>1, <1>2, <2>1, Upwards
<1>4. n - 1 \in S /\ n - (n - 1) = 1
  BY <1>3
<1> QED
  BY <1>4

-----------------------------------------------------------------------------
(* Edits that undo each other. *)

\* Removing the element just inserted.
LEMMA InsertThenRemove ==
  ASSUME NEW S, NEW s \in Seq(S), NEW e \in S, NEW p \in 1..Len(s) + 1
  PROVE  RemoveAt(InsertAt(s, p, e), p) = s
<1> DEFINE t == InsertAt(s, p, e)
           u == RemoveAt(t, p)
           n == Len(s)
<1>1. n \in Nat /\ t \in Seq(S) /\ Len(t) = n + 1 /\ p \in 1..Len(t) /\ p \in 1..n + 1
  BY InsertIntoSequence
<1>2. (\A k \in 1..p - 1 : t[k] = s[k]) /\ \A k \in p..n : t[k + 1] = s[k]
  BY InsertedElements
<1> HIDE DEF t
<1>3. u \in Seq(S)
  BY <1>1, RemoveFromSequence
<1>4. /\ Len(u) = Len(t) - 1
      /\ \A k \in 1..p - 1 : u[k] = t[k]
      /\ \A k \in p..Len(t) - 1 : u[k] = t[k + 1]
  BY <1>1, RemovedElements
<1> HIDE DEF u
<1>5. ASSUME NEW k \in 1..n
      PROVE  u[k] = s[k]
  <2>1. CASE k \in 1..p - 1
    BY <1>2, <1>4, <2>1
  <2>2. CASE k \in p..n
    BY <1>1, <1>2, <1>4, <2>2
  <2> QED BY <1>1, <2>1, <2>2
<1>6. Len(u) = Len(s)
  BY <1>1, <1>4 DEF n
<1> QED BY <1>3, <1>5, <1>6, SeqEqual DEF t, u, n

\* Inserting again the element just removed.
LEMMA RemoveThenInsert ==
  ASSUME NEW S, NEW s \in Seq(S), NEW p \in 1..Len(s)
  PROVE  InsertAt(RemoveAt(s, p), p, s[p]) = s /\ Len(RemoveAt(s, p)) = Len(s) - 1
<1> DEFINE n == Len(s)
           t == RemoveAt(s, p)
           e == s[p]
           u == InsertAt(t, p, e)
<1>1. n \in Nat /\ p \in 1..n /\ e \in S
  BY ElementOfSeq
<1>2. t \in Seq(S)
  BY RemoveFromSequence
<1>3. /\ Len(t) = n - 1
      /\ \A k \in 1..p - 1 : t[k] = s[k]
      /\ \A k \in p..n - 1 : t[k] = s[k + 1]
  BY RemovedElements
<1> HIDE DEF t
<1>4. p \in 1..Len(t) + 1
  BY <1>1, <1>3
<1>5. u \in Seq(S) /\ Len(u) = Len(t) + 1 /\ u[p] = e
  BY <1>1, <1>2, <1>4, InsertIntoSequence
<1>6. (\A k \in 1..p - 1 : u[k] = t[k]) /\ \A k \in p..Len(t) : u[k + 1] = t[k]
  BY <1>1, <1>2, <1>4, InsertedElements
<1> HIDE DEF u
<1>7. ASSUME NEW k \in 1..n
      PROVE  u[k] = s[k]
  <2>1. CASE k \in 1..p - 1
    BY <1>3, <1>6, <2>1
  <2>2. CASE k = p
    BY <1>5, <2>2
  <2>3. CASE k \in p + 1..n
    <3>1. k - 1 \in p..n - 1 /\ (k - 1) + 1 = k
      BY <1>1, <2>3
    <3>2. u[k] = t[k - 1]
      BY <1>3, <1>6, <3>1
    <3> QED BY <1>3, <3>1, <3>2
  <2> QED BY <1>1, <2>1, <2>2, <2>3
<1> HIDE DEF n, e
<1>8. Len(u) = Len(s)
  BY <1>1, <1>3, <1>5 DEF n
<1> QED BY <1>3, <1>5, <1>7, <1>8, SeqEqual DEF t, u, n, e

\* A level that a read steps through.
Steps(c, tk) == EvalStepError(c, tk) = NoError

\* The level with another child where tk leads.
Put(c, tk, x) == Reattach(c, tk, ResolvedIndex(c, tk), x)

\* A well-formed container is its members or elements, and nothing else.
LEMMA JsonIs ==
  ASSUME NEW c, IsJson(c)
  PROVE  /\ IsObject(c) => c = Object(c.members) /\ c.members = [q \in DOMAIN c.members |-> c.members[q]]
         /\ IsArray(c) => c = Array(c.elements)
         /\ ~(IsObject(c) /\ IsArray(c))
BY JsonUnfold DEF WellShaped, IsObject, IsArray

\* Where a read steps: a member of that name, or an element that is there.
LEMMA StepsWhere ==
  ASSUME NEW c, IsJson(c), NEW tk \in TokenType
  PROVE  /\ Steps(c, tk) <=> \/ IsObject(c) /\ HasMember(c, tk.key)
                             \/ IsArray(c) /\ IsIndex(tk) /\ tk.index < Size(c)
         /\ Steps(c, tk) => IsJson(EvalStep(c, tk))
         /\ IsArray(c) => Size(c) \in Nat
<1>1. IsArray(c) => Size(c) \in Nat
  BY JsonElements DEF Size
<1>2. Steps(c, tk) <=> \/ IsObject(c) /\ HasMember(c, tk.key)
                       \/ IsArray(c) /\ IsIndex(tk) /\ tk.index < Size(c)
  BY JsonIs DEF Steps, EvalStepError, NoError
<1>3. CASE IsObject(c) /\ HasMember(c, tk.key)
  <2>1. EvalStep(c, tk) \in Children(c)
    BY <1>3 DEF EvalStep, HasMember, Children
  <2> QED BY <1>1, <1>2, <2>1, JsonUnfold
<1>4. CASE IsArray(c) /\ IsIndex(tk) /\ tk.index < Size(c)
  <2>1. tk.index + 1 \in 1..Len(c.elements)
    BY <1>1, <1>4 DEF TokenType, Size
  <2>2. EvalStep(c, tk) \in Children(c)
    BY <1>4, <2>1, JsonIs, JsonElements DEF EvalStep, ElementAt
  <2> QED BY <1>1, <1>2, <2>2, JsonUnfold
<1> QED BY <1>1, <1>2, <1>3, <1>4

\* Without creating anything a write descends exactly where a read steps.
LEMMA DescendsSteps ==
  ASSUME NEW c, IsJson(c), NEW tk \in TokenType, NEW next
  PROVE  /\ DescendError(c, tk, FALSE) = NoError <=> Steps(c, tk)
         /\ Steps(c, tk) => Child(c, tk, next) = EvalStep(c, tk)
<1>1. CASE IsObject(c)
  <2>1. Steps(c, tk) <=> HasMember(c, tk.key)
    BY <1>1, StepsWhere, JsonIs
  <2>2. DescendError(c, tk, FALSE) = NoError <=> HasMember(c, tk.key)
    BY <1>1, JsonIs DEF DescendError, Exists, NoError, HasMember
  <2>3. HasMember(c, tk.key) => Child(c, tk, next) = EvalStep(c, tk)
    BY <1>1 DEF Child, EvalStep, Exists
  <2> QED BY <2>1, <2>2, <2>3
<1>2. CASE IsArray(c)
  <2>1. Size(c) \in Nat /\ ~IsObject(c)
    BY <1>2, StepsWhere, JsonIs
  <2>2. CASE IsIndex(tk)
    <3>1. Steps(c, tk) <=> tk.index < Size(c)
      BY <1>2, <2>1, <2>2, StepsWhere
    <3>2. DescendError(c, tk, FALSE) = NoError <=> tk.index < Size(c)
      BY <1>2, <2>1, <2>2 DEF DescendError, NoError, Exists, ResolvedIndex
    <3>3. tk.index < Size(c) => Child(c, tk, next) = EvalStep(c, tk)
      BY <2>1, <2>2 DEF Child, EvalStep, Exists, ResolvedIndex
    <3> QED BY <3>1, <3>2, <3>3
  <2>3. CASE ~IsIndex(tk)
    <3>1. ~Steps(c, tk)
      BY <2>1, <2>3, StepsWhere
    <3>2. DescendError(c, tk, FALSE) # NoError
      BY <1>2, <2>1, <2>3 DEF DescendError, NoError, Exists, ResolvedIndex
    <3> QED BY <3>1, <3>2
  <2> QED BY <2>2, <2>3
<1>3. CASE ~IsObject(c) /\ ~IsArray(c)
  BY <1>3, StepsWhere DEF DescendError, NoError
<1> QED BY <1>1, <1>2, <1>3

\* A member inserted and taken out again, or the other way round, and one
\* overwritten twice.
LEMMA MemberEdits ==
  ASSUME NEW c, IsJson(c), IsObject(c), NEW key, NEW x
  PROVE  /\ IsObject(InsertMember(c, key, x)) /\ IsObject(RemoveMember(c, key))
         /\ HasMember(InsertMember(c, key, x), key)
         /\ ~HasMember(RemoveMember(c, key), key)
         /\ InsertMember(c, key, x).members[key] = x
         /\ ~HasMember(c, key) => RemoveMember(InsertMember(c, key, x), key) = c
         /\ HasMember(c, key) =>
              /\ InsertMember(RemoveMember(c, key), key, c.members[key]) = c
              /\ InsertMember(InsertMember(c, key, x), key, c.members[key]) = c
<1> DEFINE m == c.members
           D == DOMAIN m
           ins == [q \in D \cup {key} |-> IF q = key THEN x ELSE m[q]]
           rem == [q \in D \ {key} |-> m[q]]
<1>1. c = Object(m) /\ m = [q \in D |-> m[q]]
  BY JsonIs
<1>2. /\ InsertMember(c, key, x) = Object(ins) /\ RemoveMember(c, key) = Object(rem)
      /\ Object(ins).members = ins /\ Object(rem).members = rem
  BY DEF InsertMember, RemoveMember, Object
<1>3. DOMAIN ins = D \cup {key} /\ DOMAIN rem = D \ {key} /\ ins[key] = x
  OBVIOUS
<1>4. ASSUME key \notin D
      PROVE  [q \in (D \cup {key}) \ {key} |-> ins[q]] = m
  <2>1. (D \cup {key}) \ {key} = D /\ \A q \in D : ins[q] = m[q]
    BY <1>4
  <2>2. [q \in D |-> ins[q]] = [q \in D |-> m[q]]
    BY <2>1
  <2> HIDE DEF ins, D
  <2> QED BY <1>1, <2>1, <2>2
<1>5. ASSUME key \in D
      PROVE  /\ [q \in (D \ {key}) \cup {key} |-> IF q = key THEN m[key] ELSE rem[q]] = m
             /\ [q \in (D \cup {key}) \cup {key} |-> IF q = key THEN m[key] ELSE ins[q]] = m
  <2>1. /\ (D \ {key}) \cup {key} = D /\ (D \cup {key}) \cup {key} = D
        /\ \A q \in D : q # key => rem[q] = m[q] /\ ins[q] = m[q]
    BY <1>5
  <2>2. /\ [q \in D |-> IF q = key THEN m[key] ELSE rem[q]] = [q \in D |-> m[q]]
        /\ [q \in D |-> IF q = key THEN m[key] ELSE ins[q]] = [q \in D |-> m[q]]
    BY <2>1
  <2> HIDE DEF ins, rem, D
  <2> QED BY <1>1, <2>1, <2>2
<1>6. IsObject(Object(ins)) /\ IsObject(Object(rem))
  BY DEF Object, IsObject
<1> HIDE DEF ins, rem, D, m
<1>7. ~HasMember(c, key) => RemoveMember(InsertMember(c, key, x), key) = c
  BY <1>1, <1>2, <1>3, <1>4 DEF RemoveMember, HasMember, D, m
<1>8. HasMember(c, key) => /\ InsertMember(RemoveMember(c, key), key, c.members[key]) = c
                           /\ InsertMember(InsertMember(c, key, x), key, c.members[key]) = c
  BY <1>1, <1>2, <1>3, <1>5 DEF InsertMember, HasMember, D, m
<1> QED BY <1>2, <1>3, <1>6, <1>7, <1>8 DEF HasMember

\* The same of an element.
LEMMA ElementsUndone ==
  ASSUME NEW c, IsJson(c), IsArray(c), NEW x, IsJson(x), NEW p \in 0..Size(c)
  PROVE  /\ Size(InsertElement(c, p, x)) = Size(c) + 1
         /\ RemoveElement(InsertElement(c, p, x), p) = c
         /\ p < Size(c) =>
              /\ IsArray(RemoveElement(c, p)) /\ Size(RemoveElement(c, p)) = Size(c) - 1
              /\ InsertElement(RemoveElement(c, p), p, ElementAt(c, p)) = c
              /\ Size(ReplaceElement(c, p, x)) = Size(c)
              /\ ReplaceElement(ReplaceElement(c, p, x), p, ElementAt(c, p)) = c
<1> DEFINE S == Children(c) \cup {x}
           s == c.elements
<1>1. /\ s \in Seq(S) /\ Len(s) \in Nat /\ p + 1 \in 1..Len(s) + 1 /\ Size(c) = Len(s)
      /\ c = Array(s)
  <2>1. s \in Seq(Children(c)) /\ Len(s) \in Nat /\ c = Array(s) /\ Size(c) = Len(s)
    BY JsonElements, JsonIs DEF Size
  <2> HIDE DEF s
  <2>2. s \in Seq(S)
    BY <2>1, SeqMonotonic
  <2> QED BY <2>1, <2>2
<1>2. x \in S
  OBVIOUS
<1>e. \A t : Array(t).elements = t /\ IsArray(Array(t))
  BY DEF Array, IsArray
<1> HIDE DEF S, s
<1>3. /\ Len(InsertAt(s, p + 1, x)) = Len(s) + 1
      /\ RemoveAt(InsertAt(s, p + 1, x), p + 1) = s
  BY <1>1, <1>2, InsertIntoSequence, InsertThenRemove
<1>4. /\ Size(InsertElement(c, p, x)) = Size(c) + 1
      /\ RemoveElement(InsertElement(c, p, x), p) = c
  BY <1>1, <1>3, <1>e DEF InsertElement, RemoveElement, Size, s
<1>5. ASSUME p < Size(c)
      PROVE  /\ IsArray(RemoveElement(c, p)) /\ Size(RemoveElement(c, p)) = Size(c) - 1
             /\ InsertElement(RemoveElement(c, p), p, ElementAt(c, p)) = c
             /\ Size(ReplaceElement(c, p, x)) = Size(c)
             /\ ReplaceElement(ReplaceElement(c, p, x), p, ElementAt(c, p)) = c
  <2>1. p + 1 \in 1..Len(s)
    BY <1>1, <1>5
  <2>2. InsertAt(RemoveAt(s, p + 1), p + 1, s[p + 1]) = s /\ Len(RemoveAt(s, p + 1)) = Len(s) - 1
    BY <1>1, <2>1, RemoveThenInsert
  <2>3. Len(ReplaceAt(s, p + 1, x)) = Len(s)
    BY <1>1, <1>2, <2>1, ExceptSeq DEF ReplaceAt
  <2>4. ReplaceAt(ReplaceAt(s, p + 1, x), p + 1, s[p + 1]) = s
    <3>1. s \in [1..Len(s) -> S]
      BY <1>1, LenProperties
    <3> QED BY <2>1, <3>1 DEF ReplaceAt
  <2>5. ElementAt(c, p) = s[p + 1]
    BY DEF ElementAt, s
  <2> QED
    BY <1>1, <1>e, <2>2, <2>3, <2>4, <2>5 DEF InsertElement, RemoveElement, ReplaceElement, Size, s
<1> QED BY <1>4, <1>5

\* A level stays one that the token steps through when its child is exchanged,
\* and gets its old self back with its old child.
LEMMA PutSteps ==
  ASSUME NEW c, IsJson(c), NEW tk \in TokenType, Steps(c, tk), NEW x, IsJson(x)
  PROVE  /\ IsJson(Put(c, tk, x))
         /\ Steps(Put(c, tk, x), tk)
         /\ EvalStep(Put(c, tk, x), tk) = x
         /\ Put(Put(c, tk, x), tk, EvalStep(c, tk)) = c
<1> DEFINE d == Put(c, tk, x)
<1>1. CASE IsObject(c)
  <2>1. HasMember(c, tk.key) /\ ~IsArray(c)
    BY <1>1, StepsWhere, JsonIs
  <2>2. \A o, y : IsObject(o) => Put(o, tk, y) = InsertMember(o, tk.key, y)
    BY DEF Put, ResolvedIndex, Reattach
  <2>3. d = InsertMember(c, tk.key, x) /\ EvalStep(c, tk) = c.members[tk.key] /\ IsJson(d)
    BY <1>1, <2>2, JsonInsertMember DEF EvalStep
  <2>4. /\ IsObject(d) /\ HasMember(d, tk.key) /\ d.members[tk.key] = x
        /\ InsertMember(d, tk.key, c.members[tk.key]) = c
    BY <1>1, <2>1, <2>3, MemberEdits
  <2> HIDE DEF d
  <2>5. Steps(d, tk) /\ EvalStep(d, tk) = x
    BY <2>3, <2>4, StepsWhere DEF EvalStep
  <2> QED BY <2>2, <2>3, <2>4, <2>5 DEF d
<1>2. CASE IsArray(c)
  <2> DEFINE p == tk.index
  <2>1. IsIndex(tk) /\ p < Size(c) /\ Size(c) \in Nat /\ p \in Nat /\ p \in 0..Size(c) /\ ~IsObject(c)
    <3>1. ~IsObject(c) /\ IsIndex(tk) /\ p < Size(c) /\ Size(c) \in Nat
      BY <1>2, StepsWhere, JsonIs
    <3>2. p \in Nat
      BY DEF TokenType
    <3> QED BY <3>1, <3>2
  <2> HIDE DEF p
  <2>2. ASSUME NEW o, NEW y, IsArray(o), Size(o) = Size(c)
        PROVE  Put(o, tk, y) = ReplaceElement(o, p, y)
    <3>1. ~IsObject(o) /\ ResolvedIndex(o, tk) = p
      BY <2>1, <2>2 DEF IsArray, IsObject, ResolvedIndex, p
    <3> QED BY <2>1, <2>2, <3>1 DEF Put, Reattach
  <2>3. d = ReplaceElement(c, p, x) /\ EvalStep(c, tk) = ElementAt(c, p)
    BY <1>2, <2>1, <2>2 DEF EvalStep, p
  <2> HIDE DEF d
  <2>4. /\ IsJson(d) /\ IsArray(d) /\ ElementAt(d, p) = x /\ Size(d) = Size(c)
        /\ ReplaceElement(d, p, ElementAt(c, p)) = c
    BY <1>2, <2>1, <2>3, ElementEdits, ElementsUndone
  <2>5. Steps(d, tk) /\ EvalStep(d, tk) = x
    BY <2>1, <2>4, StepsWhere, JsonIs DEF EvalStep, p
  <2>6. Put(d, tk, EvalStep(c, tk)) = c
    BY <2>2, <2>3, <2>4
  <2> QED BY <2>4, <2>5, <2>6 DEF d
<1> QED BY <1>1, <1>2, StepsWhere

\* Adding where nothing is overwritten: what was added is there, and removing it
\* gives the container back.
LEMMA AddAtLeaf ==
  ASSUME NEW c, IsJson(c), NEW tk \in TokenType, NEW x, IsJson(x), NEW y,
         LeafError(c, tk, "Add") = NoError
  PROVE  LET d == LeafEdit(c, tk, "Add", x) IN
         /\ IsJson(d)
         /\ ~IsAppendToken(tk) \/ LeafError(d, tk, "Remove") = NoError =>
              Steps(d, tk) /\ EvalStep(d, tk) = x
         /\ (~IsAppendToken(tk) \/ LeafError(d, tk, "Remove") = NoError)
            /\ ~(IsObject(c) /\ HasMember(c, tk.key)) =>
              /\ LeafError(d, tk, "Remove") = NoError
              /\ LeafEdit(d, tk, "Remove", y) = c
<1> DEFINE d == LeafEdit(c, tk, "Add", x)
<1>1. CASE IsObject(c)
  <2>1. d = InsertMember(c, tk.key, x) /\ IsJson(d)
    BY <1>1, JsonInsertMember DEF LeafEdit
  <2>2. /\ IsObject(d) /\ HasMember(d, tk.key) /\ d.members[tk.key] = x
        /\ ~HasMember(c, tk.key) => RemoveMember(d, tk.key) = c
    BY <1>1, <2>1, MemberEdits
  <2> HIDE DEF d
  <2>3. Steps(d, tk) /\ EvalStep(d, tk) = x
    BY <2>1, <2>2, StepsWhere DEF EvalStep
  <2>4. LeafError(d, tk, "Remove") = NoError
    BY <2>1, <2>2, JsonIs DEF LeafError, NoError, Exists
  <2>5. LeafEdit(d, tk, "Remove", y) = RemoveMember(d, tk.key)
    BY <2>2 DEF LeafEdit
  <2> QED BY <1>1, <2>1, <2>2, <2>3, <2>4, <2>5 DEF d
<1>2. CASE IsArray(c)
  <2> DEFINE p == ResolvedIndex(c, tk)
  <2>1. Size(c) \in Nat /\ ~IsObject(c) /\ p \in 0..Size(c)
    BY <1>2, StepsWhere, JsonIs, ResolvedInside
  <2>2. p = IF IsIndex(tk) THEN tk.index ELSE Size(c)
    BY <2>1 DEF ResolvedIndex
  <2>3. IsIndex(tk) \/ IsAppendToken(tk)
    BY <1>2, <2>1 DEF LeafError, NoError
  <2> HIDE DEF p
  <2>4. d = InsertElement(c, p, x)
    BY <2>1 DEF LeafEdit, p
  <2> HIDE DEF d
  <2>5. /\ IsJson(d) /\ IsArray(d) /\ p < Size(d) /\ ElementAt(d, p) = x
        /\ Size(d) = Size(c) + 1 /\ RemoveElement(d, p) = c
    BY <1>2, <2>1, <2>4, ElementEdits, ElementsUndone
  <2>6. ~IsObject(d) /\ Size(d) \in Nat
    BY <2>5, JsonIs, StepsWhere
  <2>7. IsIndex(tk) \/ LeafError(d, tk, "Remove") # NoError
    <3>1. ASSUME ~IsIndex(tk)
          PROVE  LeafError(d, tk, "Remove") # NoError
      BY <2>3, <2>5, <2>6, <3>1 DEF LeafError, NoError, Exists, ResolvedIndex
    <3> QED BY <3>1
  <2>8. ASSUME IsIndex(tk)
        PROVE  /\ Steps(d, tk) /\ EvalStep(d, tk) = x
               /\ LeafError(d, tk, "Remove") = NoError
               /\ LeafEdit(d, tk, "Remove", y) = c
    <3>1. tk.index = p /\ ResolvedIndex(d, tk) = p
      BY <2>2, <2>6, <2>8 DEF ResolvedIndex
    <3>2. Steps(d, tk) /\ EvalStep(d, tk) = x
      BY <2>5, <2>6, <2>8, <3>1, StepsWhere DEF EvalStep
    <3>3. LeafError(d, tk, "Remove") = NoError
      BY <2>5, <2>6, <2>8, <3>1 DEF LeafError, NoError, Exists
    <3>4. LeafEdit(d, tk, "Remove", y) = c
      BY <2>5, <2>6, <3>1 DEF LeafEdit
    <3> QED BY <3>2, <3>3, <3>4
  <2>9. IsIndex(tk) => ~IsAppendToken(tk)
    BY DEF IsIndex, IsAppendToken
  <2> QED BY <2>3, <2>5, <2>7, <2>8, <2>9 DEF d
<1>3. CASE ~IsObject(c) /\ ~IsArray(c)
  BY <1>3 DEF LeafError, NoError
<1> QED BY <1>1, <1>2, <1>3

\* Removing takes out what a read finds, and adding that again gives the
\* container back.
LEMMA RemoveAtLeaf ==
  ASSUME NEW c, IsJson(c), NEW tk \in TokenType, NEW y, LeafError(c, tk, "Remove") = NoError
  PROVE  LET d == LeafEdit(c, tk, "Remove", y) IN
         /\ IsJson(d)
         /\ Steps(c, tk)
         /\ Child(c, tk, tk) = EvalStep(c, tk)
         /\ LeafError(d, tk, "Add") = NoError
         /\ LeafEdit(d, tk, "Add", EvalStep(c, tk)) = c
<1> DEFINE d == LeafEdit(c, tk, "Remove", y)
<1>1. CASE IsObject(c)
  <2>1. d = RemoveMember(c, tk.key) /\ IsJson(d) /\ ~IsArray(c)
    BY <1>1, JsonRemoveMember, JsonIs DEF LeafEdit
  <2>2. HasMember(c, tk.key)
    BY <1>1, <2>1 DEF LeafError, NoError, Exists
  <2>3. IsObject(d) /\ InsertMember(d, tk.key, c.members[tk.key]) = c
    BY <1>1, <2>1, <2>2, MemberEdits
  <2> HIDE DEF d
  <2>4. Steps(c, tk) /\ EvalStep(c, tk) = c.members[tk.key]
    BY <1>1, <2>2, StepsWhere DEF EvalStep
  <2>5. LeafEdit(d, tk, "Add", EvalStep(c, tk)) = InsertMember(d, tk.key, EvalStep(c, tk))
    BY <2>3 DEF LeafEdit
  <2>6. LeafError(d, tk, "Add") = NoError
    BY <2>1, <2>3, JsonIs DEF LeafError, NoError
  <2> QED BY <2>1, <2>3, <2>4, <2>5, <2>6, DescendsSteps DEF d
<1>2. CASE IsArray(c)
  <2> DEFINE p == tk.index
  <2>1. Size(c) \in Nat /\ ~IsObject(c)
    BY <1>2, StepsWhere, JsonIs
  <2>2. IsIndex(tk) /\ p < Size(c)
    BY <1>2, <2>1 DEF LeafError, NoError, Exists, ResolvedIndex
  <2>3. p \in 0..Size(c) /\ p \in Nat
    BY <2>1, <2>2 DEF TokenType
  <2> HIDE DEF p
  <2>4. d = RemoveElement(c, p)
    BY <2>1, <2>2 DEF LeafEdit, ResolvedIndex, p
  <2> HIDE DEF d
  <2>5. /\ IsJson(d) /\ IsArray(d) /\ InsertElement(d, p, ElementAt(c, p)) = c
        /\ Size(d) = Size(c) - 1
    BY <1>2, <2>2, <2>3, <2>4, ElementEdits, ElementsUndone, CreatedJson
  <2>6. Steps(c, tk) /\ EvalStep(c, tk) = ElementAt(c, p)
    BY <1>2, <2>1, <2>2, StepsWhere DEF EvalStep, p
  <2>7. ~IsObject(d)
    BY <2>5, JsonIs
  <2>8. LeafEdit(d, tk, "Add", EvalStep(c, tk)) = c
    BY <2>2, <2>5, <2>6, <2>7 DEF LeafEdit, ResolvedIndex, p
  <2>9. LeafError(d, tk, "Add") = NoError
    <3>1. ResolvedIndex(d, tk) = p /\ (p < Size(d) \/ p = Size(d))
      BY <2>1, <2>2, <2>3, <2>5, <2>7 DEF ResolvedIndex, p
    <3> QED BY <2>2, <2>5, <2>7, <3>1 DEF LeafError, NoError, Exists
  <2> QED BY <2>5, <2>6, <2>8, <2>9, DescendsSteps DEF d
<1>3. CASE ~IsObject(c) /\ ~IsArray(c)
  BY <1>3 DEF LeafError, NoError
<1> QED BY <1>1, <1>2, <1>3

\* Any edit leaves a well-formed container.
LEMMA LeafEditJson ==
  ASSUME NEW c, IsJson(c), NEW tk \in TokenType, NEW x, IsJson(x), NEW op \in WriteOps,
         LeafError(c, tk, op) = NoError
  PROVE  IsJson(LeafEdit(c, tk, op, x))
<1>1. CASE op = "Add"
  BY <1>1, AddAtLeaf
<1>2. CASE op = "Remove"
  BY <1>2, RemoveAtLeaf
<1>3. CASE op = "Replace"
  <2>1. CASE IsObject(c)
    BY <1>3, <2>1, JsonInsertMember DEF LeafEdit
  <2>2. CASE IsArray(c)
    <3> DEFINE p == ResolvedIndex(c, tk)
    <3>1. p \in 0..Size(c) /\ p < Size(c) /\ ~IsObject(c)
      BY <1>3, <2>2, ResolvedInside, JsonIs
    <3> HIDE DEF p
    <3>2. LeafEdit(c, tk, op, x) = ReplaceElement(c, p, x)
      BY <1>3, <3>1 DEF LeafEdit, p
    <3> QED BY <2>2, <3>1, <3>2, ElementEdits
  <2> QED BY <2>1, <2>2, ResolvedInside DEF IsContainer
<1> QED BY <1>1, <1>2, <1>3 DEF WriteOps

-----------------------------------------------------------------------------
(* The walks of a whole call, level by level. *)

\* A read that steps through every level finds what the last one leads to.
LEMMA EvalAlong ==
  ASSUME NEW tokens \in Seq(TokenType), NEW f,
         \A j \in 1..Len(tokens) : Steps(f[j], tokens[j]) /\ f[j + 1] = EvalStep(f[j], tokens[j])
  PROVE  EvaluatePointer(tokens, f[1]) = Success(f[Len(tokens) + 1])
<1> DEFINE n == Len(tokens)
           w == EvalWalk(tokens, f[1])
           S == {k \in 0..n : w[k] = Success(f[k + 1])}
<1>1. n \in Nat
  BY LenProperties
<1>2. IsEvalWalk(w, tokens, f[1], n)
  BY <1>1, EvalWalkUnfolds
<1> HIDE DEF w
<1>3. w[0] = Success(f[1]) /\ \A k \in 1..n : w[k] = EvalAfter(w[k - 1], tokens[k], k - 1)
  BY <1>1, <1>2 DEF IsEvalWalk
<1>4. 0 \in S
  BY <1>1, <1>3
<1>5. ASSUME NEW k \in 0..n, k \in S, k < n
      PROVE  k + 1 \in S
  <2>1. k + 1 \in 1..n /\ (k + 1) - 1 = k /\ k + 1 \in 0..n
    BY <1>1, <1>5
  <2>2. w[k + 1] = EvalAfter(Success(f[k + 1]), tokens[k + 1], k)
    BY <1>3, <1>5, <2>1
  <2>3. /\ EvalStepError(f[k + 1], tokens[k + 1]) = NoError
        /\ f[(k + 1) + 1] = EvalStep(f[k + 1], tokens[k + 1])
    BY <2>1 DEF Steps
  <2>4. w[k + 1] = Success(f[(k + 1) + 1])
    BY <2>2, <2>3 DEF EvalAfter, Success
  <2> QED BY <2>1, <2>4
<1>6. 0..n \subseteq S
  <2> HIDE DEF S
  <2> QED BY <1>1, <1>4, <1>5, Upwards
<1>7. n \in S
  BY <1>1, <1>6
<1> QED BY <1>7 DEF EvaluatePointer, w

\* What a read of a well-formed value finds is one.
LEMMA EvalJson ==
  ASSUME NEW tokens \in Seq(TokenType), NEW v, IsJson(v), EvaluatePointer(tokens, v).ok
  PROVE  IsJson(EvaluatePointer(tokens, v).value)
<1> DEFINE n == Len(tokens)
           w == EvalWalk(tokens, v)
           S == {k \in 0..n : w[k].ok => IsJson(w[k].value)}
<1>1. n \in Nat
  BY LenProperties
<1>2. IsEvalWalk(w, tokens, v, n)
  BY <1>1, EvalWalkUnfolds
<1> HIDE DEF w
<1>3. w[0] = Success(v) /\ \A k \in 1..n : w[k] = EvalAfter(w[k - 1], tokens[k], k - 1)
  BY <1>1, <1>2 DEF IsEvalWalk
<1>4. 0 \in S
  BY <1>1, <1>3 DEF Success
<1>5. ASSUME NEW k \in 0..n, k \in S, k < n
      PROVE  k + 1 \in S
  <2> DEFINE c == w[k].value
             tk == tokens[k + 1]
  <2>1. k + 1 \in 1..n /\ (k + 1) - 1 = k /\ k + 1 \in 0..n
    BY <1>1, <1>5
  <2>2. w[k + 1] = EvalAfter(w[k], tk, k) /\ tk \in TokenType
    BY <1>3, <2>1, ElementOfSeq
  <2>3. ASSUME w[k + 1].ok
        PROVE  IsJson(w[k + 1].value)
    <3>1. w[k].ok
      BY <2>2, <2>3 DEF EvalAfter
    <3>2. EvalStepError(c, tk) = NoError
      BY <2>2, <2>3, <3>1 DEF EvalAfter, Failure
    <3>3. w[k + 1].value = EvalStep(c, tk)
      BY <2>2, <3>1, <3>2 DEF EvalAfter, Success
    <3>4. IsJson(c)
      BY <1>5, <3>1
    <3> HIDE DEF c, tk
    <3> QED BY <2>2, <3>2, <3>3, <3>4, StepsWhere DEF Steps
  <2> QED BY <2>1, <2>3
<1>6. 0..n \subseteq S
  <2> HIDE DEF S
  <2> QED BY <1>1, <1>4, <1>5, Upwards
<1>7. n \in S
  BY <1>1, <1>6
<1> QED BY <1>7 DEF EvaluatePointer, w

\* Each level is the child of the one before it.
Chain(tokens, s) == \A j \in 1..Len(tokens) - 1 : s[j + 1] = EvalStep(s[j], tokens[j])

\* Where a walk starts decides its levels.
LEMMA SameChain ==
  ASSUME NEW tokens \in Seq(TokenType), tokens # <<>>, NEW s, NEW t, s[1] = t[1],
         Chain(tokens, s), Chain(tokens, t)
  PROVE  \A j \in 1..Len(tokens) : s[j] = t[j]
<1> DEFINE n == Len(tokens) - 1
           S == {k \in 0..n : s[k + 1] = t[k + 1]}
<1>1. n \in Nat /\ n + 1 = Len(tokens)
  BY EmptySeq, LenProperties
<1>2. 0 \in S
  BY <1>1
<1>3. ASSUME NEW k \in 0..n, k \in S, k < n
      PROVE  k + 1 \in S
  <2>1. k + 1 \in 1..n /\ k + 1 \in 0..n
    BY <1>1, <1>3
  <2>2. s[(k + 1) + 1] = t[(k + 1) + 1]
    BY <1>3, <2>1 DEF Chain
  <2> QED BY <2>1, <2>2
<1>4. 0..n \subseteq S
  <2> HIDE DEF S
  <2> QED BY <1>1, <1>2, <1>3, Upwards
<1>5. ASSUME NEW j \in 1..Len(tokens)
      PROVE  s[j] = t[j]
  <2>1. j - 1 \in 0..n /\ (j - 1) + 1 = j
    BY <1>1
  <2> QED BY <1>4, <2>1
<1> QED BY <1>5

\* A level that a write goes through, or edits if it is the last.
Accepts(tokens, op, j, c) ==
  /\ IsJson(c)
  /\ IF j = Len(tokens) THEN LeafError(c, tokens[j], op) = NoError ELSE Steps(c, tokens[j])

\* The levels that a write accepts, the first k of them.
IsDescent(tokens, v, op, s, k) ==
  /\ k > 0 => s[1] = v
  /\ \A j \in 1..k : Accepts(tokens, op, j, s[j])
  /\ \A j \in 1..k - 1 : s[j + 1] = EvalStep(s[j], tokens[j])

\* One more level of the descent of a write that creates nothing.
LEMMA DescendOne ==
  ASSUME NEW tokens \in Seq(TokenType), NEW v, IsJson(v), NEW op, NEW k \in Nat, k < Len(tokens),
         NEW s, IsSequence(s), Len(s) = k, IsDescent(tokens, v, op, s, k), NEW c,
         c = IF k = 0 THEN v ELSE EvalStep(s[k], tokens[k])
  PROVE  /\ IsJson(c)
         /\ LET after == DescendAfter(Success(s), tokens, k + 1, v, op, FALSE) IN
            IF Accepts(tokens, op, k + 1, c) THEN after = Success(Append(s, c)) ELSE ~after.ok
         /\ Accepts(tokens, op, k + 1, c) => IsDescent(tokens, v, op, Append(s, c), k + 1)
<1> DEFINE n == Len(tokens)
           tk == tokens[k + 1]
           cur == Materialise(IF k + 1 = 1 THEN v ELSE Child(Last(s), tokens[(k + 1) - 1], tk),
                              tk, FALSE)
           err == IF k + 1 = n THEN LeafError(cur, tk, op) ELSE DescendError(cur, tk, FALSE)
           after == DescendAfter(Success(s), tokens, k + 1, v, op, FALSE)
<1>1. n \in Nat /\ k + 1 \in 1..n /\ (k + 1) - 1 = k /\ (k + 1 = 1 <=> k = 0) /\ tk \in TokenType
  BY LenProperties, ElementOfSeq
<1>2. IsJson(c) /\ cur = c
  <2>1. CASE k = 0
    BY <2>1 DEF Materialise
  <2>2. CASE k # 0
    <3>1. k \in 1..k /\ k \in 1..n /\ k # n
      BY <1>1, <2>2
    <3>2. IsJson(s[k]) /\ Steps(s[k], tokens[k]) /\ tokens[k] \in TokenType
      BY <3>1, ElementOfSeq DEF IsDescent, Accepts
    <3>3. Child(s[k], tokens[k], tk) = EvalStep(s[k], tokens[k]) /\ IsJson(c)
      BY <2>2, <3>2, DescendsSteps, StepsWhere
    <3>4. Last(s) = s[k]
      BY DEF Last
    <3> QED BY <1>1, <2>2, <3>3, <3>4 DEF Materialise
  <2> QED BY <2>1, <2>2
<1>3. after = IF err # NoError THEN Failure(err, ClampTokenIndex((k + 1) - 1))
              ELSE Success(Append(s, cur))
  BY DEF DescendAfter, Success
<1>4. err = NoError <=> Accepts(tokens, op, k + 1, c)
  <2>1. k + 1 # n => (DescendError(c, tk, FALSE) = NoError <=> Steps(c, tk))
    BY <1>1, <1>2, DescendsSteps
  <2> HIDE DEF cur
  <2> QED BY <1>2, <2>1 DEF Accepts
<1>5. ASSUME Accepts(tokens, op, k + 1, c)
      PROVE  IsDescent(tokens, v, op, Append(s, c), k + 1)
  <2>1. Append(s, c)[k + 1] = c /\ \A j \in 1..k : Append(s, c)[j] = s[j]
    BY AppendToSequence
  <2> DEFINE t == Append(s, c)
  <2> HIDE DEF t
  <2>2. t[1] = v
    BY <2>1, k = 0 \/ (k > 0 /\ 1 \in 1..k) DEF IsDescent, t
  <2>3. ASSUME NEW j \in 1..k + 1
        PROVE  Accepts(tokens, op, j, t[j])
    BY <1>5, <2>1, j \in 1..k \/ j = k + 1 DEF IsDescent, t
  <2>4. ASSUME NEW j \in 1..(k + 1) - 1
        PROVE  t[j + 1] = EvalStep(t[j], tokens[j])
    <3>1. j \in 1..k /\ ((j \in 1..k - 1 /\ j + 1 \in 1..k) \/ j = k)
      OBVIOUS
    <3>2. CASE j \in 1..k - 1 /\ j + 1 \in 1..k
      BY <2>1, <3>1, <3>2 DEF IsDescent, t
    <3>3. CASE j = k
      BY <2>1, <3>1, <3>3 DEF t
    <3> QED BY <3>1, <3>2, <3>3
  <2> QED BY <2>2, <2>3, <2>4 DEF IsDescent, t
<1> HIDE DEF cur, err, after
<1>6. IF Accepts(tokens, op, k + 1, c) THEN after = Success(Append(s, c)) ELSE ~after.ok
  BY <1>2, <1>3, <1>4 DEF Failure
<1> QED BY <1>2, <1>5, <1>6 DEF after

\* The levels of a write's descent that succeeds.
LEMMA DescentLevels ==
  ASSUME NEW tokens \in Seq(TokenType), tokens # <<>>, NEW v, IsJson(v), NEW op,
         Descent(tokens, v, op, FALSE).ok
  PROVE  LET d == Descent(tokens, v, op, FALSE) IN
         /\ d = Success(d.value)
         /\ IsDescent(tokens, v, op, d.value, Len(tokens))
         /\ IsSequence(d.value) /\ Len(d.value) = Len(tokens)
<1> DEFINE n == Len(tokens)
           w == DescentWalk(tokens, v, op, FALSE)
           Good(k) == /\ w[k] = Success(w[k].value)
                      /\ IsDescent(tokens, v, op, w[k].value, k)
                      /\ IsSequence(w[k].value) /\ Len(w[k].value) = k
           S == {k \in 0..n : w[k].ok => Good(k)}
<1>1. n \in Nat
  BY LenProperties
<1>2. IsDescentWalk(w, tokens, v, op, FALSE, n)
  BY <1>1, DescentWalkUnfolds
<1> HIDE DEF w
<1>3. /\ w[0] = Success(<<>>)
      /\ \A k \in 1..n : w[k] = DescendAfter(w[k - 1], tokens, k, v, op, FALSE)
  BY <1>1, <1>2 DEF IsDescentWalk
<1>4. 0 \in S
  <2>1. IsSequence(<<>>) /\ Len(<<>>) = 0
    BY EmptySeq DEF IsSequence
  <2>2. IsDescent(tokens, v, op, <<>>, 0)
    BY DEF IsDescent
  <2>3. w[0] = Success(<<>>) /\ w[0].value = <<>>
    BY <1>3 DEF Success
  <2>4. Good(0)
    BY <2>1, <2>2, <2>3
  <2> HIDE DEF Good
  <2> QED BY <1>1, <2>4
<1>5. ASSUME NEW k \in 0..n, k \in S, k < n
      PROVE  k + 1 \in S
  <2>1. k + 1 \in 1..n /\ (k + 1) - 1 = k /\ k + 1 \in 0..n /\ k \in Nat
    BY <1>1, <1>5
  <2>2. w[k + 1] = DescendAfter(w[k], tokens, k + 1, v, op, FALSE)
    BY <1>3, <2>1
  <2>3. ASSUME w[k + 1].ok
        PROVE  Good(k + 1)
    <3> DEFINE s == w[k].value
               c == IF k = 0 THEN v ELSE EvalStep(s[k], tokens[k])
    <3>1. w[k].ok
      BY <2>2, <2>3 DEF DescendAfter
    <3>2. Good(k)
      BY <1>5, <3>1
    <3>3. w[k] = Success(s) /\ IsDescent(tokens, v, op, s, k) /\ IsSequence(s) /\ Len(s) = k
      BY <3>2
    <3>4. w[k + 1] = DescendAfter(Success(s), tokens, k + 1, v, op, FALSE)
      BY <2>2, <3>3
    <3> HIDE DEF s, Good, c
    <3>5. /\ IF Accepts(tokens, op, k + 1, c) THEN w[k + 1] = Success(Append(s, c)) ELSE ~w[k + 1].ok
          /\ Accepts(tokens, op, k + 1, c) => IsDescent(tokens, v, op, Append(s, c), k + 1)
      BY <1>5, <2>1, <3>3, <3>4, DescendOne DEF c, n
    <3>6. w[k + 1] = Success(Append(s, c)) /\ IsDescent(tokens, v, op, Append(s, c), k + 1)
      BY <2>3, <3>5
    <3>7. IsSequence(Append(s, c)) /\ Len(Append(s, c)) = k + 1
      BY <3>3, AppendToSequence
    <3>8. w[k + 1].value = Append(s, c)
      BY <3>6 DEF Success
    <3> QED BY <3>6, <3>7, <3>8 DEF Good
  <2> QED BY <2>1, <2>3
<1>6. 0..n \subseteq S
  <2> HIDE DEF S
  <2> QED BY <1>1, <1>4, <1>5, Upwards
<1>7. n \in S
  BY <1>1, <1>6
<1>8. w[n] = Descent(tokens, v, op, FALSE)
  BY DEF Descent, w
<1> HIDE DEF w
<1>9. Good(n)
  BY <1>7, <1>8
<1> QED BY <1>8, <1>9

Agree(q, s, k) == \A j \in 1..k : q[j] = s[j]

\* Levels that a write accepts are what its descent finds.
LEMMA LevelsDescend ==
  ASSUME NEW tokens \in Seq(TokenType), tokens # <<>>, NEW v, IsJson(v), NEW op, NEW s,
         IsDescent(tokens, v, op, s, Len(tokens))
  PROVE  /\ Descent(tokens, v, op, FALSE).ok
         /\ Agree(Descent(tokens, v, op, FALSE).value, s, Len(tokens))
<1> DEFINE n == Len(tokens)
           w == DescentWalk(tokens, v, op, FALSE)
           Good(k) == /\ w[k] = Success(w[k].value)
                      /\ IsSequence(w[k].value) /\ Len(w[k].value) = k
                      /\ \A j \in 1..k : w[k].value[j] = s[j]
           S == {k \in 0..n : Good(k)}
<1>1. n \in Nat
  BY LenProperties
<1>2. IsDescentWalk(w, tokens, v, op, FALSE, n)
  BY <1>1, DescentWalkUnfolds
<1> HIDE DEF w
<1>3. /\ w[0] = Success(<<>>)
      /\ \A k \in 1..n : w[k] = DescendAfter(w[k - 1], tokens, k, v, op, FALSE)
  BY <1>1, <1>2 DEF IsDescentWalk
<1>4. 0 \in S
  <2>1. IsSequence(<<>>) /\ Len(<<>>) = 0
    BY EmptySeq DEF IsSequence
  <2>2. w[0] = Success(<<>>) /\ w[0].value = <<>>
    BY <1>3 DEF Success
  <2>3. Good(0)
    BY <2>1, <2>2
  <2> HIDE DEF Good
  <2> QED BY <1>1, <2>3
<1>5. ASSUME NEW k \in 0..n, k \in S, k < n
      PROVE  k + 1 \in S
  <2> DEFINE q == w[k].value
             c == IF k = 0 THEN v ELSE EvalStep(q[k], tokens[k])
  <2>1. k + 1 \in 1..n /\ (k + 1) - 1 = k /\ k + 1 \in 0..n /\ k \in Nat
    BY <1>1, <1>5
  <2>2. /\ w[k] = Success(q) /\ IsSequence(q) /\ Len(q) = k
        /\ \A j \in 1..k : q[j] = s[j]
    BY <1>5
  <2>3. w[k + 1] = DescendAfter(Success(q), tokens, k + 1, v, op, FALSE)
    <3>1. w[k + 1] = DescendAfter(w[k], tokens, k + 1, v, op, FALSE)
      BY <1>3, <2>1
    <3> QED BY <2>2, <3>1
  <2> HIDE DEF q, Good
  <2>4. IsDescent(tokens, v, op, q, k)
    <3>1. /\ k > 0 => 1 \in 1..k /\ n > 0
          /\ \A j \in 1..k : j \in 1..n
          /\ \A j \in 1..k - 1 : j \in 1..n - 1 /\ j \in 1..k /\ j + 1 \in 1..k
      BY <1>1, <1>5
    <3> QED BY <2>2, <3>1 DEF IsDescent
  <2>5. c = s[k + 1]
    <3>1. CASE k = 0
      BY <1>1, <2>1, <3>1 DEF IsDescent
    <3>2. CASE k # 0
      <4>1. k \in 1..k /\ k \in 1..n - 1
        BY <1>1, <1>5, <3>2
      <4> QED BY <2>2, <3>2, <4>1 DEF IsDescent
    <3> QED BY <3>1, <3>2
  <2>6. Accepts(tokens, op, k + 1, c)
    BY <2>1, <2>5 DEF IsDescent
  <2> HIDE DEF c
  <2>7. w[k + 1] = Success(Append(q, c))
    BY <1>5, <2>1, <2>2, <2>3, <2>4, <2>6, DescendOne DEF c, n
  <2>8. /\ IsSequence(Append(q, c)) /\ Len(Append(q, c)) = k + 1
        /\ \A j \in 1..k : Append(q, c)[j] = q[j]
        /\ Append(q, c)[k + 1] = c
    BY <2>2, AppendToSequence
  <2>9. w[k + 1].value = Append(q, c)
    BY <2>7 DEF Success
  <2>10. ASSUME NEW j \in 1..k + 1
         PROVE  Append(q, c)[j] = s[j]
    BY <2>1, <2>2, <2>5, <2>8, j \in 1..k \/ j = k + 1
  <2>11. Good(k + 1)
    BY <2>7, <2>8, <2>9, <2>10 DEF Good
  <2> QED BY <2>1, <2>11
<1>6. 0..n \subseteq S
  <2> HIDE DEF S
  <2> QED BY <1>1, <1>4, <1>5, Upwards
<1>7. n \in S
  BY <1>1, <1>6
<1>8. w[n] = Descent(tokens, v, op, FALSE)
  BY DEF Descent, w
<1> HIDE DEF w
<1>9. Good(n)
  BY <1>7
<1> DEFINE d == w[n]
<1>10. d = Success(d.value) /\ \A j \in 1..n : d.value[j] = s[j]
  BY <1>9
<1> HIDE DEF d, Good
<1>11. d.ok
  BY <1>10 DEF Success
<1>12. Agree(d.value, s, n)
  BY <1>10 DEF Agree
<1> QED BY <1>8, <1>11, <1>12 DEF d, n

\* A level rebuilt from the one below it, or edited if it is the last.
Rebuilt(tokens, s, op, x, f, j) ==
  IF j = Len(tokens) THEN LeafEdit(s[j], tokens[j], op, x) ELSE Put(s[j], tokens[j], f[j + 1])

IsRebuilt(tokens, s, op, x, f) == \A j \in 1..Len(tokens) : f[j] = Rebuilt(tokens, s, op, x, f, j)

\* What unwind leaves at the top is the first of the rebuilt levels.
LEMMA RebuildIs ==
  ASSUME NEW tokens, Len(tokens) \in Nat \ {0}, NEW s, NEW op, NEW x,
         NEW f, IsRebuilt(tokens, s, op, x, f)
  PROVE  Rebuild(tokens, s, op, x) = f[1]
<1> DEFINE n == Len(tokens)
           Level(g, j) == IF j = n THEN LeafEdit(s[j], tokens[j], op, x)
                          ELSE Reattach(s[j], tokens[j], ResolvedIndex(s[j], tokens[j]), g[j + 1])
           new == RebuildLevels(tokens, s, op, x)
<1>1. \A j \in 1..n : f[j] = Level(f, j)
  BY DEF IsRebuilt, Rebuilt, Put
<1> HIDE DEF n
<1>2. \E g : g = [j \in 1..n |-> Level(g, j)]
  <2> DEFINE g == [j \in 1..n |-> f[j]]
  <2>1. ASSUME NEW j \in 1..n
        PROVE  g[j] = Level(g, j)
    <3>1. CASE j = n
      BY <1>1, <3>1
    <3>2. CASE j # n
      <4>1. j + 1 \in 1..n
        BY <3>2 DEF n
      <4> QED
        BY <1>1, <3>2, <4>1
    <3> QED
      BY <3>1, <3>2
  <2>2. g = [j \in 1..n |-> Level(g, j)]
    BY <2>1
  <2> QED
    BY <2>2
<1>3. new = [j \in 1..n |-> Level(new, j)]
  BY <1>2 DEF RebuildLevels, n
<1> HIDE DEF new
<1>4. n \in Nat \ {0} /\ n \in 1..n
  BY DEF n
<1>5. f[n] = new[n] /\ \A j \in 1..n : j < n /\ f[j + 1] = new[j + 1] => f[j] = new[j]
  <2>1. \A j \in 1..n : new[j] = Level(new, j)
    BY <1>3
  <2> QED
    BY <1>1, <1>4, <2>1
<1>6. f[1] = new[1]
  BY <1>4, <1>5, DownwardEqual
<1> QED
  BY <1>6 DEF Rebuild, new

\* A property of the last level that each level passes to the one above it holds
\* of all levels.
LEMMA Downwards ==
  ASSUME NEW n \in Nat \ {0}, NEW S, n \in S,
         \A j \in 1..n - 1 : j + 1 \in S => j \in S
  PROVE  1..n \subseteq S
<1> DEFINE T == {k \in 0..n - 1 : n - k \in S}
<1>1. 0 \in T
  BY n - 0 = n
<1>2. ASSUME NEW k \in 0..n - 1, k \in T, k < n - 1
      PROVE  k + 1 \in T
  <2>1. n - (k + 1) \in 1..n - 1 /\ (n - (k + 1)) + 1 = n - k /\ k + 1 \in 0..n - 1
    BY <1>2
  <2> QED BY <1>2, <2>1
<1>3. 0..n - 1 \subseteq T
  <2>1. n - 1 \in Nat
    OBVIOUS
  <2> HIDE DEF T
  <2> QED BY <1>1, <1>2, <2>1, Upwards
<1>4. ASSUME NEW j \in 1..n
      PROVE  j \in S
  <2>1. n - j \in 0..n - 1 /\ n - (n - j) = j
    OBVIOUS
  <2> QED BY <1>3, <2>1
<1> QED BY <1>4

\* The rebuilt levels exist.
LEMMA RebuiltExists ==
  ASSUME NEW tokens, Len(tokens) \in Nat \ {0}, NEW s, NEW op, NEW x
  PROVE  \E f : IsRebuilt(tokens, s, op, x, f)
<1> DEFINE n == Len(tokens)
           From(f, k) == \A j \in k..n : f[j] = Rebuilt(tokens, s, op, x, f, j)
           S == {k \in 1..n : \E f : From(f, k)}
<1>1. n \in S
  <2> DEFINE f == [j \in {n} |-> LeafEdit(s[n], tokens[n], op, x)]
  <2>1. f[n] = Rebuilt(tokens, s, op, x, f, n)
    BY DEF Rebuilt
  <2>2. n \in 1..n /\ \A j \in n..n : j = n
    OBVIOUS
  <2> HIDE DEF f
  <2> QED BY <2>1, <2>2
<1>2. ASSUME NEW k \in 1..n - 1, k + 1 \in S
      PROVE  k \in S
  <2>1. PICK f : From(f, k + 1)
    BY <1>2
  <2> DEFINE g == [j \in k..n |-> IF j = k THEN Put(s[k], tokens[k], f[k + 1]) ELSE f[j]]
  <2>2. ASSUME NEW j \in k..n
        PROVE  g[j] = Rebuilt(tokens, s, op, x, g, j)
    <3>1. CASE j = k
      <4>1. j # n /\ k + 1 \in k..n /\ k + 1 # k
        BY <3>1
      <4>2. g[k + 1] = f[k + 1] /\ g[j] = Put(s[k], tokens[k], f[k + 1])
        BY <3>1, <4>1
      <4> QED BY <3>1, <4>1, <4>2 DEF Rebuilt
    <3>2. CASE j # k
      <4>1. j \in k + 1..n
        BY <3>2
      <4>2. g[j] = f[j] /\ f[j] = Rebuilt(tokens, s, op, x, f, j)
        BY <2>1, <3>2, <4>1
      <4>3. CASE j = n
        BY <4>2, <4>3 DEF Rebuilt
      <4>4. CASE j # n
        <5>1. j + 1 \in k..n /\ j + 1 # k
          BY <4>1, <4>4
        <5>2. g[j + 1] = f[j + 1]
          BY <5>1
        <5> QED BY <4>2, <4>4, <5>2 DEF Rebuilt
      <4> QED BY <4>3, <4>4
    <3> QED BY <3>1, <3>2
  <2>3. From(g, k)
    BY <2>2
  <2>4. k \in 1..n
    OBVIOUS
  <2> HIDE DEF From
  <2> QED BY <2>3, <2>4
<1>3. 1..n \subseteq S
  <2> HIDE DEF S
  <2> QED BY <1>1, <1>2, Downwards
<1>4. \E f : From(f, 1)
  <2>1. 1 \in 1..n
    OBVIOUS
  <2> HIDE DEF From
  <2> QED BY <1>3, <2>1
<1> QED BY <1>4 DEF IsRebuilt

\* A write that succeeds: the levels it accepts and what becomes of them.
IsWrite(tokens, v, x, op, s, r) ==
  IsDescent(tokens, v, op, s, Len(tokens)) /\ IsRebuilt(tokens, s, op, x, r)

\* The rebuilt levels are well formed, and chained as those before the write.
LEMMA RebuiltJson ==
  ASSUME NEW tokens \in Seq(TokenType), tokens # <<>>, NEW v, IsJson(v), NEW op \in WriteOps,
         NEW x, IsJson(x), NEW s, NEW r, IsWrite(tokens, v, x, op, s, r)
  PROVE  /\ \A j \in 1..Len(tokens) : IsJson(s[j]) /\ IsJson(r[j])
         /\ Chain(tokens, s) /\ Chain(tokens, r)
         /\ \A j \in 1..Len(tokens) - 1 : Steps(s[j], tokens[j]) /\ Steps(r[j], tokens[j])
<1> DEFINE n == Len(tokens)
           S == {j \in 1..n : IsJson(r[j])}
<1>1. n \in Nat \ {0} /\ n \in 1..n /\ \A j \in 1..n : tokens[j] \in TokenType
  BY EmptySeq, ElementOfSeq
<1> HIDE DEF n
<1>2. ASSUME NEW j \in 1..n - 1
      PROVE  /\ j \in 1..n /\ j # n /\ j + 1 \in 1..n
             /\ IsJson(s[j]) /\ Steps(s[j], tokens[j]) /\ s[j + 1] = EvalStep(s[j], tokens[j])
             /\ r[j] = Put(s[j], tokens[j], r[j + 1])
  <2>1. j \in 1..n /\ j # n /\ j + 1 \in 1..n
    BY <1>1
  <2> QED BY <2>1 DEF IsWrite, IsDescent, Accepts, IsRebuilt, Rebuilt, n
<1>3. /\ IsJson(s[n]) /\ LeafError(s[n], tokens[n], op) = NoError
      /\ r[n] = LeafEdit(s[n], tokens[n], op, x)
  BY <1>1 DEF IsWrite, IsDescent, Accepts, IsRebuilt, Rebuilt, n
<1>4. n \in S
  BY <1>1, <1>3, LeafEditJson
<1>5. ASSUME NEW j \in 1..n - 1, j + 1 \in S
      PROVE  j \in S
  BY <1>1, <1>2, <1>5, PutSteps
<1>6. 1..n \subseteq S
  <2> HIDE DEF S
  <2> QED BY <1>1, <1>4, <1>5, Downwards
<1>7. ASSUME NEW j \in 1..n
      PROVE  IsJson(s[j]) /\ IsJson(r[j])
  <2>1. j \in 1..n - 1 \/ j = n
    BY <1>1
  <2> QED BY <1>2, <1>3, <1>6, <2>1
<1>8. ASSUME NEW j \in 1..n - 1
      PROVE  Steps(r[j], tokens[j]) /\ r[j + 1] = EvalStep(r[j], tokens[j])
  BY <1>1, <1>2, <1>7, PutSteps
<1> QED BY <1>2, <1>7, <1>8 DEF Chain, n

\* A write that creates no containers.
PlainWrite(tokens, v, x, op) == WritePointer(tokens, v, x, op, FALSE)

\* A write that succeeds has such levels, and its root is the first rebuilt one.
LEMMA WriteLevels ==
  ASSUME NEW tokens \in Seq(TokenType), tokens # <<>>, NEW v, IsJson(v), NEW op, NEW x,
         PlainWrite(tokens, v, x, op).result.ok
  PROVE  \E s, r : /\ IsWrite(tokens, v, NewValue(x), op, s, r)
                   /\ PlainWrite(tokens, v, x, op) =
                        [root |-> r[1],
                         result |-> Success(RemovedValue(s[Len(tokens)], Last(tokens), op))]
<1> DEFINE d == Descent(tokens, v, op, FALSE)
           s == d.value
<1>1. Len(tokens) \in Nat \ {0}
  BY EmptySeq
<1>2. PlainWrite(tokens, v, x, op) = WriteAlong(tokens, v, x, op, d)
  BY DEF WritePointer, PlainWrite
<1> HIDE DEF d
<1>3. d.ok
  <2>1. WriteAlong(tokens, v, x, op, d).result.ok
    BY <1>2
  <2>2. ~d.ok => WriteAlong(tokens, v, x, op, d).result = d
    BY DEF WriteAlong
  <2> QED BY <2>1, <2>2
<1>4. IsDescent(tokens, v, op, s, Len(tokens)) /\ IsSequence(s) /\ Len(s) = Len(tokens)
  BY <1>3, DescentLevels DEF d
<1>5. PICK r : IsRebuilt(tokens, s, op, NewValue(x), r)
  BY <1>1, RebuiltExists
<1>6. Rebuild(tokens, s, op, NewValue(x)) = r[1]
  BY <1>1, <1>5, RebuildIs
<1>7. Last(s) = s[Len(tokens)]
  BY <1>4 DEF Last
<1>8. WriteAlong(tokens, v, x, op, d) =
        [root |-> r[1], result |-> Success(RemovedValue(s[Len(tokens)], Last(tokens), op))]
  BY <1>3, <1>6, <1>7 DEF WriteAlong
<1> QED BY <1>2, <1>4, <1>5, <1>8 DEF IsWrite

\* Conversely, such levels are a write that succeeds.
LEMMA LevelsWrite ==
  ASSUME NEW tokens \in Seq(TokenType), tokens # <<>>, NEW v, IsJson(v), NEW op, NEW x,
         NEW s, NEW r, IsWrite(tokens, v, NewValue(x), op, s, r)
  PROVE  PlainWrite(tokens, v, x, op) =
           [root |-> r[1], result |-> Success(RemovedValue(s[Len(tokens)], Last(tokens), op))]
<1>a. IsDescent(tokens, v, op, s, Len(tokens))
  BY DEF IsWrite
<1>b. /\ Descent(tokens, v, op, FALSE).ok
      /\ Agree(Descent(tokens, v, op, FALSE).value, s, Len(tokens))
  BY <1>a, LevelsDescend
<1> DEFINE d == Descent(tokens, v, op, FALSE)
           t == d.value
           n == Len(tokens)
<1>1. n \in Nat \ {0} /\ n \in 1..n
  BY EmptySeq
<1>2. d.ok /\ \A j \in 1..n : t[j] = s[j]
  BY <1>b DEF Agree
<1>3. IsSequence(t) /\ Len(t) = n
  BY <1>2, DescentLevels
<1>4. PlainWrite(tokens, v, x, op) = WriteAlong(tokens, v, x, op, d)
  BY DEF WritePointer, PlainWrite
<1> HIDE DEF d, n
<1>5. IsRebuilt(tokens, t, op, NewValue(x), r)
  <2> SUFFICES ASSUME NEW j \in 1..n
               PROVE  r[j] = Rebuilt(tokens, t, op, NewValue(x), r, j)
    BY DEF IsRebuilt, n
  <2>1. r[j] = Rebuilt(tokens, s, op, NewValue(x), r, j) /\ t[j] = s[j]
    BY <1>2 DEF IsWrite, IsRebuilt, n
  <2> HIDE DEF t
  <2> QED BY <2>1 DEF Rebuilt
<1>6. Rebuild(tokens, t, op, NewValue(x)) = r[1]
  BY <1>1, <1>5, RebuildIs DEF n
<1>7. Last(t) = s[n]
  BY <1>1, <1>2, <1>3 DEF Last
<1> QED BY <1>2, <1>4, <1>6, <1>7 DEF WriteAlong, n

-----------------------------------------------------------------------------
(* Writes that undo each other. *)

\* The levels of an add, read backwards, are those of the removal that undoes it.
LEMMA AddReversed ==
  ASSUME NEW tokens \in Seq(TokenType), tokens # <<>>, NEW v, IsJson(v), NEW x, IsJson(x),
         NEW s, NEW r, IsWrite(tokens, v, x, "Add", s, r), NEW y,
         LET k == Len(tokens) IN
         /\ ~(IsObject(s[k]) /\ HasMember(s[k], tokens[k].key))
         /\ ~IsAppendToken(tokens[k]) \/ LeafError(r[k], tokens[k], "Remove") = NoError
  PROVE  IsWrite(tokens, r[1], y, "Remove", r, s)
<1> DEFINE k == Len(tokens)
<1>1. k \in Nat \ {0} /\ k \in 1..k /\ \A j \in 1..k : tokens[j] \in TokenType
  BY EmptySeq, ElementOfSeq
<1>2. /\ \A j \in 1..k : IsJson(s[j]) /\ IsJson(r[j])
      /\ Chain(tokens, s) /\ Chain(tokens, r)
      /\ \A j \in 1..k - 1 : Steps(s[j], tokens[j]) /\ Steps(r[j], tokens[j])
  BY RebuiltJson DEF WriteOps
<1>3. LeafError(s[k], tokens[k], "Add") = NoError /\ r[k] = LeafEdit(s[k], tokens[k], "Add", x)
  BY <1>1 DEF IsWrite, IsDescent, Accepts, IsRebuilt, Rebuilt
<1>4. LeafError(r[k], tokens[k], "Remove") = NoError
      /\ LeafEdit(r[k], tokens[k], "Remove", y) = s[k]
  BY <1>1, <1>2, <1>3, AddAtLeaf
<1>5. ASSUME NEW j \in 1..k, j # k
      PROVE  s[j] = Put(r[j], tokens[j], s[j + 1])
  <2>1. j \in 1..k - 1 /\ j + 1 \in 1..k
    BY <1>1, <1>5
  <2>2. r[j] = Put(s[j], tokens[j], r[j + 1])
    BY <1>5 DEF IsWrite, IsRebuilt, Rebuilt
  <2>3. s[j + 1] = EvalStep(s[j], tokens[j])
    BY <1>2, <2>1 DEF Chain
  <2> QED BY <1>1, <1>2, <2>1, <2>2, <2>3, PutSteps
<1>6. IsRebuilt(tokens, r, "Remove", y, s)
  BY <1>4, <1>5 DEF IsRebuilt, Rebuilt
<1>7. \A j \in 1..k : j # k => j \in 1..k - 1
  BY <1>1
<1>8. IsDescent(tokens, r[1], "Remove", r, k)
  BY <1>2, <1>4, <1>7 DEF IsDescent, Accepts, Chain
<1> QED BY <1>6, <1>8 DEF IsWrite

\* The levels of a removal, read backwards, are those of adding the removed value
\* again.
LEMMA RemoveReversed ==
  ASSUME NEW tokens \in Seq(TokenType), tokens # <<>>, NEW v, IsJson(v), NEW y, IsJson(y),
         NEW s, NEW r, IsWrite(tokens, v, y, "Remove", s, r)
  PROVE  LET k == Len(tokens) IN
         /\ Steps(s[k], tokens[k])
         /\ RemovedValue(s[k], tokens[k], "Remove") = EvalStep(s[k], tokens[k])
         /\ IsWrite(tokens, r[1], EvalStep(s[k], tokens[k]), "Add", r, s)
<1> DEFINE k == Len(tokens)
           x == EvalStep(s[k], tokens[k])
<1>1. k \in Nat \ {0} /\ k \in 1..k /\ \A j \in 1..k : tokens[j] \in TokenType
  BY EmptySeq, ElementOfSeq
<1>2. /\ \A j \in 1..k : IsJson(s[j]) /\ IsJson(r[j])
      /\ Chain(tokens, s) /\ Chain(tokens, r)
      /\ \A j \in 1..k - 1 : Steps(s[j], tokens[j]) /\ Steps(r[j], tokens[j])
  BY RebuiltJson DEF WriteOps
<1>3. LeafError(s[k], tokens[k], "Remove") = NoError /\ r[k] = LeafEdit(s[k], tokens[k], "Remove", y)
  BY <1>1 DEF IsWrite, IsDescent, Accepts, IsRebuilt, Rebuilt
<1>4. /\ Steps(s[k], tokens[k]) /\ Child(s[k], tokens[k], tokens[k]) = x
      /\ LeafError(r[k], tokens[k], "Add") = NoError
      /\ LeafEdit(r[k], tokens[k], "Add", x) = s[k]
  BY <1>1, <1>2, <1>3, RemoveAtLeaf
<1>5. ASSUME NEW j \in 1..k, j # k
      PROVE  s[j] = Put(r[j], tokens[j], s[j + 1])
  <2>1. j \in 1..k - 1 /\ j + 1 \in 1..k
    BY <1>1, <1>5
  <2>2. r[j] = Put(s[j], tokens[j], r[j + 1])
    BY <1>5 DEF IsWrite, IsRebuilt, Rebuilt
  <2>3. s[j + 1] = EvalStep(s[j], tokens[j])
    BY <1>2, <2>1 DEF Chain
  <2> QED BY <1>1, <1>2, <2>1, <2>2, <2>3, PutSteps
<1>6. IsRebuilt(tokens, r, "Add", x, s)
  BY <1>4, <1>5 DEF IsRebuilt, Rebuilt
<1>7. \A j \in 1..k : j # k => j \in 1..k - 1
  BY <1>1
<1>8. IsDescent(tokens, r[1], "Add", r, k)
  BY <1>2, <1>4, <1>7 DEF IsDescent, Accepts, Chain
<1>9. RemovedValue(s[k], tokens[k], "Remove") = x
  BY <1>4 DEF RemovedValue
<1> QED BY <1>4, <1>6, <1>8, <1>9 DEF IsWrite

\* A read to the last of a chain of levels that it steps through.
LEMMA EvalChain ==
  ASSUME NEW tokens \in Seq(TokenType), tokens # <<>>, NEW s, Chain(tokens, s),
         \A j \in 1..Len(tokens) - 1 : Steps(s[j], tokens[j])
  PROVE  LET k == Len(tokens) IN
         /\ EvaluatePointer(Front(tokens), s[1]) = Success(s[k])
         /\ Steps(s[k], tokens[k]) =>
              EvaluatePointer(tokens, s[1]) = Success(EvalStep(s[k], tokens[k]))
<1> DEFINE k == Len(tokens)
           x == EvalStep(s[k], tokens[k])
           f == [j \in 1..k + 1 |-> IF j = k + 1 THEN x ELSE s[j]]
           t == Front(tokens)
<1>1. k \in Nat \ {0} /\ k \in 1..k
  BY EmptySeq
<1>2. t \in Seq(TokenType) /\ Len(t) = k - 1 /\ \A j \in 1..k - 1 : t[j] = tokens[j]
  <2>1. \A j \in 1..k - 1 : tokens[j] \in TokenType
    BY <1>1, ElementOfSeq
  <2>2. t = SubSeq(tokens, 1, k - 1) /\ k - 1 \in Int /\ 1 \in Int
    BY <1>1 DEF Front
  <2> HIDE DEF t, k
  <2>3. /\ t \in Seq(TokenType)
        /\ Len(t) = IF 1 <= k - 1 THEN (k - 1) - 1 + 1 ELSE 0
        /\ \A j \in 1..(k - 1) - 1 + 1 : t[j] = tokens[1 + j - 1]
    BY <2>1, <2>2, SubSeqProperties
  <2>4. \A j \in 1..k - 1 : j \in 1..(k - 1) - 1 + 1 /\ 1 + j - 1 = j
    BY <1>1
  <2> QED BY <1>1, <2>3, <2>4
<1>3. ASSUME NEW j \in 1..k - 1
      PROVE  Steps(s[j], tokens[j]) /\ s[j + 1] = EvalStep(s[j], tokens[j])
  BY DEF Chain
<1>4. EvaluatePointer(t, s[1]) = Success(s[k])
  <2>1. \A j \in 1..Len(t) : Steps(s[j], t[j]) /\ s[j + 1] = EvalStep(s[j], t[j])
    BY <1>2, <1>3
  <2>2. Len(t) + 1 = k
    BY <1>1, <1>2
  <2> HIDE DEF t, k
  <2> QED BY <1>2, <2>1, <2>2, EvalAlong
<1>5. ASSUME Steps(s[k], tokens[k])
      PROVE  EvaluatePointer(tokens, s[1]) = Success(x)
  <2>1. f[k + 1] = x /\ f[1] = s[1] /\ \A j \in 1..k : f[j] = s[j]
    BY <1>1
  <2> HIDE DEF f
  <2>2. ASSUME NEW j \in 1..k
        PROVE  Steps(f[j], tokens[j]) /\ f[j + 1] = EvalStep(f[j], tokens[j])
    <3>1. CASE j = k
      BY <1>5, <2>1, <3>1
    <3>2. CASE j # k
      <4>1. j \in 1..k - 1 /\ j + 1 \in 1..k
        BY <1>1, <3>2
      <4> QED BY <1>3, <2>1, <4>1
    <3> QED BY <3>1, <3>2
  <2>3. EvaluatePointer(tokens, f[1]) = Success(f[k + 1])
    BY <2>2, EvalAlong
  <2> QED BY <2>1, <2>3
<1> QED BY <1>4, <1>5

=============================================================================
