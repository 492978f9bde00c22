----------------------------- MODULE LoopLemmas -----------------------------
(***************************************************************************)
(* Facts about the loops of the code, which the models write as recursive  *)
(* functions on 0..N: induction over their turns, that the functions       *)
(* exist, and what a loop over set_field_item leaves in an ftdc_variable.  *)
(* The induction is stated with a set instead of a predicate, so that it   *)
(* can be cited.                                                           *)
(***************************************************************************)
EXTENDS FtdcVariable, WellFoundedInduction, SequenceTheorems, TLAPS

\* A set of naturals that is not empty has a least element.
LEMMA LeastNatural ==
    ASSUME NEW T, T \subseteq Nat, T # {}
    PROVE  \E n \in T : \A m \in T : n <= m
<1> DEFINE R == OpToRel(<, Nat)
<1>1. ASSUME NEW m \in Nat, NEW n \in Nat PROVE <<m, n>> \in R <=> m < n
  BY DEF OpToRel
<1>2. IsWellFoundedOn(R, Nat)
  BY NatLessThanWellFounded
<1> HIDE DEF R
<1>3. PICK n \in T : \A m \in T : ~(<<m, n>> \in R)
  BY <1>2, WFMin
<1>4. ASSUME NEW m \in T PROVE n <= m
  <2>1. m \in Nat /\ n \in Nat
    OBVIOUS
  <2>2. ~(m < n)
    BY <1>1, <1>3, <2>1
  <2> QED BY <2>1, <2>2
<1> QED BY <1>4

\* A set with 0 that has n + 1 with each n below N has all of 0..N.
LEMMA BoundedInduction ==
    ASSUME NEW N \in Nat, NEW T,
           0 \in T,
           \A n \in 0..N : n \in T /\ n < N => n + 1 \in T
    PROVE  \A n \in 0..N : n \in T
<1> SUFFICES ASSUME {n \in 0..N : n \notin T} # {} PROVE FALSE
  OBVIOUS
<1> DEFINE U == {n \in 0..N : n \notin T}
<1>1. PICK n \in U : \A m \in U : n <= m
  <2>1. U \subseteq Nat /\ U # {}
    OBVIOUS
  <2> HIDE DEF U
  <2> QED BY <2>1, LeastNatural
<1>2. n # 0 /\ n - 1 \in 0..N /\ n - 1 \notin U
  BY <1>1
<1> QED BY <1>1, <1>2

\* A loop of N turns over states S: from a, turn n leads from state s to g[n][s].
IsLoop(N, S, a, g) == N \in Nat /\ a \in S /\ g \in [1..N -> [S -> S]]

\* f[n] is the state after n turns.
StatesOf(f, N, S, a, g) ==
    f \in [0..N -> S] /\ f[0] = a /\ \A n \in 1..N : f[n] = g[n][f[n - 1]]

\* Every loop has the function of its states.
LEMMA LoopFunction ==
    ASSUME NEW N, NEW S, NEW a, NEW g, IsLoop(N, S, a, g)
    PROVE  \E f : StatesOf(f, N, S, a, g)
<1>0. N \in Nat /\ a \in S /\ g \in [1..N -> [S -> S]]
  BY DEF IsLoop
<1> USE <1>0
<1> DEFINE Rec(f, m) == f[0] = a /\ \A n \in 1..m : f[n] = g[n][f[n - 1]]
           T == {m \in 0..N : \E f \in [0..m -> S] : Rec(f, m)}
<1>1. 0 \in T
  <2> DEFINE f == [n \in 0..0 |-> a]
  <2>1. f \in [0..0 -> S] /\ Rec(f, 0)
    OBVIOUS
  <2> HIDE DEF f
  <2>2. 0 \in 0..N
    OBVIOUS
  <2> QED BY <2>1, <2>2
<1>2. ASSUME NEW m \in 0..N, m \in T, m < N
      PROVE  m + 1 \in T
  <2>1. PICK f \in [0..m -> S] : Rec(f, m)
    BY <1>2
  <2> DEFINE h == [n \in 0..m + 1 |-> IF n = m + 1 THEN g[n][f[m]] ELSE f[n]]
  <2>2. h \in [0..m + 1 -> S]
    BY <1>2
  <2>3. \A n \in 1..m + 1 : h[n] = g[n][h[n - 1]]
    <3> TAKE n \in 1..m + 1
    <3>1. CASE n = m + 1
      BY <3>1, <1>2
    <3>2. CASE n \in 1..m
      <4>1. f[n] = g[n][f[n - 1]]
        BY <3>2, <2>1
      <4> QED BY <4>1, <3>2
    <3> QED BY <3>1, <3>2
  <2>4. Rec(h, m + 1)
    BY <2>1, <2>3
  <2> HIDE DEF h, Rec
  <2>5. m + 1 \in 0..N
    BY <1>2
  <2> QED BY <2>2, <2>4, <2>5
<1> HIDE DEF T
<1>3. N \in T
  <2>1. \A n \in 0..N : n \in T /\ n < N => n + 1 \in T
    BY <1>2
  <2>2. \A n \in 0..N : n \in T
    BY <1>1, <2>1, BoundedInduction
  <2> QED BY <2>2
<1> QED BY <1>3 DEF T, StatesOf

\* What the first state satisfies and every turn keeps, all states satisfy.
LEMMA LoopInvariant ==
    ASSUME NEW N \in Nat, NEW S, NEW f,
           f[0] \in S,
           \A n \in 1..N : f[n - 1] \in S => f[n] \in S
    PROVE  \A n \in 0..N : f[n] \in S
<1> DEFINE T == {n \in 0..N : f[n] \in S}
<1>1. 0 \in T
  OBVIOUS
<1>2. ASSUME NEW n \in 0..N, n \in T, n < N PROVE n + 1 \in T
  <2>1. n + 1 \in 1..N /\ (n + 1) - 1 = n
    BY <1>2
  <2>2. f[n] \in S
    BY <1>2
  <2>3. f[n + 1] \in S
    BY <2>1, <2>2
  <2> QED BY <2>1, <2>3
<1> HIDE DEF T
<1>3. \A n \in 0..N : n \in T
  BY <1>1, <1>2, BoundedInduction
<1> QED BY <1>3 DEF T

-----------------------------------------------------------------------------
(* ftdc_variable.                                                          *)

\* A function on 1..n is a sequence of length n.
LEMMA FunctionIsSequence ==
    ASSUME NEW n \in Nat, NEW f, NEW S, f \in [1..n -> S]
    PROVE  f \in Seq(S) /\ Len(f) = n
<1>1. f \in Seq(S)
  BY IsASeq
<1> QED BY <1>1, LenProperties

\* The occurrences of a field are a sequence.
LEMMA OccurrencesSeq ==
    ASSUME NEW val, IsVariable(val), NEW g
    PROVE  \E S : Occurrences(val, g) \in Seq(S)
<1>1. CASE g \in DOMAIN val
  BY <1>1 DEF IsVariable, IsVector, Occurrences
<1>2. CASE g \notin DOMAIN val
  <2>1. Occurrences(val, g) = <<>>
    BY <1>2 DEF Occurrences
  <2>2. <<>> \in Seq({})
    BY EmptySeq
  <2> QED BY <2>1, <2>2
<1> QED BY <1>1, <1>2

\* A number of occurrences is a number.
LEMMA FieldCount ==
    ASSUME NEW val, IsVariable(val), NEW g
    PROVE  field_count(val, g) \in Nat
<1>1. PICK S : Occurrences(val, g) \in Seq(S)
  BY OccurrencesSeq
<1> QED BY <1>1, LenProperties DEF field_count

\* The vector is extended as far as it has to be.
LEMMA ExtendedVector ==
    ASSUME NEW S, NEW fv \in Seq(S), NEW idx \in Nat
    PROVE  LET size == IF idx < Len(fv) THEN Len(fv) ELSE idx + 1 IN
           /\ size \in Nat /\ idx + 1 \in 1..size
           /\ DOMAIN Extended(fv, idx) = 1..size
           /\ Extended(fv, idx) = [j \in 1..size |-> IF j <= Len(fv) THEN fv[j] ELSE Empty]
<1> DEFINE more == [j \in 1..(idx + 1) - Len(fv) |-> Empty]
           resized == fv \o more
           size == IF idx < Len(fv) THEN Len(fv) ELSE idx + 1
           U == S \cup {Empty}
<1>1. Len(fv) \in Nat /\ fv \in Seq(U)
  BY LenProperties, SeqMonotonic
<1>2. more \in Seq(U) /\ Len(more) = IF idx < Len(fv) THEN 0 ELSE (idx + 1) - Len(fv)
  <2>1. CASE idx < Len(fv)
    <3>1. more = <<>>
      BY <2>1, <1>1
    <3> QED BY <3>1, <2>1, EmptySeq
  <2>2. CASE ~(idx < Len(fv))
    <3> DEFINE k == (idx + 1) - Len(fv)
    <3>1. k \in Nat
      BY <2>2, <1>1
    <3> HIDE DEF k
    <3>2. [j \in 1..k |-> Empty] \in [1..k -> U]
      OBVIOUS
    <3>3. [j \in 1..k |-> Empty] \in Seq(U) /\ Len([j \in 1..k |-> Empty]) = k
      BY <3>1, <3>2, FunctionIsSequence
    <3> QED BY <3>3, <2>2 DEF k
  <2> QED BY <2>1, <2>2
<1>3. ASSUME NEW j \in 1..Len(more) PROVE more[j] = Empty
  <2>1. j \in 1..(idx + 1) - Len(fv)
    <3> HIDE DEF more
    <3>1. CASE idx < Len(fv)
      BY <1>1, <1>2, <3>1
    <3>2. CASE ~(idx < Len(fv))
      BY <1>1, <1>2, <3>2
    <3> QED BY <3>1, <3>2
  <2> QED BY <2>1
<1>0. Extended(fv, idx) = resized
  BY DEF Extended
<1> HIDE DEF more
<1>4. /\ resized \in Seq(U) /\ Len(resized) = Len(fv) + Len(more)
      /\ \A j \in 1..Len(fv) + Len(more) :
            resized[j] = IF j <= Len(fv) THEN fv[j] ELSE more[j - Len(fv)]
  BY <1>1, <1>2, ConcatProperties
<1> HIDE DEF resized
<1>5. Len(resized) = size /\ size \in Nat /\ idx + 1 \in 1..size
  BY <1>1, <1>2, <1>4
<1>6. \A j \in 1..size : resized[j] = IF j <= Len(fv) THEN fv[j] ELSE Empty
  BY <1>1, <1>2, <1>3, <1>4
<1>7. DOMAIN resized = 1..size /\ resized = [j \in 1..size |-> resized[j]]
  BY <1>4, <1>5, LenProperties
<1> QED BY <1>0, <1>5, <1>6, <1>7

\* The map that was at j, counting from 1.
OldAt(fv, j) == IF j <= Len(fv) THEN fv[j] ELSE Empty

Written(fv, idx, item, v) == [Extended(fv, idx) EXCEPT ![idx + 1] = Put(@, item, v)]

\* The vector that set_field_item leaves: the item is in the map at idx.
LEMMA ExtendedVectorSet ==
    ASSUME NEW S, NEW fv \in Seq(S), NEW idx \in Nat, NEW item, NEW v,
           NEW out, out = Written(fv, idx, item, v)
    PROVE  /\ Len(out) = IF idx < Len(fv) THEN Len(fv) ELSE idx + 1
           /\ IsVector(out)
           /\ \A j \in 1..Len(out) :
                 out[j] = IF j = idx + 1 THEN Put(OldAt(fv, j), item, v) ELSE OldAt(fv, j)
<1> DEFINE size == IF idx < Len(fv) THEN Len(fv) ELSE idx + 1
<1>1. /\ size \in Nat /\ idx + 1 \in 1..size
      /\ DOMAIN Extended(fv, idx) = 1..size
      /\ Extended(fv, idx) = [j \in 1..size |-> IF j <= Len(fv) THEN fv[j] ELSE Empty]
  BY ExtendedVector
<1> HIDE DEF size
<1>2. /\ DOMAIN out = 1..size /\ out = [j \in 1..size |-> out[j]]
      /\ \A j \in 1..size : out[j] = IF j = idx + 1 THEN Put(Extended(fv, idx)[j], item, v)
                                     ELSE Extended(fv, idx)[j]
  BY <1>1 DEF Written
<1>3. out \in [1..size -> {out[j] : j \in DOMAIN out}]
  BY <1>2
<1>4. out \in Seq({out[j] : j \in DOMAIN out}) /\ Len(out) = size
  BY <1>1, <1>3, FunctionIsSequence
<1>5. \A j \in 1..size : Extended(fv, idx)[j] = OldAt(fv, j)
  BY <1>1 DEF OldAt
<1> QED BY <1>2, <1>4, <1>5 DEF size, IsVector

\* w is val with one item set, in the terms of the lookups.
HasSet(w, val, fid, idx, item, v) ==
    /\ IsVariable(w)
    /\ \A g : field_count(w, g) = IF g = fid /\ idx >= field_count(val, g)
                                  THEN idx + 1 ELSE field_count(val, g)
    /\ \A g : \A j \in Nat : \A i :
          HasItem(w, g, j, i) <=> HasItem(val, g, j, i) \/ (g = fid /\ j = idx /\ i = item)
    /\ \A g : \A j \in Nat : \A i :
          HasItem(w, g, j, i) =>
             get_field_item(w, g, j, i) = IF g = fid /\ j = idx /\ i = item
                                          THEN v ELSE get_field_item(val, g, j, i)

\* What one call of set_field_item does.
LEMMA SetFieldItem ==
    ASSUME NEW val, IsVariable(val), NEW fid, NEW idx \in Nat, NEW item, NEW v,
           NEW w, w = set_field_item(val, fid, idx, item, v)
    PROVE  HasSet(w, val, fid, idx, item, v)
<1> DEFINE fv == Occurrences(val, fid)
           out == Written(fv, idx, item, v)
<1>1. PICK S : fv \in Seq(S)
  BY OccurrencesSeq
<1>2. Len(fv) \in Nat
  BY <1>1, LenProperties
<1>3. /\ Len(out) = IF idx < Len(fv) THEN Len(fv) ELSE idx + 1
      /\ IsVector(out)
      /\ \A j \in 1..Len(out) :
            out[j] = IF j = idx + 1 THEN Put(OldAt(fv, j), item, v) ELSE OldAt(fv, j)
  <2> HIDE DEF fv
  <2> QED BY <1>1, ExtendedVectorSet
<1>4. w = Put(val, fid, out)
  BY Zenon DEF set_field_item, Written
<1> HIDE DEF out, fv
<1>5. /\ DOMAIN w = DOMAIN val \cup {fid} /\ w[fid] = out
      /\ \A g \in DOMAIN val : g # fid => w[g] = val[g]
  BY <1>4 DEF Put
<1>6. IsVariable(w)
  <2> SUFFICES ASSUME NEW g \in DOMAIN w PROVE IsVector(w[g])
    BY DEF IsVariable
  <2>1. CASE g = fid
    BY <2>1, <1>3, <1>5
  <2>2. CASE g # fid
    BY <2>2, <1>5 DEF IsVariable
  <2> QED BY <2>1, <2>2
<1>7. ASSUME NEW g, g # fid PROVE Occurrences(w, g) = Occurrences(val, g)
  BY <1>5, <1>7 DEF Occurrences
<1>8. Occurrences(w, fid) = out
  BY <1>5 DEF Occurrences
<1>9. ASSUME NEW g
      PROVE  field_count(w, g) = IF g = fid /\ idx >= field_count(val, g)
                                 THEN idx + 1 ELSE field_count(val, g)
  <2>1. CASE g = fid
    BY <2>1, <1>8, <1>3, <1>2 DEF field_count, fv
  <2>2. CASE g # fid
    BY <2>2, <1>7 DEF field_count
  <2> QED BY <2>1, <2>2
<1>10. ASSUME NEW g, NEW j \in Nat, NEW i, g # fid
       PROVE  /\ HasItem(w, g, j, i) <=> HasItem(val, g, j, i)
              /\ HasItem(w, g, j, i) => get_field_item(w, g, j, i) = get_field_item(val, g, j, i)
  <2>1. field_count(w, g) = field_count(val, g)
    BY <1>7, <1>10 DEF field_count
  <2>2. CASE g \in DOMAIN val
    <3>1. w[g] = val[g]
      BY <2>2, <1>5, <1>10
    <3> QED BY <3>1, <2>1 DEF HasItem, get_field_item
  <2>3. CASE g \notin DOMAIN val
    <3>1. field_count(val, g) = 0
      BY <2>3, EmptySeq DEF field_count, Occurrences
    <3> QED BY <3>1, <2>1 DEF HasItem
  <2> QED BY <2>2, <2>3
<1>11. ASSUME NEW j \in Nat, NEW i
       PROVE  /\ HasItem(w, fid, j, i) <=> HasItem(val, fid, j, i) \/ (j = idx /\ i = item)
              /\ HasItem(w, fid, j, i) =>
                    get_field_item(w, fid, j, i) = IF j = idx /\ i = item
                                                   THEN v ELSE get_field_item(val, fid, j, i)
  <2> DEFINE old == OldAt(fv, j + 1)
  <2>1. HasItem(w, fid, j, i) <=> j < Len(out) /\ i \in DOMAIN out[j + 1]
    BY <1>5, <1>8 DEF HasItem, field_count
  <2>2. HasItem(val, fid, j, i) <=> j < Len(fv) /\ i \in DOMAIN fv[j + 1]
    <3>1. CASE fid \in DOMAIN val
      BY <3>1 DEF HasItem, field_count, fv, Occurrences
    <3>2. CASE fid \notin DOMAIN val
      <4>1. Len(fv) = 0
        BY <3>2, EmptySeq DEF fv, Occurrences
      <4> QED BY <4>1 DEF HasItem, field_count, fv
    <3> QED BY <3>1, <3>2
  <2>3. HasItem(val, fid, j, i) => get_field_item(val, fid, j, i) = fv[j + 1][i]
    <3>1. CASE fid \in DOMAIN val
      BY <3>1 DEF get_field_item, fv, Occurrences
    <3>2. CASE fid \notin DOMAIN val
      <4>1. Len(fv) = 0
        BY <3>2, EmptySeq DEF fv, Occurrences
      <4> QED BY <4>1, <2>2
    <3> QED BY <3>1, <3>2
  <2>4. HasItem(val, fid, j, i) <=> i \in DOMAIN old
    <3>1. j < Len(fv) <=> j + 1 <= Len(fv)
      BY <1>2
    <3>2. DOMAIN Empty = {}
      BY DEF Empty
    <3> QED BY <2>2, <3>1, <3>2 DEF OldAt
  <2>5. CASE j < Len(out)
    <3>1. j + 1 \in 1..Len(out)
      BY <2>5, <1>3, <1>2
    <3>2. out[j + 1] = IF j = idx THEN Put(old, item, v) ELSE old
      BY <3>1, <1>3
    <3>3. HasItem(val, fid, j, i) => old = fv[j + 1]
      BY <2>2, <1>2 DEF OldAt
    <3>4. get_field_item(w, fid, j, i) = out[j + 1][i]
      BY <1>5 DEF get_field_item
    <3> HIDE DEF old
    <3>5. CASE j = idx
      <4>1. DOMAIN out[j + 1] = DOMAIN old \cup {item}
        BY <3>2, <3>5 DEF Put
      <4>2. ASSUME i \in DOMAIN old \cup {item} PROVE out[j + 1][i] = IF i = item THEN v ELSE old[i]
        BY <3>2, <3>5, <4>2 DEF Put
      <4> QED BY <4>1, <4>2, <3>3, <3>4, <3>5, <2>1, <2>3, <2>4, <2>5
    <3>6. CASE j # idx
      <4>1. out[j + 1] = old
        BY <3>2, <3>6
      <4> QED BY <4>1, <3>3, <3>4, <3>6, <2>1, <2>3, <2>4, <2>5
    <3> QED BY <3>5, <3>6
  <2>6. CASE ~(j < Len(out))
    <3>1. ~(j < Len(fv)) /\ j # idx
      BY <2>6, <1>2, <1>3
    <3> QED BY <3>1, <2>1, <2>2, <2>6
  <2> QED BY <2>5, <2>6
<1>12. ASSUME NEW g, NEW j \in Nat, NEW i
       PROVE  /\ HasItem(w, g, j, i) <=> HasItem(val, g, j, i) \/ (g = fid /\ j = idx /\ i = item)
              /\ HasItem(w, g, j, i) =>
                    get_field_item(w, g, j, i) = IF g = fid /\ j = idx /\ i = item
                                                 THEN v ELSE get_field_item(val, g, j, i)
  <2>1. CASE g = fid
    BY <2>1, <1>11
  <2>2. CASE g # fid
    BY <2>2, <1>10
  <2> QED BY <2>1, <2>2
<1> QED BY <1>6, <1>9, <1>12 DEF HasSet

\* A loop of N turns over set_field_item, whose n-th call is writes[n]: f[n] is
\* the variable after n of them.
AreWrites(writes, N) == N \in Nat /\ \A n \in 1..N : writes[n].idx \in Nat

SetOne(val, write) == set_field_item(val, write.fid, write.idx, write.item, write.value)

Sets(f, N, val, writes) ==
    /\ f = [n \in 0..N |-> f[n]]
    /\ f[0] = val /\ \A n \in 1..N : f[n] = SetOne(f[n - 1], writes[n])

\* Such a loop has its function.
LEMMA SetsExists ==
    ASSUME NEW N \in Nat, NEW val, NEW writes
    PROVE  \E f : Sets(f, N, val, writes)
<1> DEFINE T == {m \in 0..N : \E f : Sets(f, m, val, writes)}
<1>1. 0 \in T
  <2> DEFINE f == [n \in 0..0 |-> val]
  <2>1. Sets(f, 0, val, writes)
    BY DEF Sets
  <2> HIDE DEF f
  <2> QED BY <2>1
<1>2. ASSUME NEW m \in 0..N, m \in T, m < N
      PROVE  m + 1 \in T
  <2>1. PICK f : Sets(f, m, val, writes)
    BY <1>2
  <2> DEFINE h == [n \in 0..m + 1 |-> IF n = m + 1 THEN SetOne(f[m], writes[m + 1]) ELSE f[n]]
  <2>2. \A n \in 1..m + 1 : h[n] = SetOne(h[n - 1], writes[n])
    <3> TAKE n \in 1..m + 1
    <3>1. CASE n = m + 1
      BY <3>1, <1>2
    <3>2. CASE n \in 1..m
      <4>1. f[n] = SetOne(f[n - 1], writes[n])
        BY <3>2, <2>1 DEF Sets
      <4> QED BY <4>1, <3>2
    <3> QED BY <3>1, <3>2
  <2>3. h[0] = val
    BY <2>1, <1>2 DEF Sets
  <2>4. h = [n \in 0..m + 1 |-> h[n]]
    OBVIOUS
  <2> HIDE DEF h
  <2>5. Sets(h, m + 1, val, writes)
    BY <2>2, <2>3, <2>4 DEF Sets
  <2>6. m + 1 \in 0..N
    BY <1>2
  <2> QED BY <2>5, <2>6
<1> HIDE DEF T
<1>3. \A n \in 0..N : n \in T
  <2>1. \A n \in 0..N : n \in T /\ n < N => n + 1 \in T
    BY <1>2
  <2> QED BY <1>1, <2>1, BoundedInduction
<1>4. N \in T
  BY <1>3
<1> QED BY <1>4 DEF T

Targets(write, g, j, i) == write.fid = g /\ write.idx = j /\ write.item = i

\* What the variable w has after n writes to val: the items written and those it
\* had, each with the value of a write to it or else its own, and fields that
\* are no longer than that.
SetBy(w, val, writes, n) ==
    /\ IsVariable(w)
    /\ \A g : \A j \in Nat : \A i :
          HasItem(w, g, j, i) <=>
             HasItem(val, g, j, i) \/ \E k \in 1..n : Targets(writes[k], g, j, i)
    /\ \A g : \A j \in Nat : \A i : HasItem(w, g, j, i) =>
          \/ \E k \in 1..n : Targets(writes[k], g, j, i) /\ get_field_item(w, g, j, i) = writes[k].value
          \/ /\ \A k \in 1..n : ~Targets(writes[k], g, j, i)
             /\ get_field_item(w, g, j, i) = get_field_item(val, g, j, i)
    /\ \A g : /\ field_count(w, g) >= field_count(val, g)
              /\ \A k \in 1..n : writes[k].fid = g => field_count(w, g) > writes[k].idx
              /\ \/ field_count(w, g) = field_count(val, g)
                 \/ \E k \in 1..n : writes[k].fid = g /\ field_count(w, g) = writes[k].idx + 1

\* No call changes nothing ...
LEMMA SetByNone ==
    ASSUME NEW val, IsVariable(val), NEW writes
    PROVE  SetBy(val, val, writes, 0)
<1>1. \A g : field_count(val, g) \in Nat
  BY FieldCount
<1> QED BY <1>1 DEF SetBy

\* ... and after n calls, one more is the (n + 1)-st of them.
LEMMA SetByOne ==
    ASSUME NEW val, IsVariable(val), NEW n \in Nat, NEW writes, AreWrites(writes, n + 1),
           NEW w, SetBy(w, val, writes, n),
           NEW x, x = SetOne(w, writes[n + 1])
    PROVE  SetBy(x, val, writes, n + 1)
<1> DEFINE wr == writes[n + 1]
<1>0. n + 1 \in 1..n + 1 /\ 1..n \subseteq 1..n + 1 /\ \A k \in 1..n + 1 : k = n + 1 \/ k \in 1..n
  OBVIOUS
<1>1. wr.idx \in Nat /\ \A k \in 1..n : writes[k].idx \in Nat
  BY <1>0 DEF AreWrites
<1>2. IsVariable(w)
  BY DEF SetBy
<1> HIDE DEF wr
<1>3. /\ IsVariable(x)
      /\ \A g : field_count(x, g) = IF g = wr.fid /\ wr.idx >= field_count(w, g)
                                    THEN wr.idx + 1 ELSE field_count(w, g)
      /\ \A g : \A j \in Nat : \A i :
            HasItem(x, g, j, i) <=> HasItem(w, g, j, i) \/ (g = wr.fid /\ j = wr.idx /\ i = wr.item)
      /\ \A g : \A j \in Nat : \A i :
            HasItem(x, g, j, i) =>
               get_field_item(x, g, j, i) = IF g = wr.fid /\ j = wr.idx /\ i = wr.item
                                            THEN wr.value ELSE get_field_item(w, g, j, i)
  <2>1. x = set_field_item(w, wr.fid, wr.idx, wr.item, wr.value)
    BY DEF SetOne, wr
  <2>2. HasSet(x, w, wr.fid, wr.idx, wr.item, wr.value)
    BY <1>1, <1>2, <2>1, SetFieldItem
  <2> QED BY <2>2 DEF HasSet
<1>4. ASSUME NEW g, NEW j \in Nat, NEW i
      PROVE  /\ HasItem(x, g, j, i) <=>
                   HasItem(val, g, j, i) \/ \E k \in 1..n + 1 : Targets(writes[k], g, j, i)
             /\ HasItem(x, g, j, i) =>
                  \/ \E k \in 1..n + 1 : Targets(writes[k], g, j, i) /\ get_field_item(x, g, j, i) = writes[k].value
                  \/ /\ \A k \in 1..n + 1 : ~Targets(writes[k], g, j, i)
                     /\ get_field_item(x, g, j, i) = get_field_item(val, g, j, i)
  <2>1. /\ HasItem(w, g, j, i) <=> HasItem(val, g, j, i) \/ \E k \in 1..n : Targets(writes[k], g, j, i)
        /\ HasItem(w, g, j, i) =>
             \/ \E k \in 1..n : Targets(writes[k], g, j, i) /\ get_field_item(w, g, j, i) = writes[k].value
             \/ /\ \A k \in 1..n : ~Targets(writes[k], g, j, i)
                /\ get_field_item(w, g, j, i) = get_field_item(val, g, j, i)
    BY DEF SetBy
  <2>2. Targets(writes[n + 1], g, j, i) <=> g = wr.fid /\ j = wr.idx /\ i = wr.item
    BY DEF Targets, wr
  <2>3. CASE Targets(writes[n + 1], g, j, i)
    <3>1. HasItem(x, g, j, i) /\ get_field_item(x, g, j, i) = wr.value
      BY <2>2, <2>3, <1>3
    <3> QED BY <3>1, <2>3, <1>0 DEF wr
  <2>4. CASE ~Targets(writes[n + 1], g, j, i)
    <3>1. /\ HasItem(x, g, j, i) <=> HasItem(w, g, j, i)
          /\ HasItem(x, g, j, i) => get_field_item(x, g, j, i) = get_field_item(w, g, j, i)
      BY <2>2, <2>4, <1>3
    <3>2. \A k \in 1..n + 1 : Targets(writes[k], g, j, i) => k \in 1..n
      BY <1>0, <2>4
    <3> QED BY <3>1, <3>2, <2>1, <1>0
  <2> QED BY <2>3, <2>4
<1>5. ASSUME NEW g
      PROVE  /\ field_count(x, g) >= field_count(val, g)
             /\ \A k \in 1..n + 1 : writes[k].fid = g => field_count(x, g) > writes[k].idx
             /\ \/ field_count(x, g) = field_count(val, g)
                \/ \E k \in 1..n + 1 : writes[k].fid = g /\ field_count(x, g) = writes[k].idx + 1
  <2>1. field_count(x, g) \in Nat /\ field_count(w, g) \in Nat /\ field_count(val, g) \in Nat
    BY <1>2, <1>3, FieldCount
  <2>2. /\ field_count(w, g) >= field_count(val, g)
        /\ \A k \in 1..n : writes[k].fid = g => field_count(w, g) > writes[k].idx
        /\ \/ field_count(w, g) = field_count(val, g)
           \/ \E k \in 1..n : writes[k].fid = g /\ field_count(w, g) = writes[k].idx + 1
    BY DEF SetBy
  <2>3. field_count(x, g) = IF g = wr.fid /\ wr.idx >= field_count(w, g)
                            THEN wr.idx + 1 ELSE field_count(w, g)
    BY <1>3
  <2>4. field_count(x, g) >= field_count(w, g)
    BY <2>1, <2>3, <1>1
  <2>5. field_count(x, g) >= field_count(val, g)
    BY <2>1, <2>2, <2>4
  <2>6. ASSUME NEW k \in 1..n + 1, writes[k].fid = g
        PROVE  field_count(x, g) > writes[k].idx
    <3>1. CASE k = n + 1
      BY <3>1, <2>1, <2>3, <2>6, <1>1 DEF wr
    <3>2. CASE k \in 1..n
      BY <3>2, <2>1, <2>2, <2>4, <2>6, <1>1
    <3> QED BY <3>1, <3>2, <1>0
  <2>7. CASE g = wr.fid /\ wr.idx >= field_count(w, g)
    BY <2>5, <2>6, <2>7, <2>3, <1>0 DEF wr
  <2>8. CASE ~(g = wr.fid /\ wr.idx >= field_count(w, g))
    BY <2>5, <2>6, <2>8, <2>2, <2>3, <1>0
  <2> QED BY <2>7, <2>8
<1> QED BY <1>3, <1>4, <1>5 DEF SetBy

\* The loop's last variable.
LEMMA SetsFacts ==
    ASSUME NEW N, NEW val, IsVariable(val), NEW writes, AreWrites(writes, N),
           NEW f, Sets(f, N, val, writes)
    PROVE  SetBy(f[N], val, writes, N)
<1> DEFINE T == {n \in 0..N : SetBy(f[n], val, writes, n)}
<1>0. N \in Nat
  BY DEF AreWrites
<1>1. 0 \in T
  BY <1>0, SetByNone DEF Sets
<1>2. ASSUME NEW n \in 0..N, n \in T, n < N PROVE n + 1 \in T
  <2>1. n + 1 \in 1..N /\ (n + 1) - 1 = n /\ n \in Nat /\ n + 1 \in 0..N
    BY <1>0, <1>2
  <2>2. f[n + 1] = SetOne(f[n], writes[n + 1])
    BY <2>1 DEF Sets
  <2>3. AreWrites(writes, n + 1)
    BY <2>1, <1>0 DEF AreWrites
  <2>4. SetBy(f[n], val, writes, n)
    BY <1>2
  <2>5. SetBy(f[n + 1], val, writes, n + 1)
    BY <2>1, <2>2, <2>3, <2>4, SetByOne
  <2> QED BY <2>1, <2>5
<1> HIDE DEF T
<1>3. \A n \in 0..N : n \in T
  BY <1>0, <1>1, <1>2, BoundedInduction
<1>4. N \in T
  BY <1>0, <1>3
<1> QED BY <1>4 DEF T
=============================================================================
