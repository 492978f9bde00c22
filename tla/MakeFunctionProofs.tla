------------------------- MODULE MakeFunctionProofs -------------------------
(***************************************************************************)
(* Proofs about MakeFunction: what a finished run leaves is its document,  *)
(* tid by tid and item by item, whatever was in the file; and what can be  *)
(* opened while a run is under way, or after it broke off, is part of one  *)
(* document (Dictionary).                                                  *)
(***************************************************************************)
EXTENDS MakeFunction, LoopLemmas, FiniteSetTheorems

-----------------------------------------------------------------------------
(* Lists.                                                                  *)

\* A list has a length and is a function on 1..Len.
LEMMA ListFacts ==
    ASSUME NEW s, IsList(s)
    PROVE  /\ Len(s) \in Nat /\ DOMAIN s = 1..Len(s)
           /\ s = [k \in 1..Len(s) |-> s[k]]
BY LenProperties DEF IsList

\* A function on 1..n is a list.
LEMMA ListOf ==
    ASSUME NEW n \in Nat, NEW s, s = [k \in 1..n |-> s[k]]
    PROVE  IsList(s) /\ Len(s) = n /\ DOMAIN s = 1..n
<1> DEFINE S == {s[k] : k \in DOMAIN s}
<1>1. DOMAIN s = 1..n
  OBVIOUS
<1>2. s \in [1..n -> S]
  BY <1>1
<1> HIDE DEF S
<1>3. s \in Seq(S) /\ Len(s) = n
  BY <1>2, FunctionIsSequence
<1> QED BY <1>1, <1>3 DEF S, IsList

\* The list c is t behind s.
IsJoined(c, s, t) ==
    /\ IsList(c) /\ Len(c) = Len(s) + Len(t)
    /\ \A k \in 1..Len(s) : c[k] = s[k]
    /\ \A k \in 1..Len(t) : c[Len(s) + k] = t[k]

\* One list behind the other.
LEMMA ListConcat ==
    ASSUME NEW s, NEW t, IsList(s), IsList(t), NEW c, c = s \o t
    PROVE  IsJoined(c, s, t)
<1> DEFINE S == {s[k] : k \in DOMAIN s} \cup {t[k] : k \in DOMAIN t}
<1>1. s \in Seq(S) /\ t \in Seq(S)
  <2>1. s \in Seq({s[k] : k \in DOMAIN s}) /\ t \in Seq({t[k] : k \in DOMAIN t})
    BY DEF IsList
  <2>2. {s[k] : k \in DOMAIN s} \subseteq S /\ {t[k] : k \in DOMAIN t} \subseteq S
    OBVIOUS
  <2> HIDE DEF S
  <2> QED BY <2>1, <2>2, SeqMonotonic
<1> HIDE DEF S
<1>2. /\ c \in Seq(S) /\ Len(c) = Len(s) + Len(t)
      /\ \A k \in 1..Len(s) + Len(t) : c[k] = IF k <= Len(s) THEN s[k] ELSE t[k - Len(s)]
  BY <1>1, ConcatProperties
<1>3. Len(s) \in Nat /\ Len(t) \in Nat
  BY <1>1, LenProperties
<1>4. IsList(c)
  <2>1. Len(c) \in Nat /\ c = [k \in 1..Len(c) |-> c[k]]
    BY <1>2, LenProperties
  <2> QED BY <2>1, ListOf
<1>5. \A k \in 1..Len(t) : c[Len(s) + k] = t[k]
  <2> TAKE k \in 1..Len(t)
  <2>1. Len(s) + k \in 1..Len(s) + Len(t) /\ ~(Len(s) + k <= Len(s)) /\ (Len(s) + k) - Len(s) = k
    BY <1>3
  <2> QED BY <1>2, <2>1
<1> QED BY <1>2, <1>3, <1>4, <1>5 DEF IsJoined

\* One element behind a list.
LEMMA ListAppend ==
    ASSUME NEW s, NEW x, IsList(s)
    PROVE  /\ IsList(Append(s, x)) /\ Len(Append(s, x)) = Len(s) + 1
           /\ \A k \in 1..Len(s) : Append(s, x)[k] = s[k]
           /\ Append(s, x)[Len(s) + 1] = x
<1> DEFINE S == {s[k] : k \in DOMAIN s} \cup {x}
<1>1. s \in Seq(S) /\ x \in S
  <2>1. s \in Seq({s[k] : k \in DOMAIN s})
    BY DEF IsList
  <2>2. {s[k] : k \in DOMAIN s} \subseteq S /\ x \in S
    OBVIOUS
  <2> HIDE DEF S
  <2> QED BY <2>1, <2>2, SeqMonotonic
<1> HIDE DEF S
<1>2. /\ Append(s, x) \in Seq(S) /\ Len(Append(s, x)) = Len(s) + 1
      /\ \A k \in 1..Len(s) : Append(s, x)[k] = s[k]
      /\ Append(s, x)[Len(s) + 1] = x
  BY <1>1, AppendProperties
<1>3. IsList(Append(s, x))
  <2>1. Len(Append(s, x)) \in Nat /\ Append(s, x) = [k \in 1..Len(Append(s, x)) |-> Append(s, x)[k]]
    BY <1>2, LenProperties
  <2> QED BY <2>1, ListOf
<1> QED BY <1>2, <1>3

-----------------------------------------------------------------------------
(* The statements of a run.                                                *)

SectionNames == {"in_item", "out_item", "result_item"}

TidInsert(node) == [do |-> "insert", table |-> "tid_sp", row |-> <<node.name, node.sp>>]

ItemInsert(node, t, n) == [do |-> "insert", table |-> t, row |-> <<node.name, n, node.items[t][n]>>]

\* The statement s is one for an item of section t.
IsItemInsert(s, node, t) ==
    t \in DOMAIN node.items /\ \E n \in 1..Len(node.items[t]) : s = ItemInsert(node, t, n)

\* The statements p of section t: its items in order, or an exception.
IsPart(p, node, t) ==
    /\ IsList(p)
    /\ \A j \in 1..Len(p) : p[j] = Throws \/ IsItemInsert(p[j], node, t)
    /\ (\A j \in 1..Len(p) : p[j] # Throws) =>
          t \in DOMAIN node.items /\ \A n \in 1..Len(node.items[t]) : \E j \in 1..Len(p) : p[j] = ItemInsert(node, t, n)

\* A section gives such statements.
LEMMA PartFacts ==
    ASSUME NEW node, NEW t,
           t \in DOMAIN node.items => IsList(node.items[t]),
           NEW p, p = IF t \in DOMAIN node.items THEN ItemInserts(node, t) ELSE <<Throws>>
    PROVE  IsPart(p, node, t)
<1>1. CASE t \in DOMAIN node.items
  <2> DEFINE N == Len(node.items[t])
  <2>1. N \in Nat
    BY <1>1, ListFacts
  <2>2. p = [n \in 1..N |-> ItemInsert(node, t, n)]
    BY <1>1 DEF ItemInserts, ItemInsert
  <2>3. p = [n \in 1..N |-> p[n]] /\ \A n \in 1..N : p[n] = ItemInsert(node, t, n)
    BY <2>2
  <2>4. IsList(p) /\ Len(p) = N
    <3> HIDE DEF N
    <3> QED BY <2>1, <2>3, ListOf
  <2> QED BY <1>1, <2>3, <2>4 DEF IsPart, IsItemInsert
<1>2. CASE t \notin DOMAIN node.items
  <2>1. p = <<Throws>> /\ Len(p) = 1 /\ p[1] = Throws
    BY <1>2
  <2>2. p = [k \in 1..1 |-> p[k]]
    BY <2>1
  <2>3. IsList(p)
    BY <2>2, ListOf
  <2> QED BY <2>1, <2>3, <1>2 DEF IsPart
<1> QED BY <1>1, <1>2

\* The statements q of a node: first its tid, then its items.
IsNode(q, node) ==
    /\ IsList(q) /\ 1 \in 1..Len(q)
    /\ q[1] = Throws \/ q[1] = TidInsert(node)
    /\ \A j \in 1..Len(q) : j # 1 => q[j] = Throws \/ \E t \in SectionNames : IsItemInsert(q[j], node, t)
    /\ (\A j \in 1..Len(q) : q[j] # Throws) =>
          \A t \in SectionNames :
              t \in DOMAIN node.items /\ \A n \in 1..Len(node.items[t]) : \E j \in 1..Len(q) : q[j] = ItemInsert(node, t, n)

\* So does a node.
LEMMA NodeFacts ==
    ASSUME NEW d \in Docs, NEW k \in 1..Len(d)
    PROVE  IsNode(NodeStatements(d[k]), d[k])
<1> DEFINE node == d[k]
           part(t) == IF t \in DOMAIN node.items THEN ItemInserts(node, t) ELSE <<Throws>>
           first == <<TidInsert(node)>>
           a == part("in_item")
           b == part("out_item")
           c == part("result_item")
           q == NodeStatements(node)
<1>1. \A t \in SectionNames : IsPart(part(t), node, t)
  <2> TAKE t \in SectionNames
  <2>1. t \in DOMAIN node.items => IsList(node.items[t])
    BY NodeAssumption
  <2> HIDE DEF node
  <2>2. part(t) = IF t \in DOMAIN node.items THEN ItemInserts(node, t) ELSE <<Throws>>
    OBVIOUS
  <2> HIDE DEF part
  <2> QED BY <2>1, <2>2, PartFacts
<1>2. IsPart(a, node, "in_item") /\ IsPart(b, node, "out_item") /\ IsPart(c, node, "result_item")
  <2> HIDE DEF part, node
  <2> QED BY <1>1 DEF SectionNames
<1>3. q = IF node.complete THEN first \o a \o b \o c ELSE <<Throws>>
  BY DEF NodeStatements, TidInsert
<1> HIDE DEF q, node, a, b, c, part, first
<1>4. CASE ~node.complete
  <2>1. q = <<Throws>> /\ Len(q) = 1 /\ q[1] = Throws
    BY <1>3, <1>4
  <2>2. q = [j \in 1..1 |-> q[j]]
    BY <2>1
  <2>3. IsList(q)
    BY <2>2, ListOf
  <2> QED BY <2>1, <2>3 DEF IsNode, q, node
<1>5. CASE node.complete
  <2>1. IsList(first) /\ Len(first) = 1 /\ first[1] = TidInsert(node)
    <3>1. first = [j \in 1..1 |-> first[j]] /\ first[1] = TidInsert(node)
      BY DEF first
    <3> QED BY <3>1, ListOf
  <2>2. IsList(a) /\ IsList(b) /\ IsList(c)
    BY <1>2 DEF IsPart
  <2> DEFINE x == first \o a
             y == x \o b
  <2>3. /\ IsList(x) /\ Len(x) = 1 + Len(a) /\ x[1] = TidInsert(node)
        /\ \A j \in 1..Len(a) : x[1 + j] = a[j]
    <3>1. x = first \o a
      OBVIOUS
    <3> HIDE DEF x
    <3>2. IsJoined(x, first, a)
      BY <2>1, <2>2, <3>1, ListConcat
    <3> QED BY <2>1, <3>2 DEF IsJoined
  <2> HIDE DEF x
  <2>4. /\ IsList(y) /\ Len(y) = Len(x) + Len(b)
        /\ \A j \in 1..Len(x) : y[j] = x[j]
        /\ \A j \in 1..Len(b) : y[Len(x) + j] = b[j]
    <3>1. y = x \o b
      OBVIOUS
    <3> HIDE DEF y
    <3>2. IsJoined(y, x, b)
      BY <2>2, <2>3, <3>1, ListConcat
    <3> QED BY <3>2 DEF IsJoined
  <2> HIDE DEF y
  <2>5. q = y \o c
    BY <1>3, <1>5 DEF x, y
  <2>6. /\ IsList(q) /\ Len(q) = Len(y) + Len(c)
        /\ \A j \in 1..Len(y) : q[j] = y[j]
        /\ \A j \in 1..Len(c) : q[Len(y) + j] = c[j]
    <3>1. IsJoined(q, y, c)
      BY <2>2, <2>4, <2>5, ListConcat
    <3> QED BY <3>1 DEF IsJoined
  <2>7. Len(a) \in Nat /\ Len(b) \in Nat /\ Len(c) \in Nat
    BY <2>2, ListFacts
  \* Where the parts are in q.
  <2>8. /\ Len(q) = 1 + Len(a) + Len(b) + Len(c) /\ q[1] = TidInsert(node)
        /\ \A j \in 1..Len(a) : q[1 + j] = a[j]
        /\ \A j \in 1..Len(b) : q[1 + Len(a) + j] = b[j]
        /\ \A j \in 1..Len(c) : q[1 + Len(a) + Len(b) + j] = c[j]
    <3>1. Len(x) = 1 + Len(a) /\ Len(y) = 1 + Len(a) + Len(b)
      BY <2>3, <2>4
    <3>2. q[1] = TidInsert(node)
      BY <2>3, <2>4, <2>5, <2>6, <2>7, <3>1
    <3>3. \A j \in 1..Len(a) : q[1 + j] = a[j]
      BY <2>3, <2>4, <2>5, <2>6, <2>7, <3>1
    <3>4. \A j \in 1..Len(b) : q[1 + Len(a) + j] = b[j]
      BY <2>4, <2>5, <2>6, <2>7, <3>1
    <3>5. \A j \in 1..Len(c) : q[1 + Len(a) + Len(b) + j] = c[j]
      BY <2>5, <2>6, <2>7, <3>1
    <3> QED BY <2>5, <2>6, <2>7, <3>1, <3>2, <3>3, <3>4, <3>5
  <2>9. ASSUME NEW j \in 1..Len(q), j # 1
        PROVE  \/ \E m \in 1..Len(a) : q[j] = a[m]
               \/ \E m \in 1..Len(b) : q[j] = b[m]
               \/ \E m \in 1..Len(c) : q[j] = c[m]
    <3>1. ASSUME NEW m \in 1..Len(a), m = j - 1 PROVE q[j] = a[m]
      BY <3>1, <2>7, <2>8
    <3>2. ASSUME NEW m \in 1..Len(b), m = j - (1 + Len(a)) PROVE q[j] = b[m]
      <4>1. j = 1 + Len(a) + m
        BY <3>2, <2>7
      <4> QED BY <4>1, <2>8
    <3>3. ASSUME NEW m \in 1..Len(c), m = j - (1 + Len(a) + Len(b)) PROVE q[j] = c[m]
      <4>1. j = 1 + Len(a) + Len(b) + m
        BY <3>3, <2>7
      <4> QED BY <4>1, <2>8
    <3>4. \/ j - 1 \in 1..Len(a)
          \/ j - (1 + Len(a)) \in 1..Len(b)
          \/ j - (1 + Len(a) + Len(b)) \in 1..Len(c)
      BY <2>7, <2>8, <2>9
    <3> QED BY <3>1, <3>2, <3>3, <3>4
  <2>10. /\ \A m \in 1..Len(a) : \E j \in 1..Len(q) : q[j] = a[m]
         /\ \A m \in 1..Len(b) : \E j \in 1..Len(q) : q[j] = b[m]
         /\ \A m \in 1..Len(c) : \E j \in 1..Len(q) : q[j] = c[m]
    <3>1. \A m \in 1..Len(a) : 1 + m \in 1..Len(q) /\ q[1 + m] = a[m]
      BY <2>7, <2>8
    <3>2. \A m \in 1..Len(b) : 1 + Len(a) + m \in 1..Len(q) /\ q[1 + Len(a) + m] = b[m]
      BY <2>7, <2>8
    <3>3. \A m \in 1..Len(c) : 1 + Len(a) + Len(b) + m \in 1..Len(q) /\ q[1 + Len(a) + Len(b) + m] = c[m]
      BY <2>7, <2>8
    <3> QED BY <3>1, <3>2, <3>3
  <2>11. IsList(q) /\ 1 \in 1..Len(q)
    BY <2>5, <2>6, <2>7, <2>8
  <2>12. \A j \in 1..Len(q) : j # 1 => q[j] = Throws \/ \E t \in SectionNames : IsItemInsert(q[j], node, t)
    <3>1. /\ \A m \in 1..Len(a) : a[m] = Throws \/ IsItemInsert(a[m], node, "in_item")
          /\ \A m \in 1..Len(b) : b[m] = Throws \/ IsItemInsert(b[m], node, "out_item")
          /\ \A m \in 1..Len(c) : c[m] = Throws \/ IsItemInsert(c[m], node, "result_item")
      BY <1>2 DEF IsPart
    <3>2. "in_item" \in SectionNames /\ "out_item" \in SectionNames /\ "result_item" \in SectionNames
      BY DEF SectionNames
    <3> QED BY <2>9, <3>1, <3>2
  <2>13. ASSUME \A j \in 1..Len(q) : q[j] # Throws, NEW t \in SectionNames
         PROVE  t \in DOMAIN node.items /\ \A n \in 1..Len(node.items[t]) : \E j \in 1..Len(q) : q[j] = ItemInsert(node, t, n)
    <3>1. /\ \A j \in 1..Len(a) : a[j] # Throws
          /\ \A j \in 1..Len(b) : b[j] # Throws
          /\ \A j \in 1..Len(c) : c[j] # Throws
      <4>1. \A m \in 1..Len(a) : a[m] # Throws
        BY <2>10, <2>13
      <4>2. \A m \in 1..Len(b) : b[m] # Throws
        BY <2>10, <2>13
      <4>3. \A m \in 1..Len(c) : c[m] # Throws
        BY <2>10, <2>13
      <4> QED BY <4>1, <4>2, <4>3, Zenon
    <3>2. CASE t = "in_item"
      <4>1. IsPart(a, node, t)
        BY <3>2, <1>2
      <4>2. t \in DOMAIN node.items /\ \A n \in 1..Len(node.items[t]) : \E m \in 1..Len(a) : a[m] = ItemInsert(node, t, n)
        BY <3>1, <4>1 DEF IsPart
      <4>3. ASSUME NEW n \in 1..Len(node.items[t]) PROVE \E j \in 1..Len(q) : q[j] = ItemInsert(node, t, n)
        <5>1. PICK m \in 1..Len(a) : a[m] = ItemInsert(node, t, n)
          BY <4>2
        <5>2. PICK j \in 1..Len(q) : q[j] = a[m]
          BY <2>10
        <5> QED BY <5>1, <5>2
      <4> QED BY <4>2, <4>3
    <3>3. CASE t = "out_item"
      <4>1. IsPart(b, node, t)
        BY <3>3, <1>2
      <4>2. t \in DOMAIN node.items /\ \A n \in 1..Len(node.items[t]) : \E m \in 1..Len(b) : b[m] = ItemInsert(node, t, n)
        BY <3>1, <4>1 DEF IsPart
      <4>3. ASSUME NEW n \in 1..Len(node.items[t]) PROVE \E j \in 1..Len(q) : q[j] = ItemInsert(node, t, n)
        <5>1. PICK m \in 1..Len(b) : b[m] = ItemInsert(node, t, n)
          BY <4>2
        <5>2. PICK j \in 1..Len(q) : q[j] = b[m]
          BY <2>10
        <5> QED BY <5>1, <5>2
      <4> QED BY <4>2, <4>3
    <3>4. CASE t = "result_item"
      <4>1. IsPart(c, node, t)
        BY <3>4, <1>2
      <4>2. t \in DOMAIN node.items /\ \A n \in 1..Len(node.items[t]) : \E m \in 1..Len(c) : c[m] = ItemInsert(node, t, n)
        BY <3>1, <4>1 DEF IsPart
      <4>3. ASSUME NEW n \in 1..Len(node.items[t]) PROVE \E j \in 1..Len(q) : q[j] = ItemInsert(node, t, n)
        <5>1. PICK m \in 1..Len(c) : c[m] = ItemInsert(node, t, n)
          BY <4>2
        <5>2. PICK j \in 1..Len(q) : q[j] = c[m]
          BY <2>10
        <5> QED BY <5>1, <5>2
      <4> QED BY <4>2, <4>3
    <3> QED BY <3>2, <3>3, <3>4 DEF SectionNames
  <2> QED BY <2>8, <2>11, <2>12, <2>13 DEF IsNode, q, node
<1>6. node.complete \in BOOLEAN
  BY NodeAssumption DEF node
<1> QED BY <1>4, <1>5

\* f[n] is the first n of the lists g[1], g[2], ... one behind the other.
Joins(f, N, g) ==
    /\ f = [n \in 0..N |-> f[n]]
    /\ f[0] = <<>> /\ \A n \in 1..N : f[n] = f[n - 1] \o g[n]

\* Lists can be joined.
LEMMA JoinsExist ==
    ASSUME NEW N \in Nat, NEW g
    PROVE  \E f : Joins(f, N, g)
<1> DEFINE T == {m \in 0..N : \E f : Joins(f, m, g)}
<1>1. 0 \in T
  <2> DEFINE f == [n \in 0..0 |-> <<>>]
  <2>1. Joins(f, 0, g)
    BY DEF Joins
  <2> HIDE DEF f
  <2> QED BY <2>1
<1>2. ASSUME NEW m \in 0..N, m \in T, m < N
      PROVE  m + 1 \in T
  <2>1. PICK f : Joins(f, m, g)
    BY <1>2
  <2> DEFINE h == [n \in 0..m + 1 |-> IF n = m + 1 THEN f[m] \o g[m + 1] ELSE f[n]]
  <2>2. \A n \in 1..m + 1 : h[n] = h[n - 1] \o g[n]
    <3> TAKE n \in 1..m + 1
    <3>0. m \in Nat /\ n \in 0..m + 1 /\ n - 1 \in 0..m + 1 /\ n - 1 # m + 1
      BY <1>2
    <3>1. h[n - 1] = f[n - 1]
      BY <3>0
    <3>2. CASE n = m + 1
      <4>1. h[n] = IF n = m + 1 THEN f[m] \o g[m + 1] ELSE f[n]
        BY <3>0
      <4>2. n - 1 = m
        BY <3>0, <3>2
      <4> HIDE DEF h
      <4> QED BY <3>1, <3>2, <4>1, <4>2
    <3>3. CASE n # m + 1
      <4>1. n \in 1..m
        BY <3>0, <3>3
      <4>2. f[n] = f[n - 1] \o g[n]
        BY <4>1, <2>1 DEF Joins
      <4>3. h[n] = f[n]
        BY <3>0, <3>3
      <4> HIDE DEF h
      <4> QED BY <3>1, <4>2, <4>3
    <3> QED BY <3>2, <3>3
  <2>3. h[0] = <<>>
    BY <2>1, <1>2 DEF Joins
  <2>4. h = [n \in 0..m + 1 |-> h[n]]
    OBVIOUS
  <2> HIDE DEF h
  <2>5. Joins(h, m + 1, g)
    BY <2>2, <2>3, <2>4 DEF Joins
  <2>6. m + 1 \in 0..N
    BY <1>2
  <2> QED BY <2>5, <2>6
<1> HIDE DEF T
<1>3. \A n \in 0..N : n \in T
  <2>1. \A n \in 0..N : n \in T /\ n < N => n + 1 \in T
    BY <1>2
  <2> QED BY <1>1, <2>1, BoundedInduction
<1>4. N \in T
  BY <1>3
<1> QED BY <1>4 DEF T

\* The statements of the first n nodes of d, for each n.
Upto(d) ==
    LET upto[n \in 0..Len(d)] == IF n = 0 THEN <<>> ELSE upto[n - 1] \o NodeStatements(d[n])
    IN  upto

\* How many they are.
Before(d, n) == Len(Upto(d)[n])

\* They are one behind the other.
LEMMA UptoFacts ==
    ASSUME NEW d \in Docs
    PROVE  /\ Inserts(d) = Upto(d)[Len(d)]
           /\ Upto(d)[0] = <<>>
           /\ \A n \in 0..Len(d) : IsList(Upto(d)[n])
           /\ \A n \in 1..Len(d) : IsJoined(Upto(d)[n], Upto(d)[n - 1], NodeStatements(d[n]))
<1> DEFINE N == Len(d)
           Body(f) == [n \in 0..N |-> IF n = 0 THEN <<>> ELSE f[n - 1] \o NodeStatements(d[n])]
           upto == CHOOSE f : f = Body(f)
<1>1. Inserts(d) = upto[N] /\ Upto(d) = upto
  BY Zenon DEF Inserts, Upto
<1>2. N \in Nat /\ \A n \in 1..N : IsList(NodeStatements(d[n]))
  <2>1. IsList(d)
    BY NodeAssumption
  <2> QED BY <2>1, ListFacts, NodeFacts DEF IsNode
<1> DEFINE g == [n \in 1..N |-> NodeStatements(d[n])]
<1>3. PICK h : h = Body(h)
  <2>1. PICK h : Joins(h, N, g)
    BY <1>2, JoinsExist
  <2>2. \A n \in 0..N : h[n] = IF n = 0 THEN <<>> ELSE h[n - 1] \o NodeStatements(d[n])
    <3> TAKE n \in 0..N
    <3>1. n # 0 => n \in 1..N /\ g[n] = NodeStatements(d[n])
      BY <1>2
    <3> HIDE DEF g
    <3> QED BY <2>1, <3>1 DEF Joins
  <2>3. h = [n \in 0..N |-> h[n]]
    BY <2>1 DEF Joins
  <2>4. h = Body(h)
    BY <2>2, <2>3
  <2> QED BY <2>4
<1>4. upto = Body(upto)
  BY <1>3
<1> HIDE DEF upto
<1>5. upto[0] = <<>> /\ \A n \in 1..N : upto[n] = upto[n - 1] \o NodeStatements(d[n])
  <2>1. \A n \in 0..N : upto[n] = Body(upto)[n]
    <3> HIDE DEF Body
    <3> QED BY <1>4
  <2>3. 0 \in 0..N /\ \A n \in 1..N : n \in 0..N /\ n # 0
    BY <1>2
  <2>2. Body(upto)[0] = <<>> /\ \A n \in 1..N : Body(upto)[n] = upto[n - 1] \o NodeStatements(d[n])
    <3> HIDE DEF N
    <3> QED BY <2>3
  <2> HIDE DEF Body
  <2> QED BY <2>1, <2>2, <2>3
<1> HIDE DEF Body, N
<1> DEFINE T == {n \in 0..N : IsList(upto[n])}
<1>6. 0 \in T
  <2>1. IsList(<<>>)
    BY DEF IsList
  <2> QED BY <1>2, <1>5, <2>1
<1>7. ASSUME NEW n \in 0..N, n \in T, n < N PROVE n + 1 \in T
  <2>1. n + 1 \in 1..N /\ n + 1 \in 0..N /\ (n + 1) - 1 = n /\ IsList(upto[n])
    BY <1>2, <1>7
  <2>2. upto[n + 1] = upto[n] \o NodeStatements(d[n + 1]) /\ IsList(NodeStatements(d[n + 1]))
    BY <1>2, <1>5, <2>1
  <2>3. IsJoined(upto[n + 1], upto[n], NodeStatements(d[n + 1]))
    BY <2>1, <2>2, ListConcat
  <2>4. IsList(upto[n + 1])
    BY <2>3 DEF IsJoined
  <2> QED BY <2>1, <2>4
<1>8. \A n \in 0..N : IsList(upto[n])
  <2> HIDE DEF T
  <2>1. \A n \in 0..N : n \in T
    BY <1>2, <1>6, <1>7, BoundedInduction
  <2> QED BY <2>1 DEF T
<1>9. \A n \in 1..N : IsJoined(upto[n], upto[n - 1], NodeStatements(d[n]))
  <2> TAKE n \in 1..N
  <2>1. n - 1 \in 0..N
    BY <1>2
  <2> QED BY <1>2, <1>5, <1>8, <2>1, ListConcat
<1> QED BY <1>1, <1>5, <1>8, <1>9 DEF N

\* Where the statements of the nodes are among the inserts of d.
LEMMA Located ==
    ASSUME NEW d \in Docs
    PROVE  /\ Len(d) \in Nat /\ IsList(Inserts(d)) /\ Before(d, 0) = 0 /\ Before(d, Len(d)) = Len(Inserts(d))
           /\ \A k \in 0..Len(d) : Before(d, k) \in Nat /\ Before(d, k) <= Len(Inserts(d))
           /\ \A k \in 1..Len(d) :
                 /\ Len(NodeStatements(d[k])) \in Nat
                 /\ Before(d, k) = Before(d, k - 1) + Len(NodeStatements(d[k]))
                 /\ \A j \in 1..Len(NodeStatements(d[k])) :
                       Inserts(d)[Before(d, k - 1) + j] = NodeStatements(d[k])[j]
<1> DEFINE N == Len(d)
           upto == Upto(d)
           all == Inserts(d)
           len(k) == Len(NodeStatements(d[k]))
<1>1. N \in Nat
  <2>1. IsList(d)
    BY NodeAssumption
  <2> QED BY <2>1, ListFacts
<1>2. /\ all = upto[N] /\ upto[0] = <<>>
      /\ \A n \in 0..N : IsList(upto[n])
      /\ \A n \in 1..N : IsJoined(upto[n], upto[n - 1], NodeStatements(d[n]))
  BY UptoFacts
<1>3. \A k \in 1..N : len(k) \in Nat
  <2> TAKE k \in 1..N
  <2>1. IsList(NodeStatements(d[k]))
    BY NodeFacts DEF IsNode
  <2> QED BY <2>1, ListFacts
<1>4. /\ \A k \in 0..N : Before(d, k) \in Nat /\ Before(d, k) = Len(upto[k])
      /\ Before(d, 0) = 0 /\ Before(d, N) = Len(all)
  <2>1. \A k \in 0..N : Len(upto[k]) \in Nat
    <3> HIDE DEF N, upto
    <3> QED BY <1>2, ListFacts
  <2>2. 0 \in 0..N /\ N \in 0..N /\ Len(<<>>) = 0
    BY <1>1
  <2> QED BY <1>2, <2>1, <2>2 DEF Before
<1> HIDE DEF N, upto, all, len
<1>5. \A k \in 1..N : /\ Before(d, k) = Before(d, k - 1) + len(k)
                      /\ \A j \in 1..Before(d, k - 1) : upto[k][j] = upto[k - 1][j]
                      /\ \A j \in 1..len(k) : upto[k][Before(d, k - 1) + j] = NodeStatements(d[k])[j]
  <2> TAKE k \in 1..N
  <2>1. k \in 0..N /\ k - 1 \in 0..N
    BY <1>1
  <2>2. Before(d, k) = Len(upto[k]) /\ Before(d, k - 1) = Len(upto[k - 1])
    BY <1>4, <2>1
  <2> QED BY <1>2, <2>2 DEF IsJoined, len
\* What is there stays.
<1> DEFINE T == {n \in 0..N : /\ Before(d, N - n) <= Len(all)
                              /\ \A j \in 1..Before(d, N - n) : all[j] = upto[N - n][j]}
<1>6. 0 \in T
  BY <1>1, <1>2, <1>4
<1>7. ASSUME NEW n \in 0..N, n \in T, n < N PROVE n + 1 \in T
  <2> DEFINE k == N - n
  <2>1. k \in 1..N /\ k \in 0..N /\ k - 1 \in 0..N /\ N - (n + 1) = k - 1 /\ n + 1 \in 0..N
    BY <1>1, <1>7
  <2>2. Before(d, k) <= Len(all) /\ \A j \in 1..Before(d, k) : all[j] = upto[k][j]
    BY <1>7
  <2> HIDE DEF k
  <2>3. Before(d, k) = Before(d, k - 1) + len(k) /\ len(k) \in Nat /\ Before(d, k) \in Nat /\ Before(d, k - 1) \in Nat
    BY <1>3, <1>4, <1>5, <2>1
  <2>4. Len(all) \in Nat /\ Before(d, k - 1) <= Len(all)
    <3>1. N \in 0..N
      BY <1>1
    <3>2. Len(all) \in Nat
      BY <1>4, <3>1
    <3> QED BY <2>2, <2>3, <3>2
  <2>5. \A j \in 1..Before(d, k - 1) : all[j] = upto[k - 1][j]
    <3> TAKE j \in 1..Before(d, k - 1)
    <3>1. j \in 1..Before(d, k)
      BY <2>3
    <3> QED BY <1>5, <2>1, <2>2, <3>1
  <2> QED BY <2>1, <2>4, <2>5
<1> HIDE DEF T
<1>8. \A k \in 0..N : Before(d, k) <= Len(all) /\ \A j \in 1..Before(d, k) : all[j] = upto[k][j]
  <2> TAKE k \in 0..N
  <2>1. \A n \in 0..N : n \in T
    BY <1>1, <1>6, <1>7, BoundedInduction
  <2>2. N - k \in 0..N /\ N - (N - k) = k
    BY <1>1
  <2>3. N - k \in T
    BY <2>1, <2>2
  <2> QED BY <2>2, <2>3 DEF T
<1>9. \A k \in 1..N : \A j \in 1..len(k) : all[Before(d, k - 1) + j] = NodeStatements(d[k])[j]
  <2> TAKE k \in 1..N
  <2> TAKE j \in 1..len(k)
  <2>1. k \in 0..N /\ k - 1 \in 0..N
    BY <1>1
  <2>2. Before(d, k) = Before(d, k - 1) + len(k) /\ len(k) \in Nat /\ Before(d, k - 1) \in Nat
    BY <1>3, <1>4, <1>5, <2>1
  <2>3. Before(d, k - 1) + j \in 1..Before(d, k)
    BY <2>2
  <2> QED BY <1>5, <1>8, <2>1, <2>3
<1>10. IsList(all)
  BY <1>1, <1>2
<1> QED BY <1>1, <1>3, <1>4, <1>5, <1>8, <1>9, <1>10 DEF N, all, len

\* Every insert is one of a node.
LEMMA EachOfANode ==
    ASSUME NEW d \in Docs, NEW m \in 1..Len(Inserts(d))
    PROVE  \E k \in 1..Len(d) : \E j \in 1..Len(NodeStatements(d[k])) :
              m = Before(d, k - 1) + j /\ Inserts(d)[m] = NodeStatements(d[k])[j]
<1> DEFINE N == Len(d)
           len(k) == Len(NodeStatements(d[k]))
           P(k) == m <= Before(d, k)
           T == {n \in 0..N : ~P(n)}
<1>1. /\ N \in Nat /\ Before(d, 0) = 0 /\ Before(d, N) = Len(Inserts(d))
      /\ \A k \in 0..N : Before(d, k) \in Nat
      /\ \A k \in 1..N : /\ len(k) \in Nat /\ Before(d, k) = Before(d, k - 1) + len(k)
                         /\ \A j \in 1..len(k) : Inserts(d)[Before(d, k - 1) + j] = NodeStatements(d[k])[j]
  BY Located
<1> HIDE DEF N, len, P
<1>2. PICK k \in 1..N : P(k) /\ ~P(k - 1)
  <2> SUFFICES ASSUME \A k \in 1..N : ~(P(k) /\ ~P(k - 1)) PROVE FALSE
    OBVIOUS
  <2>1. 0 \in T
    BY <1>1 DEF P
  <2>2. \A n \in 0..N : n \in T /\ n < N => n + 1 \in T
    <3> TAKE n \in 0..N
    <3>1. n < N => n + 1 \in 1..N /\ n + 1 \in 0..N /\ (n + 1) - 1 = n
      BY <1>1
    <3> QED BY <3>1
  <2>3. N \in 0..N
    BY <1>1
  <2>4. N \in T
    <3> HIDE DEF T
    <3>1. \A n \in 0..N : n \in T
      BY <1>1, <2>1, <2>2, BoundedInduction
    <3> QED BY <2>3, <3>1
  <2> QED BY <1>1, <2>4 DEF P
<1>3. k \in 0..N /\ k - 1 \in 0..N
  BY <1>1
<1>4. m \in Nat /\ m <= Before(d, k) /\ ~(m <= Before(d, k - 1)) /\ Before(d, k) \in Nat /\ Before(d, k - 1) \in Nat
  BY <1>1, <1>2, <1>3 DEF P
<1>5. m - Before(d, k - 1) \in 1..len(k) /\ m = Before(d, k - 1) + (m - Before(d, k - 1))
  BY <1>1, <1>4
<1>6. Inserts(d)[m] = NodeStatements(d[k])[m - Before(d, k - 1)]
  BY <1>1, <1>5
<1> QED BY <1>5, <1>6 DEF N, len

-----------------------------------------------------------------------------
(* What a document stores.                                                 *)

\* The tables v with the row of the insert s.
WithRow(v, s) == [t \in TableNames |-> IF t = s.table THEN Append(v[t], s.row) ELSE v[t]]

\* The elements of a sequence over R are a list.
LEMMA SequenceIsList ==
    ASSUME NEW R, NEW s \in Seq(R)
    PROVE  IsList(s)
<1>1. Len(s) \in Nat /\ s = [k \in 1..Len(s) |-> s[k]]
  BY LenProperties
<1> QED BY <1>1, ListOf

\* The inserts of d are carried out one after the other, beginning with nothing.
LEMMA StoredFacts ==
    ASSUME NEW d \in Docs
    PROVE  /\ Stored(d)[0] = [t \in TableNames |-> <<>>]
           /\ \A n \in 1..Len(Inserts(d)) : Stored(d)[n] = WithRow(Stored(d)[n - 1], Inserts(d)[n])
           /\ \A n \in 0..Len(Inserts(d)) :
                 Stored(d)[n] = [t \in TableNames |-> Stored(d)[n][t]] /\ \A t \in TableNames : IsList(Stored(d)[n][t])
<1> DEFINE N == Len(Inserts(d))
           none == [t \in TableNames |-> <<>>]
           Body(f) == [n \in 0..N |-> IF n = 0 THEN none ELSE WithRow(f[n - 1], Inserts(d)[n])]
           upto == CHOOSE f : f = Body(f)
<1>1. Stored(d) = upto
  BY Zenon DEF Stored, WithRow
<1>2. N \in Nat
  <2>1. IsList(Inserts(d))
    BY Located
  <2> QED BY <2>1, ListFacts
<1> DEFINE R == {Inserts(d)[n].row : n \in 1..N}
           S == [TableNames -> Seq(R)]
           g == [n \in 1..N |-> [v \in S |-> WithRow(v, Inserts(d)[n])]]
<1>3. PICK h : h \in [0..N -> S] /\ h = Body(h)
  <2>1. none \in S
    <3>1. <<>> \in Seq(R)
      BY EmptySeq
    <3> HIDE DEF R
    <3> QED BY <3>1
  <2>2. \A n \in 1..N : \A v \in S : WithRow(v, Inserts(d)[n]) \in S
    <3> TAKE n \in 1..N
    <3> TAKE v \in S
    <3>1. Inserts(d)[n].row \in R
      OBVIOUS
    <3> HIDE DEF R
    <3>2. \A t \in TableNames : v[t] \in Seq(R) /\ Append(v[t], Inserts(d)[n].row) \in Seq(R)
      BY <3>1, AppendProperties
    <3> QED BY <3>2 DEF WithRow
  <2> HIDE DEF S, none
  <2>3. g \in [1..N -> [S -> S]]
    BY <2>2
  <2>4. IsLoop(N, S, none, g)
    <3> HIDE DEF g, N
    <3> QED BY <1>2, <2>1, <2>3 DEF IsLoop
  <2>5. PICK h : StatesOf(h, N, S, none, g)
    BY <2>4, LoopFunction
  <2>6. \A n \in 1..N : \A v \in S : g[n][v] = WithRow(v, Inserts(d)[n])
    OBVIOUS
  <2>7. h \in [0..N -> S] /\ h[0] = none /\ \A n \in 1..N : h[n] = WithRow(h[n - 1], Inserts(d)[n])
    <3> HIDE DEF g, N
    <3>1. h \in [0..N -> S] /\ h[0] = none /\ \A n \in 1..N : h[n] = g[n][h[n - 1]]
      BY <2>5 DEF StatesOf
    <3>2. \A n \in 1..N : n - 1 \in 0..N
      BY <1>2
    <3>3. \A n \in 1..N : h[n - 1] \in S
      BY <3>1, <3>2
    <3> QED BY <3>1, <3>3, <2>6
  <2>8. \A n \in 0..N : h[n] = IF n = 0 THEN none ELSE WithRow(h[n - 1], Inserts(d)[n])
    <3> TAKE n \in 0..N
    <3>1. n = 0 \/ n \in 1..N
      BY <1>2
    <3> HIDE DEF N
    <3> QED BY <2>7, <3>1
  <2>9. h = Body(h)
    <3> HIDE DEF N
    <3> QED BY <2>7, <2>8
  <2> QED BY <2>7, <2>9
<1> HIDE DEF Body
<1>4. upto = Body(upto)
  BY <1>3
<1> HIDE DEF upto, S
<1>5. /\ upto[0] = none
      /\ \A n \in 1..N : upto[n] = WithRow(upto[n - 1], Inserts(d)[n])
  <2>1. \A n \in 0..N : upto[n] = Body(upto)[n]
    BY <1>4
  <2>2. 0 \in 0..N /\ \A n \in 1..N : n \in 0..N /\ n # 0
    BY <1>2
  <2>3. Body(upto)[0] = none /\ \A n \in 1..N : Body(upto)[n] = WithRow(upto[n - 1], Inserts(d)[n])
    <3> HIDE DEF N, none
    <3> QED BY <2>2 DEF Body
  <2> QED BY <2>1, <2>2, <2>3
<1> HIDE DEF N, none
<1> DEFINE T == {n \in 0..N : upto[n] \in S}
<1>6. 0 \in T
  <2>1. h[0] = none /\ h[0] \in S
    <3>1. 0 \in 0..N
      BY <1>2
    <3> QED BY <1>3, <3>1 DEF Body
  <2> QED BY <1>2, <1>5, <2>1
<1>7. \A n \in 0..N : n \in T /\ n < N => n + 1 \in T
  <2> TAKE n \in 0..N
  <2> HAVE n \in T /\ n < N
  <2>1. n + 1 \in 1..N /\ n + 1 \in 0..N /\ (n + 1) - 1 = n /\ upto[n] \in S
    BY <1>2
  <2>2. upto[n + 1] = WithRow(upto[n], Inserts(d)[n + 1])
    BY <1>5, <2>1
  <2>3. Inserts(d)[n + 1].row \in R
    BY <2>1
  <2>4. upto[n + 1] \in S
    <3> HIDE DEF R
    <3>1. \A t \in TableNames : upto[n][t] \in Seq(R) /\ Append(upto[n][t], Inserts(d)[n + 1].row) \in Seq(R)
      BY <2>1, <2>3, AppendProperties DEF S
    <3> QED BY <2>2, <3>1 DEF WithRow, S
  <2> QED BY <2>1, <2>4
<1>8. \A n \in 0..N : upto[n] \in S
  <2> HIDE DEF T
  <2>1. \A n \in 0..N : n \in T
    BY <1>2, <1>6, <1>7, BoundedInduction
  <2> QED BY <2>1 DEF T
<1>9. \A n \in 0..N : upto[n] = [t \in TableNames |-> upto[n][t]] /\ \A t \in TableNames : IsList(upto[n][t])
  <2> TAKE n \in 0..N
  <2> HIDE DEF R
  <2>1. upto[n] \in [TableNames -> Seq(R)]
    BY <1>8 DEF S
  <2> QED BY <2>1, SequenceIsList
<1> QED BY <1>1, <1>5, <1>9 DEF none, N

-----------------------------------------------------------------------------
(* The inductive invariant.                                                *)

\* No two rows of a table have one key.
KeysUnique(b) ==
    \A t \in DOMAIN b : \A m, n \in 1..Len(b[t]) : Key(t, b[t][m]) = Key(t, b[t][n]) => m = n

\* What the tables are when a run on d has come to statement a: the tables are
\* gone from the first to the last, then there again and empty, then they have
\* what d stores.
RunOn(d, b, a) ==
    /\ a \in 1..9 + Len(Inserts(d))
    /\ \A n \in 1..4 : n < a /\ a <= 5 => Drops[n].table \notin DOMAIN b
    /\ 5 <= a /\ a <= 9 => b = [t \in {Creates[n].table : n \in 1..a - 5} |-> <<>>]
    /\ 9 <= a => /\ b = Stored(d)[a - 9]
                 /\ \A n \in 1..a - 9 : Inserts(d)[n].do = "insert"

\* What sqlite lets the tables be.
AreTables(b) ==
    /\ b = [t \in DOMAIN b |-> b[t]] /\ DOMAIN b \subseteq TableNames
    /\ \A t \in DOMAIN b : IsList(b[t])
    /\ KeysUnique(b)

\* A run that has not broken off is on a document; one that finished, at its end.
IInv ==
    /\ AreTables(db)
    /\ pc \in Ended \cup {"running"}
    /\ Len(program) \in Nat /\ at \in 1..Len(program) + 1
    /\ pc \in {"running", "finished"} => \E d \in Docs : program = Program(d) /\ RunOn(d, db, at)
    /\ pc = "finished" => at = Len(program) + 1

\* Where the statements are in a program.
LEMMA ProgramFacts ==
    ASSUME NEW d \in Docs
    PROVE  /\ Len(Inserts(d)) \in Nat /\ Len(Program(d)) = 8 + Len(Inserts(d))
           /\ \A n \in 1..4 : Program(d)[n] = Drops[n] /\ Program(d)[4 + n] = Creates[n]
           /\ \A n \in 1..Len(Inserts(d)) : Program(d)[8 + n] = Inserts(d)[n]
<1> DEFINE s == Drops \o Creates
           p == s \o Inserts(d)
<1>1. IsList(Drops) /\ Len(Drops) = 4 /\ IsList(Creates) /\ Len(Creates) = 4
  <2>1. Drops = [n \in 1..4 |-> Drops[n]] /\ Creates = [n \in 1..4 |-> Creates[n]]
    BY DEF Drops, Creates
  <2> QED BY <2>1, ListOf
<1>2. IsList(Inserts(d)) /\ Len(Inserts(d)) \in Nat
  <2>1. IsList(Inserts(d))
    BY Located
  <2> QED BY <2>1, ListFacts
<1>3. IsJoined(s, Drops, Creates)
  BY <1>1, ListConcat
<1> HIDE DEF s
<1>4. IsJoined(p, s, Inserts(d))
  <2>1. IsList(s)
    BY <1>3 DEF IsJoined
  <2> QED BY <1>2, <2>1, ListConcat
<1>5. Program(d) = p
  BY DEF Program, s
<1> HIDE DEF p
<1>6. /\ Len(s) = 8
      /\ \A n \in 1..4 : s[n] = Drops[n] /\ s[4 + n] = Creates[n]
  BY <1>1, <1>3 DEF IsJoined
<1>7. /\ Len(p) = 8 + Len(Inserts(d))
      /\ \A n \in 1..8 : p[n] = s[n]
      /\ \A n \in 1..Len(Inserts(d)) : p[8 + n] = Inserts(d)[n]
  BY <1>4, <1>6 DEF IsJoined
<1>8. \A n \in 1..4 : n \in 1..8 /\ 4 + n \in 1..8
  OBVIOUS
<1> QED BY <1>2, <1>5, <1>6, <1>7, <1>8

\* Each of the inserts is one, into a table with that name, or an exception.
LEMMA InsertFacts ==
    ASSUME NEW d \in Docs, NEW m \in 1..Len(Inserts(d))
    PROVE  \/ Inserts(d)[m].do = "throw"
           \/ Inserts(d)[m].do = "insert" /\ Inserts(d)[m].table \in TableNames
<1>1. PICK k \in 1..Len(d) : \E j \in 1..Len(NodeStatements(d[k])) :
              m = Before(d, k - 1) + j /\ Inserts(d)[m] = NodeStatements(d[k])[j]
  BY EachOfANode
<1>2. PICK j \in 1..Len(NodeStatements(d[k])) : Inserts(d)[m] = NodeStatements(d[k])[j]
  BY <1>1
<1> DEFINE s == NodeStatements(d[k])[j]
<1>3. \/ s = Throws \/ s = TidInsert(d[k]) \/ \E t \in SectionNames : IsItemInsert(s, d[k], t)
  <2>1. IsNode(NodeStatements(d[k]), d[k])
    BY NodeFacts
  <2> QED BY <2>1 DEF IsNode
<1> HIDE DEF s
<1>4. CASE s = Throws
  <2>1. Throws.do = "throw"
    BY DEF Throws
  <2> QED BY <1>2, <1>4, <2>1 DEF s
<1>5. CASE s = TidInsert(d[k])
  BY <1>2, <1>5 DEF TidInsert, TableNames, s
<1>6. CASE \E t \in SectionNames : IsItemInsert(s, d[k], t)
  <2>1. PICK t \in SectionNames : \E n \in 1..Len(d[k].items[t]) : s = ItemInsert(d[k], t, n)
    BY <1>6 DEF IsItemInsert
  <2>2. s.do = "insert" /\ s.table = t
    BY <2>1 DEF ItemInsert
  <2> QED BY <1>2, <2>2 DEF SectionNames, TableNames, s
<1> QED BY <1>3, <1>4, <1>5, <1>6

\* The tables c are b after the statement s.
IsEffect(c, s, b) ==
    /\ AreTables(c)
    /\ s.do = "drop" => DOMAIN c = DOMAIN b \ {s.table}
    /\ s.do = "create" => c = [t \in DOMAIN b \cup {s.table} |-> IF t = s.table THEN <<>> ELSE b[t]]
    /\ s.do = "insert" => DOMAIN c = DOMAIN b /\ \A t \in DOMAIN b :
          c[t] = IF t = s.table THEN Append(b[t], s.row) ELSE b[t]

\* What a statement that executes does to the tables.
LEMMA EffectFacts ==
    ASSUME NEW b, AreTables(b), NEW s, Executes(s, b), s.table \in TableNames,
           s.do \in {"drop", "create", "insert"}, s.do = "insert" => s.table \in DOMAIN b,
           NEW c, c = Effect(s, b)
    PROVE  IsEffect(c, s, b)
<1>0. b = [t \in DOMAIN b |-> b[t]] /\ DOMAIN b \subseteq TableNames /\ KeysUnique(b) /\ \A t \in DOMAIN b : IsList(b[t])
  BY DEF AreTables
<1>1. CASE s.do = "drop"
  <2>1. c = [t \in DOMAIN b \ {s.table} |-> b[t]]
    BY <1>1 DEF Effect
  <2>2. DOMAIN c = DOMAIN b \ {s.table} /\ \A t \in DOMAIN c : t \in DOMAIN b /\ c[t] = b[t]
    BY <2>1
  <2>3. KeysUnique(c)
    BY <1>0, <2>2 DEF KeysUnique
  <2>4. c = [t \in DOMAIN c |-> c[t]]
    BY <2>1
  <2> QED BY <1>0, <1>1, <2>2, <2>3, <2>4 DEF AreTables, IsEffect
<1>2. CASE s.do = "create"
  <2>1. c = [t \in DOMAIN b \cup {s.table} |-> IF t = s.table THEN <<>> ELSE b[t]]
    BY <1>2 DEF Effect
  <2>2. DOMAIN c = DOMAIN b \cup {s.table} /\ \A t \in DOMAIN c : (t = s.table /\ c[t] = <<>>) \/ (t \in DOMAIN b /\ c[t] = b[t])
    BY <2>1
  <2>3. IsList(<<>>) /\ Len(<<>>) = 0
    BY DEF IsList
  <2>4. KeysUnique(c)
    BY <1>0, <2>2, <2>3 DEF KeysUnique
  <2>5. \A t \in DOMAIN c : IsList(c[t])
    BY <1>0, <2>2, <2>3
  <2>6. c = [t \in DOMAIN c |-> c[t]]
    BY <2>1
  <2> QED BY <1>0, <1>2, <2>1, <2>2, <2>4, <2>5, <2>6 DEF AreTables, IsEffect
<1>3. CASE s.do = "insert"
  <2>1. c = [b EXCEPT ![s.table] = Append(b[s.table], s.row)] /\ s.table \in DOMAIN b
    BY <1>3 DEF Effect
  <2>2. DOMAIN c = DOMAIN b /\ \A t \in DOMAIN b : c[t] = IF t = s.table THEN Append(b[t], s.row) ELSE b[t]
    BY <1>0, <2>1
  <2>3. \A n \in 1..Len(b[s.table]) : Key(s.table, b[s.table][n]) # Key(s.table, s.row)
    BY <1>3 DEF Executes
  <2>4. ASSUME NEW t \in DOMAIN c
        PROVE  IsList(c[t]) /\ \A m, n \in 1..Len(c[t]) : Key(t, c[t][m]) = Key(t, c[t][n]) => m = n
    <3>1. IsList(b[t]) /\ Len(b[t]) \in Nat
      BY <1>0, <2>2, <2>4, ListFacts
    <3>2. \A m, n \in 1..Len(b[t]) : Key(t, b[t][m]) = Key(t, b[t][n]) => m = n
      BY <1>0, <2>2, <2>4 DEF KeysUnique
    <3>3. CASE t # s.table
      BY <2>2, <2>4, <3>1, <3>2, <3>3
    <3>4. CASE t = s.table
      <4>1. c[t] = Append(b[t], s.row)
        BY <2>2, <2>4, <3>4
      <4>2. /\ IsList(c[t]) /\ Len(c[t]) = Len(b[t]) + 1
            /\ \A k \in 1..Len(b[t]) : c[t][k] = b[t][k]
            /\ c[t][Len(b[t]) + 1] = s.row
        BY <3>1, <4>1, ListAppend
      <4>3. \A k \in 1..Len(c[t]) : (k \in 1..Len(b[t])) \/ k = Len(b[t]) + 1
        BY <3>1, <4>2
      <4>4. \A k \in 1..Len(b[t]) : Key(t, c[t][k]) = Key(t, b[t][k])
        BY <4>2
      <4>5. Key(t, c[t][Len(b[t]) + 1]) = Key(t, s.row)
        BY <4>2
      <4>6. \A m, n \in 1..Len(c[t]) : Key(t, c[t][m]) = Key(t, c[t][n]) => m = n
        BY <2>3, <3>2, <3>4, <4>3, <4>4, <4>5
      <4> QED BY <4>2, <4>6
    <3> QED BY <3>3, <3>4
  <2>5. KeysUnique(c)
    BY <2>4 DEF KeysUnique
  <2>6. c = [t \in DOMAIN c |-> c[t]]
    BY <1>0, <2>1
  <2> QED BY <1>0, <1>3, <2>2, <2>4, <2>5, <2>6 DEF AreTables, IsEffect
<1> QED BY <1>1, <1>2, <1>3

\* A statement of a run leads from the tables before it to those after it.
LEMMA RunStep ==
    ASSUME NEW d \in Docs, NEW b, AreTables(b), NEW a \in 1..Len(Program(d)), RunOn(d, b, a),
           Executes(Program(d)[a], b),
           NEW c, c = Effect(Program(d)[a], b)
    PROVE  AreTables(c) /\ RunOn(d, c, a + 1)
<1> DEFINE s == Program(d)[a]
           N == Len(Inserts(d))
<1>1. /\ N \in Nat /\ Len(Program(d)) = 8 + N
      /\ \A n \in 1..4 : Program(d)[n] = Drops[n] /\ Program(d)[4 + n] = Creates[n]
      /\ \A n \in 1..N : Program(d)[8 + n] = Inserts(d)[n]
  BY ProgramFacts
<1> HIDE DEF N, s
<1>2. a \in 1..8 + N /\ a + 1 \in 1..9 + N
  BY <1>1
<1>3. Executes(s, b) /\ c = Effect(s, b)
  BY DEF s
<1>4. CASE a \in 1..4
  <2>1. s = Drops[a]
    BY <1>1, <1>4 DEF s
  <2>2. s.do = "drop" /\ s.table \in TableNames /\ Drops[a].table = s.table
    BY <1>4, <2>1 DEF Drops, TableNames
  <2>3. AreTables(c) /\ DOMAIN c = DOMAIN b \ {s.table}
    <3>1. IsEffect(c, s, b)
      BY <1>3, <2>2, EffectFacts
    <3> QED BY <2>2, <3>1 DEF IsEffect
  <2>4. \A n \in 1..4 : n < a + 1 => Drops[n].table \notin DOMAIN c
    <3> TAKE n \in 1..4
    <3> HAVE n < a + 1
    <3>1. n = a \/ (n < a /\ a <= 5)
      BY <1>4
    <3>2. n < a /\ a <= 5 => Drops[n].table \notin DOMAIN b
      BY DEF RunOn
    <3> QED BY <2>2, <2>3, <3>1, <3>2
  <2>5. a = 4 => c = [t \in {Creates[n].table : n \in 1..(a + 1) - 5} |-> <<>>]
    <3> HAVE a = 4
    <3>1. 1 \in 1..4 /\ 2 \in 1..4 /\ 3 \in 1..4 /\ 4 \in 1..4 /\ 1 < 5 /\ 2 < 5 /\ 3 < 5 /\ 4 < 5
      OBVIOUS
    <3>2. Drops[1].table \notin DOMAIN c /\ Drops[2].table \notin DOMAIN c /\ Drops[3].table \notin DOMAIN c /\ Drops[4].table \notin DOMAIN c
      BY <2>4, <3>1
    <3>3. Drops[1].table = "result_item" /\ Drops[2].table = "out_item" /\ Drops[3].table = "in_item" /\ Drops[4].table = "tid_sp"
      BY DEF Drops
    <3>4. DOMAIN c = {}
      <4>1. DOMAIN c \subseteq {"tid_sp", "in_item", "out_item", "result_item"}
        BY <2>3 DEF AreTables, TableNames
      <4> QED BY <3>2, <3>3, <4>1
    <3>5. (a + 1) - 5 = 0 /\ {Creates[n].table : n \in 1..0} = {}
      OBVIOUS
    <3>6. c = [t \in DOMAIN c |-> c[t]]
      BY <2>3 DEF AreTables
    <3>7. c = [t \in {} |-> <<>>]
      BY <3>4, <3>6
    <3> QED BY <3>5, <3>7
  <2>6. 5 <= a + 1 => a = 4
    BY <1>4
  <2>7. ~(9 <= a + 1)
    BY <1>4
  <2> QED BY <1>2, <2>3, <2>4, <2>5, <2>6, <2>7 DEF RunOn, N
<1>5. CASE a \in 5..8
  <2>1. a - 4 \in 1..4 /\ 4 + (a - 4) = a /\ s = Creates[a - 4]
    BY <1>1, <1>5 DEF s
  <2>2. s.do = "create" /\ s.table \in TableNames /\ Creates[a - 4].table = s.table
    BY <2>1 DEF Creates, TableNames
  <2>3. AreTables(c) /\ c = [t \in DOMAIN b \cup {s.table} |-> IF t = s.table THEN <<>> ELSE b[t]]
    <3>1. IsEffect(c, s, b)
      BY <1>3, <2>2, EffectFacts
    <3> QED BY <2>2, <3>1 DEF IsEffect
  <2>4. b = [t \in {Creates[n].table : n \in 1..a - 5} |-> <<>>]
    BY <1>5 DEF RunOn
  <2>5. {Creates[n].table : n \in 1..(a + 1) - 5} = {Creates[n].table : n \in 1..a - 5} \cup {s.table}
    <3>1. (a + 1) - 5 = a - 4 /\ a - 4 \in 1..a - 4
      BY <1>5
    <3>2. \A n \in 1..a - 4 : n = a - 4 \/ n \in 1..a - 5
      BY <1>5
    <3>3. \A n \in 1..a - 5 : n \in 1..a - 4
      BY <1>5
    <3> QED BY <2>2, <3>1, <3>2, <3>3
  <2>6. c = [t \in {Creates[n].table : n \in 1..(a + 1) - 5} |-> <<>>]
    <3> DEFINE D == {Creates[n].table : n \in 1..a - 5}
               E == {Creates[n].table : n \in 1..(a + 1) - 5}
    <3>1. b = [t \in D |-> <<>>] /\ E = D \cup {s.table}
      BY <2>4, <2>5
    <3> HIDE DEF D, E
    <3>2. c = [t \in E |-> <<>>]
      BY <2>3, <3>1
    <3> QED BY <3>2 DEF E
  <2>7. ASSUME 9 <= a + 1
        PROVE  c = Stored(d)[(a + 1) - 9] /\ \A n \in 1..(a + 1) - 9 : Inserts(d)[n].do = "insert"
    <3>1. a = 8 /\ (a + 1) - 5 = 4 /\ (a + 1) - 9 = 0
      BY <1>5, <2>7
    <3>2. {Creates[n].table : n \in 1..4} = TableNames
      <4>1. Creates[1].table = "tid_sp" /\ Creates[2].table = "in_item" /\ Creates[3].table = "out_item" /\ Creates[4].table = "result_item"
        BY DEF Creates
      <4>2. 1 \in 1..4 /\ 2 \in 1..4 /\ 3 \in 1..4 /\ 4 \in 1..4 /\ \A n \in 1..4 : n = 1 \/ n = 2 \/ n = 3 \/ n = 4
        OBVIOUS
      <4> QED BY <4>1, <4>2 DEF TableNames
    <3>3. c = [t \in TableNames |-> <<>>]
      BY <2>6, <3>1, <3>2
    <3>4. Stored(d)[0] = [t \in TableNames |-> <<>>]
      BY StoredFacts
    <3> QED BY <3>1, <3>3, <3>4
  <2>8. ~(a + 1 <= 5)
    BY <1>5
  <2> QED BY <1>2, <2>3, <2>6, <2>7, <2>8 DEF RunOn, N
<1>6. CASE a >= 9
  <2> DEFINE m == a - 8
  <2>0. a \in Nat /\ N \in Nat /\ a <= 8 + N
    BY <1>1, <1>2
  <2>1. m \in 1..N /\ 8 + m = a /\ a - 9 = m - 1 /\ (a + 1) - 9 = m /\ m \in Nat /\ m - 1 \in 0..N
    BY <1>6, <2>0
  <2>2. s = Inserts(d)[m]
    BY <1>1, <2>1 DEF s
  <2>3. b = Stored(d)[m - 1] /\ \A n \in 1..m - 1 : Inserts(d)[n].do = "insert"
    BY <1>6, <2>1 DEF RunOn
  <2> HIDE DEF m
  <2>4. s.do = "insert" /\ s.table \in TableNames
    <3>1. s.do = "throw" \/ (s.do = "insert" /\ s.table \in TableNames)
      BY <2>1, <2>2, InsertFacts DEF N
    <3>2. s.do # "throw"
      BY <1>3 DEF Executes
    <3> QED BY <3>1, <3>2
  <2>5. /\ Stored(d)[m] = WithRow(Stored(d)[m - 1], Inserts(d)[m])
        /\ Stored(d)[m - 1] = [t \in TableNames |-> Stored(d)[m - 1][t]]
    BY <2>1, StoredFacts DEF N
  <2> DEFINE old == Stored(d)[m - 1]
  <2>6. DOMAIN b = TableNames
    <3>1. b = old /\ old = [t \in TableNames |-> old[t]]
      BY <2>3, <2>5
    <3> HIDE DEF old
    <3> QED BY <3>1
  <2>7. AreTables(c) /\ DOMAIN c = DOMAIN b /\ \A t \in DOMAIN b : c[t] = IF t = s.table THEN Append(b[t], s.row) ELSE b[t]
    <3>1. IsEffect(c, s, b)
      BY <1>3, <2>4, <2>6, EffectFacts
    <3> QED BY <2>4, <3>1 DEF IsEffect
  <2>8. c = [t \in DOMAIN c |-> c[t]]
    BY <2>7 DEF AreTables
  <2>9. c = Stored(d)[m]
    <3>1. Stored(d)[m] = [t \in TableNames |-> IF t = s.table THEN Append(b[t], s.row) ELSE b[t]]
      BY <2>2, <2>3, <2>5 DEF WithRow
    <3>2. c = [t \in TableNames |-> c[t]] /\ \A t \in TableNames : c[t] = IF t = s.table THEN Append(b[t], s.row) ELSE b[t]
      BY <2>6, <2>7, <2>8
    <3>3. c = [t \in TableNames |-> IF t = s.table THEN Append(b[t], s.row) ELSE b[t]]
      BY <3>2
    <3> QED BY <3>1, <3>3
  <2>10. \A n \in 1..m : Inserts(d)[n].do = "insert"
    <3>1. \A n \in 1..m : n = m \/ n \in 1..m - 1
      BY <2>1
    <3> QED BY <2>2, <2>3, <2>4, <3>1
  <2>11. ~(a + 1 <= 5) /\ ~(a + 1 <= 9)
    BY <1>2, <1>6
  <2> QED BY <1>2, <2>1, <2>7, <2>9, <2>10, <2>11 DEF RunOn, N
<1>7. a \in 1..4 \/ a \in 5..8 \/ a >= 9
  BY <1>2
<1> QED BY <1>4, <1>5, <1>6, <1>7

\* A database that does not exist yet has no table.
LEMMA InitIInv == Init => IInv
<1> SUFFICES ASSUME Init PROVE IInv
  OBVIOUS
<1>1. AreTables(db)
  <2>1. DOMAIN Nothing = {} /\ Nothing = [t \in DOMAIN Nothing |-> Nothing[t]]
    BY DEF Nothing
  <2> QED BY <2>1 DEF Init, AreTables, KeysUnique
<1>2. Len(program) = 0
  BY DEF Init
<1> QED BY <1>1, <1>2 DEF Init, IInv, Ended

\* Every step of a run keeps it.
LEMMA NextIInv == IInv /\ [Next]_vars => IInv'
<1> SUFFICES ASSUME IInv, [Next]_vars PROVE IInv'
  OBVIOUS
<1>0. /\ AreTables(db)
      /\ pc \in Ended \cup {"running"}
      /\ Len(program) \in Nat /\ at \in 1..Len(program) + 1
      /\ pc \in {"running", "finished"} => \E d \in Docs : program = Program(d) /\ RunOn(d, db, at)
      /\ pc = "finished" => at = Len(program) + 1
  BY DEF IInv
<1>1. CASE Begin
  <2>1. at' = 1 /\ db' = db
    BY <1>1 DEF Begin
  <2>2. CASE pc' = "failed" /\ UNCHANGED program
    BY <1>0, <2>1, <2>2 DEF IInv, Ended
  <2>3. CASE pc' = "running" /\ \E d \in Docs : program' = Program(d)
    <3>1. PICK d \in Docs : program' = Program(d)
      BY <2>3
    <3>2. Len(Inserts(d)) \in Nat /\ Len(program') = 8 + Len(Inserts(d))
      BY <3>1, ProgramFacts
    <3>3. RunOn(d, db', 1)
      <4>1. 1 \in 1..9 + Len(Inserts(d)) /\ ~(5 <= 1) /\ ~(9 <= 1) /\ \A n \in 1..4 : ~(n < 1)
        BY <3>2
      <4> QED BY <4>1 DEF RunOn
    <3>4. Len(program') \in Nat /\ 1 \in 1..Len(program') + 1
      BY <3>2
    <3> QED BY <1>0, <2>1, <2>3, <3>1, <3>3, <3>4 DEF IInv
  <2> QED BY <1>1, <2>2, <2>3 DEF Begin
<1>2. CASE Execute
  <2>1. /\ pc = "running" /\ at <= Len(program) /\ Executes(program[at], db)
        /\ db' = Effect(program[at], db) /\ at' = at + 1 /\ pc' = pc /\ program' = program
    BY <1>2 DEF Execute, Running
  <2>2. PICK d \in Docs : program = Program(d) /\ RunOn(d, db, at)
    BY <1>0, <2>1
  <2>3. at \in 1..Len(Program(d)) /\ at + 1 \in 1..Len(program) + 1
    BY <1>0, <2>1, <2>2
  <2>4. AreTables(db') /\ RunOn(d, db', at + 1)
    BY <1>0, <2>1, <2>2, <2>3, RunStep
  <2>5. program' = Program(d) /\ RunOn(d, db', at')
    BY <2>1, <2>2, <2>4
  <2> QED BY <1>0, <2>1, <2>3, <2>4, <2>5 DEF IInv
<1>3. CASE Throw
  BY <1>0, <1>3 DEF Throw, IInv, Ended
<1>4. CASE Finish
  <2>1. pc' = "finished" /\ pc = "running" /\ at = Len(program) + 1 /\ db' = db /\ program' = program /\ at' = at
    BY <1>4 DEF Finish
  <2> QED BY <1>0, <2>1 DEF IInv, Ended
<1>5. CASE Killed
  BY <1>0, <1>5 DEF Killed, IInv, Ended
<1>6. CASE UNCHANGED vars
  BY <1>0, <1>6 DEF vars, IInv
<1> QED BY <1>1, <1>2, <1>3, <1>4, <1>5, <1>6 DEF Next

\* What a run has done so far is what its document says, after any runs before it
\* that finished, failed or were killed.
THEOREM FunctionInvariant == Spec => []IInv
BY InitIInv, NextIInv, PTL DEF Spec

\* The tables are the four of functionif, and no tid and no number of an item is
\* there twice.
THEOREM FunctionTypeCorrect == Spec => []TypeOK
<1>1. IInv => TypeOK
  BY DEF IInv, AreTables, KeysUnique, TypeOK
<1> QED BY <1>1, FunctionInvariant, PTL

-----------------------------------------------------------------------------
(* A run as functionif sees it.                                            *)

\* What it can open.
View == IF CanOpen THEN db ELSE Nothing

History(d) == [n \in 1..Len(Inserts(d)) + 1 |-> Stored(d)[n - 1]]

\* With the four tables it is not closed.
LEMMA NothingIsClosed ==
    ASSUME NEW b, DOMAIN b = TableNames
    PROVE  b # Nothing
<1>1. DOMAIN Nothing = {} /\ "tid_sp" \in TableNames
  BY DEF Nothing, TableNames
<1> QED BY <1>1

\* Once the tables are dropped, all four are there when the last is created.
LEMMA OpenWhen ==
    ASSUME NEW d \in Docs, NEW b, NEW a, RunOn(d, b, a), 5 <= a
    PROVE  DOMAIN b = TableNames <=> 9 <= a
<1>0. Len(Inserts(d)) \in Nat /\ a \in 1..9 + Len(Inserts(d))
  BY ProgramFacts DEF RunOn
<1>1. CASE a <= 8
  <2>1. DOMAIN b = {Creates[n].table : n \in 1..a - 5}
    BY <1>1, <1>0 DEF RunOn
  <2>2. \A n \in 1..a - 5 : n = 1 \/ n = 2 \/ n = 3
    BY <1>0, <1>1
  <2>3. Creates[1].table = "tid_sp" /\ Creates[2].table = "in_item" /\ Creates[3].table = "out_item"
    BY DEF Creates
  <2>4. "result_item" \notin DOMAIN b
    BY <2>1, <2>2, <2>3
  <2> QED BY <1>0, <1>1, <2>4 DEF TableNames
<1>2. CASE 9 <= a
  <2>1. b = Stored(d)[a - 9]
    BY <1>2 DEF RunOn
  <2>2. a - 9 \in 0..Len(Inserts(d))
    BY <1>0, <1>2
  <2>3. \A n \in 0..Len(Inserts(d)) : Stored(d)[n] = [t \in TableNames |-> Stored(d)[n][t]]
    BY StoredFacts
  <2> DEFINE v == Stored(d)[a - 9]
  <2>4. v = [t \in TableNames |-> v[t]]
    BY <2>2, <2>3
  <2> HIDE DEF v
  <2>5. DOMAIN v = TableNames
    BY <2>4
  <2> QED BY <1>2, <2>1, <2>5 DEF v
<1> QED BY <1>0, <1>1, <1>2

\* A statement closes the view, opens it, adds a row to it or leaves it alone.
LEMMA ExecuteRefines == IInv /\ Execute => View' = View \/ Reader!Next
<1> SUFFICES ASSUME IInv, Execute PROVE View' = View \/ Reader!Next
  OBVIOUS
<1>1. /\ pc = "running" /\ at <= Len(program) /\ Executes(program[at], db)
      /\ db' = Effect(program[at], db) /\ AreTables(db)
      /\ Len(program) \in Nat /\ at \in 1..Len(program) + 1
  BY DEF Execute, Running, IInv
<1>2. PICK d \in Docs : program = Program(d) /\ RunOn(d, db, at)
  BY <1>1 DEF IInv
<1>3. at \in 1..Len(Program(d))
  BY <1>1, <1>2
<1>4. RunOn(d, db', at + 1)
  BY <1>1, <1>2, <1>3, RunStep
<1> DEFINE N == Len(Inserts(d))
<1>5. N \in Nat /\ at \in 1..8 + N
  BY <1>3, ProgramFacts
<1>6. CanOpen <=> DOMAIN db = TableNames
  BY DEF CanOpen
<1>7. CanOpen' <=> DOMAIN db' = TableNames
  BY DEF CanOpen
<1>8. CASE at <= 4
  <2>1. at \in 1..4 /\ at < at + 1 /\ at + 1 <= 5
    BY <1>5, <1>8
  <2>2. Drops[at].table \notin DOMAIN db'
    BY <1>4, <2>1 DEF RunOn
  <2>3. Drops[at].table \in TableNames
    BY <2>1 DEF Drops, TableNames
  <2>4. View' = Nothing
    BY <1>7, <2>2, <2>3 DEF View
  <2>5. CASE CanOpen
    <3>1. View = db /\ View # Nothing
      BY <1>6, <2>5, NothingIsClosed DEF View
    <3>2. Reader!Close
      BY <2>4, <3>1 DEF Reader!Close, View
    <3> QED BY <3>2 DEF Reader!Next
  <2>6. CASE ~CanOpen
    BY <2>4, <2>6 DEF View
  <2> QED BY <2>5, <2>6
<1>9. CASE 5 <= at /\ at <= 7
  <2>1. ~CanOpen
    BY <1>2, <1>5, <1>6, <1>9, OpenWhen
  <2>2. ~CanOpen'
    BY <1>4, <1>5, <1>7, <1>9, OpenWhen
  <2> QED BY <2>1, <2>2 DEF View
<1>10. CASE at = 8
  <2>1. ~CanOpen /\ View = Nothing
    BY <1>2, <1>5, <1>6, <1>10, OpenWhen DEF View
  <2>2. DOMAIN db' = TableNames
    BY <1>4, <1>5, <1>10, OpenWhen
  <2>3. CanOpen' /\ View' = db' /\ View' # Nothing
    BY <1>7, <2>2, NothingIsClosed DEF View
  <2>4. db' = Stored(d)[0]
    BY <1>4, <1>10 DEF RunOn
  <2>5. History(d)[1] = Stored(d)[0]
    BY <1>5 DEF History
  <2>6. Reader!Open
    <3>1. History(d) \in {History(e) : e \in Docs}
      OBVIOUS
    <3>2. {History(e) : e \in Docs} = {[n \in 1..Len(Inserts(e)) + 1 |-> Stored(e)[n - 1]] : e \in Docs}
      BY DEF History
    <3> QED BY <2>1, <2>3, <2>4, <2>5, <3>1, <3>2 DEF Reader!Open, View
  <2> QED BY <2>6 DEF Reader!Next
<1>11. CASE 9 <= at
  <2> DEFINE m == at - 8
  <2>1. m \in 1..N /\ m \in 1..N + 1 /\ m + 1 \in 1..N + 1 /\ m - 1 = at - 9 /\ (m + 1) - 1 = (at + 1) - 9 /\ 9 <= at + 1 /\ 5 <= at /\ 5 <= at + 1
    BY <1>5, <1>11
  <2>2. db = Stored(d)[m - 1] /\ db' = Stored(d)[(m + 1) - 1]
    BY <1>2, <1>4, <1>11, <2>1 DEF RunOn
  <2> HIDE DEF m
  <2>3. DOMAIN db = TableNames /\ DOMAIN db' = TableNames
    BY <1>2, <1>4, <1>11, <2>1, OpenWhen
  <2>4. View = db /\ View' = db' /\ View # Nothing /\ View' # Nothing
    BY <1>6, <1>7, <2>3, NothingIsClosed DEF View
  <2>5. History(d)[m] = Stored(d)[m - 1] /\ History(d)[m + 1] = Stored(d)[(m + 1) - 1] /\ Len(History(d)) = N + 1
    <3>1. History(d)[m] = Stored(d)[m - 1] /\ History(d)[m + 1] = Stored(d)[(m + 1) - 1]
      BY <2>1 DEF History
    <3>2. History(d) = [n \in 1..N + 1 |-> History(d)[n]]
      BY DEF History
    <3>3. Len(History(d)) = N + 1
      BY <1>5, <3>2, ListOf
    <3> QED BY <3>1, <3>3
  <2>6. m \in 1..Len(History(d)) - 1
    BY <1>5, <2>1, <2>5
  <2>7. Reader!Add
    <3>1. History(d) \in {History(e) : e \in Docs}
      OBVIOUS
    <3>2. {History(e) : e \in Docs} = {[n \in 1..Len(Inserts(e)) + 1 |-> Stored(e)[n - 1]] : e \in Docs}
      BY DEF History
    <3>3. View = History(d)[m] /\ View' = History(d)[m + 1]
      BY <2>2, <2>4, <2>5
    <3> QED BY <2>4, <2>6, <3>1, <3>2, <3>3 DEF Reader!Add, View
  <2> QED BY <2>7 DEF Reader!Next
<1> QED BY <1>5, <1>8, <1>9, <1>10, <1>11

\* What functionif can open is always part of one document, and a document is
\* replaced as a whole, whenever runs fail or are killed.
THEOREM FunctionRefinesDictionary == Spec => ReaderSeesOneDocument
<1>1. Init => Reader!Init
  <2> SUFFICES ASSUME Init PROVE (IF CanOpen THEN db ELSE Nothing) = Nothing
    BY DEF Reader!Init
  <2> QED BY DEF Init
<1>2. IInv /\ [Next]_vars => [Reader!Next]_View
  <2> SUFFICES ASSUME IInv, [Next]_vars PROVE View' = View \/ Reader!Next
    OBVIOUS
  <2>1. CASE UNCHANGED db
    BY <2>1 DEF View, CanOpen
  <2>2. CASE Execute
    BY <2>2, ExecuteRefines
  <2> QED BY <2>1, <2>2 DEF Next, Begin, Throw, Finish, Killed, vars
<1>3. IInv /\ [Next]_vars => [Reader!Next]_(IF CanOpen THEN db ELSE Nothing)
  BY <1>2 DEF View
<1> QED BY <1>1, <1>3, FunctionInvariant, PTL DEF Spec, ReaderSeesOneDocument, Reader!Spec

-----------------------------------------------------------------------------
(* What a run that finished has stored.                                    *)

\* No statement of d is an exception.
Whole(d) == \A n \in 1..Len(Inserts(d)) : Inserts(d)[n].do = "insert"

\* The statements q of a node without an exception.
IsWholeNode(q, node) ==
    /\ 1 \in 1..Len(q) /\ q[1] = TidInsert(node)
    /\ \A j \in 1..Len(q) : j # 1 => \E t \in SectionNames : IsItemInsert(q[j], node, t)
    /\ \A t \in SectionNames : \A n \in 1..Len(node.items[t]) : \E j \in 1..Len(q) : q[j] = ItemInsert(node, t, n)

\* Then all nodes are that way.
LEMMA WholeNodes ==
    ASSUME NEW d \in Docs, Whole(d), NEW k \in 1..Len(d)
    PROVE  /\ IsWholeNode(NodeStatements(d[k]), d[k])
           /\ \A t \in SectionNames : IsList(d[k].items[t])
<1> DEFINE q == NodeStatements(d[k])
<1>1. \A j \in 1..Len(q) : q[j] # Throws
  <2> TAKE j \in 1..Len(q)
  <2>1. /\ Before(d, k - 1) \in Nat /\ Before(d, k) <= Len(Inserts(d)) /\ Before(d, k) = Before(d, k - 1) + Len(q)
        /\ Len(q) \in Nat /\ Len(Inserts(d)) \in Nat /\ Inserts(d)[Before(d, k - 1) + j] = q[j]
    <3>1. k \in 0..Len(d) /\ k - 1 \in 0..Len(d) /\ Len(d) \in Nat
      BY Located
    <3> QED BY <3>1, Located, ProgramFacts
  <2>2. Before(d, k - 1) + j \in 1..Len(Inserts(d))
    BY <2>1
  <2>3. q[j].do = "insert"
    BY <2>1, <2>2 DEF Whole
  <2>4. Throws.do = "throw"
    BY DEF Throws
  <2> QED BY <2>3, <2>4
<1>2. IsNode(q, d[k])
  BY NodeFacts
<1> HIDE DEF q
<1>3. \A t \in SectionNames : t \in DOMAIN d[k].items
  BY <1>1, <1>2 DEF IsNode
<1>4. IsWholeNode(q, d[k])
  BY <1>1, <1>2 DEF IsNode, IsWholeNode
<1>5. \A t \in SectionNames : IsList(d[k].items[t])
  BY <1>3, NodeAssumption
<1> QED BY <1>4, <1>5 DEF q

\* The rows of table t are those of the inserts into it.
RowsAreInserts(d, n, t) ==
    /\ \A m \in 1..Len(Stored(d)[n][t]) : \E k \in 1..n :
          Inserts(d)[k].table = t /\ Stored(d)[n][t][m] = Inserts(d)[k].row
    /\ \A k \in 1..n : Inserts(d)[k].table = t =>
          \E m \in 1..Len(Stored(d)[n][t]) : Stored(d)[n][t][m] = Inserts(d)[k].row

\* After any number of them.
LEMMA StoredRows ==
    ASSUME NEW d \in Docs, NEW t \in TableNames
    PROVE  \A n \in 0..Len(Inserts(d)) : RowsAreInserts(d, n, t)
<1> DEFINE N == Len(Inserts(d))
           T == {n \in 0..N : RowsAreInserts(d, n, t)}
<1>0. N \in Nat
  BY ProgramFacts
<1>1. 0 \in T
  <2>1. Len(Stored(d)[0][t]) = 0
    BY StoredFacts
  <2> QED BY <1>0, <2>1 DEF RowsAreInserts
<1>2. \A n \in 0..N : n \in T /\ n < N => n + 1 \in T
  <2> TAKE n \in 0..N
  <2> HAVE n \in T /\ n < N
  <2> DEFINE s == Inserts(d)[n + 1]
             v == Stored(d)[n][t]
             w == Stored(d)[n + 1][t]
  <2>1. n + 1 \in 1..N /\ n + 1 \in 0..N /\ (n + 1) - 1 = n /\ n + 1 \in 1..n + 1
    BY <1>0
  <2>2. IsList(v) /\ w = IF t = s.table THEN Append(v, s.row) ELSE v
    <3>1. Stored(d)[n + 1] = WithRow(Stored(d)[n], s)
      BY <2>1, StoredFacts
    <3>2. IsList(v)
      BY StoredFacts
    <3> QED BY <3>1, <3>2 DEF WithRow
  <2>3. /\ \A m \in 1..Len(v) : \E k \in 1..n : Inserts(d)[k].table = t /\ v[m] = Inserts(d)[k].row
        /\ \A k \in 1..n : Inserts(d)[k].table = t => \E m \in 1..Len(v) : v[m] = Inserts(d)[k].row
    BY DEF RowsAreInserts
  <2>4. \A k \in 1..n + 1 : k \in 1..n \/ k = n + 1
    BY <1>0
  <2>5. \A k \in 1..n : k \in 1..n + 1
    BY <1>0
  <2> HIDE DEF v, w, N, T
  <2>6. /\ \A m \in 1..Len(w) : \E k \in 1..n + 1 : Inserts(d)[k].table = t /\ w[m] = Inserts(d)[k].row
        /\ \A k \in 1..n + 1 : Inserts(d)[k].table = t => \E m \in 1..Len(w) : w[m] = Inserts(d)[k].row
    <3>1. CASE t # s.table
      BY <2>1, <2>2, <2>3, <2>4, <2>5, <3>1
    <3>2. CASE t = s.table
      <4>1. w = Append(v, s.row)
        BY <2>2, <3>2
      <4>2. /\ Len(v) \in Nat /\ Len(w) = Len(v) + 1 /\ w[Len(v) + 1] = s.row
            /\ \A m \in 1..Len(v) : w[m] = v[m]
        BY <2>2, <4>1, ListAppend, ListFacts
      <4>3. \A m \in 1..Len(w) : m \in 1..Len(v) \/ m = Len(v) + 1
        BY <4>2
      <4>4. Len(v) + 1 \in 1..Len(w) /\ \A m \in 1..Len(v) : m \in 1..Len(w)
        BY <4>2
      <4>5. \A m \in 1..Len(w) : \E k \in 1..n + 1 : Inserts(d)[k].table = t /\ w[m] = Inserts(d)[k].row
        <5> TAKE m \in 1..Len(w)
        <5>1. CASE m \in 1..Len(v)
          <6>1. PICK k \in 1..n : Inserts(d)[k].table = t /\ v[m] = Inserts(d)[k].row
            BY <2>3, <5>1
          <6> QED BY <2>5, <4>2, <5>1, <6>1
        <5>2. CASE m = Len(v) + 1
          BY <2>1, <3>2, <4>2, <5>2
        <5> QED BY <4>3, <5>1, <5>2
      <4>6. ASSUME NEW k \in 1..n + 1, Inserts(d)[k].table = t
            PROVE  \E m \in 1..Len(w) : w[m] = Inserts(d)[k].row
        <5>1. CASE k \in 1..n
          <6>1. PICK m \in 1..Len(v) : v[m] = Inserts(d)[k].row
            BY <2>3, <4>6, <5>1
          <6> QED BY <4>2, <4>4, <6>1
        <5>2. CASE k = n + 1
          BY <4>2, <4>4, <5>2
        <5> QED BY <2>4, <5>1, <5>2
      <4> QED BY <4>5, <4>6
    <3> QED BY <3>1, <3>2
  <2>7. RowsAreInserts(d, n + 1, t)
    BY <2>6 DEF RowsAreInserts, w
  <2> QED BY <2>1, <2>7 DEF T, N
<1> HIDE DEF T
<1>3. \A n \in 0..N : n \in T
  BY <1>0, <1>1, <1>2, BoundedInduction
<1> QED BY <1>3 DEF T

\* The first k rows of tid_sp.
TidRows(d, k) == [l \in 1..k |-> <<d[l].name, d[l].sp>>]

\* tid_sp has a row for each node.
LEMMA TidsStored ==
    ASSUME NEW d \in Docs, Whole(d)
    PROVE  Stored(d)[Len(Inserts(d))]["tid_sp"] = TidRows(d, Len(d))
<1> DEFINE N == Len(Inserts(d))
           B(k) == Before(d, k)
           q(k) == NodeStatements(d[k])
           v(n) == Stored(d)[n]["tid_sp"]
           In(n, k) == n <= B(k) /\ (k = 0 \/ B(k - 1) < n)
           T == {n \in 0..N : \A k \in 0..Len(d) : In(n, k) => v(n) = TidRows(d, k)}
<1>0. N \in Nat
  BY ProgramFacts
<1>1. /\ Len(d) \in Nat /\ B(0) = 0 /\ B(Len(d)) = N
      /\ \A k \in 0..Len(d) : B(k) \in Nat
      /\ \A k \in 1..Len(d) :
            /\ Len(q(k)) \in Nat /\ B(k) = B(k - 1) + Len(q(k))
            /\ \A j \in 1..Len(q(k)) : Inserts(d)[B(k - 1) + j] = q(k)[j]
  BY Located
<1>2. \A k \in 1..Len(d) : IsWholeNode(q(k), d[k])
  BY WholeNodes
<1>3. \A k \in 1..Len(d) : 1 \in 1..Len(q(k)) /\ B(k - 1) < B(k) /\ B(k - 1) \in Nat
  <2> TAKE k \in 1..Len(d)
  <2>1. 1 \in 1..Len(q(k))
    BY <1>2 DEF IsWholeNode
  <2>2. k - 1 \in 0..Len(d) /\ k \in 0..Len(d)
    BY <1>1
  <2>3. B(k) = B(k - 1) + Len(q(k)) /\ Len(q(k)) \in Nat /\ B(k - 1) \in Nat
    BY <1>1, <2>2
  <2> HIDE DEF B, q
  <2> QED BY <2>1, <2>3
<1>4. "tid_sp" \in TableNames
  BY DEF TableNames
<1>5. v(0) = <<>> /\ \A n \in 0..N : IsList(v(n))
  BY <1>4, StoredFacts
<1>6. \A n \in 1..N : v(n) = IF Inserts(d)[n].table = "tid_sp" THEN Append(v(n - 1), Inserts(d)[n].row) ELSE v(n - 1)
  <2> TAKE n \in 1..N
  <2>1. Stored(d)[n] = WithRow(Stored(d)[n - 1], Inserts(d)[n])
    BY StoredFacts
  <2> QED BY <1>4, <2>1 DEF WithRow
<1> HIDE DEF N, B, q, v
<1>7. 0 \in T
  <2>1. ASSUME NEW k \in 0..Len(d), In(0, k) PROVE v(0) = TidRows(d, k)
    <3>1. k = 0
      <4>1. CASE k # 0
        <5>1. k \in 1..Len(d)
          BY <4>1, <1>1
        <5>2. B(k - 1) \in Nat /\ B(k - 1) < 0
          BY <1>3, <2>1, <4>1, <5>1
        <5> QED BY <5>2
      <4> QED BY <4>1
    <3>2. TidRows(d, 0) = <<>>
      BY DEF TidRows
    <3> QED BY <1>5, <3>1, <3>2
  <2> QED BY <1>0, <2>1
<1>8. ASSUME NEW n \in 0..N, n \in T, n < N PROVE n + 1 \in T
  <2>1. n + 1 \in 1..N /\ n + 1 \in 0..N /\ (n + 1) - 1 = n /\ n \in Nat
    BY <1>0, <1>8
  <2>2. ASSUME NEW k \in 0..Len(d), In(n + 1, k) PROVE v(n + 1) = TidRows(d, k)
    <3>1. k # 0 /\ k \in 1..Len(d) /\ k - 1 \in 0..Len(d)
      BY <1>1, <2>1, <2>2
    <3>2. B(k - 1) < n + 1 /\ n + 1 <= B(k)
      BY <2>2, <3>1
    <3> DEFINE j == (n + 1) - B(k - 1)
    <3>3. j \in 1..Len(q(k)) /\ n + 1 = B(k - 1) + j /\ B(k - 1) \in Nat
      <4>1. B(k) = B(k - 1) + Len(q(k)) /\ Len(q(k)) \in Nat /\ B(k - 1) \in Nat
        BY <1>1, <3>1
      <4> QED BY <2>1, <3>2, <4>1
    <3> HIDE DEF j
    <3>4. Inserts(d)[n + 1] = q(k)[j]
      BY <1>1, <3>1, <3>3
    <3>5. CASE j = 1
      <4>1. q(k)[j] = TidInsert(d[k])
        BY <1>2, <3>1, <3>5 DEF IsWholeNode
      <4>2. v(n + 1) = Append(v(n), <<d[k].name, d[k].sp>>)
        BY <1>6, <2>1, <3>4, <4>1 DEF TidInsert
      <4>3. In(n, k - 1)
        <5>1. n = B(k - 1)
          BY <2>1, <3>3, <3>5
        <5>2. CASE k = 1
          BY <5>1, <5>2, <3>3
        <5>3. CASE k # 1
          <6>1. k - 1 \in 1..Len(d)
            BY <3>1, <5>3
          <6>2. B((k - 1) - 1) < B(k - 1)
            BY <1>3, <6>1
          <6> QED BY <5>1, <6>2, <3>3
        <5> QED BY <5>2, <5>3
      <4>4. v(n) = TidRows(d, k - 1) /\ k - 1 \in Nat
        BY <1>8, <3>1, <4>3
      <4> DEFINE x == v(n)
                 y == Append(x, <<d[k].name, d[k].sp>>)
      <4>5. IsList(x) /\ Len(x) = k - 1 /\ \A l \in 1..k - 1 : x[l] = <<d[l].name, d[l].sp>>
        <5>1. x = [l \in 1..k - 1 |-> x[l]] /\ \A l \in 1..k - 1 : x[l] = <<d[l].name, d[l].sp>>
          BY <4>4 DEF TidRows
        <5> HIDE DEF x
        <5> QED BY <4>4, <5>1, ListOf
      <4> HIDE DEF x
      <4>6. IsList(y) /\ Len(y) = k /\ y[k] = <<d[k].name, d[k].sp>> /\ \A l \in 1..k - 1 : y[l] = x[l]
        <5>1. Len(x) + 1 = k
          BY <4>4, <4>5
        <5> QED BY <4>5, <5>1, ListAppend
      <4> HIDE DEF y
      <4>7. \A l \in 1..k : y[l] = <<d[l].name, d[l].sp>>
        <5>1. \A l \in 1..k : l = k \/ l \in 1..k - 1
          BY <3>1
        <5> QED BY <4>5, <4>6, <5>1
      <4>8. y = [l \in 1..k |-> y[l]]
        BY <4>6, ListFacts
      <4>9. y = TidRows(d, k)
        BY <4>7, <4>8 DEF TidRows
      <4> QED BY <4>2, <4>9 DEF x, y
    <3>6. CASE j # 1
      <4>1. PICK t \in SectionNames : IsItemInsert(q(k)[j], d[k], t)
        BY <1>2, <3>1, <3>3, <3>6 DEF IsWholeNode
      <4>2. Inserts(d)[n + 1].table = t /\ t # "tid_sp"
        BY <3>4, <4>1 DEF IsItemInsert, ItemInsert, SectionNames
      <4>3. v(n + 1) = v(n)
        BY <1>6, <2>1, <4>2
      <4>4. In(n, k)
        <5>1. j \in Nat /\ j >= 2 /\ B(k) \in Nat
          BY <1>1, <3>1, <3>3, <3>6
        <5> QED BY <2>1, <3>2, <3>3, <5>1
      <4> QED BY <1>8, <4>3, <4>4
    <3> QED BY <3>5, <3>6
  <2> QED BY <2>1, <2>2
<1> HIDE DEF T
<1>9. N \in T
  <2>1. \A n \in 0..N : n \in T
    BY <1>0, <1>7, <1>8, BoundedInduction
  <2> QED BY <1>0, <2>1
<1>10. In(N, Len(d)) /\ Len(d) \in 0..Len(d)
  <2>1. Len(d) # 0 => Len(d) \in 1..Len(d)
    BY <1>1
  <2>2. Len(d) # 0 => B(Len(d) - 1) < B(Len(d))
    BY <1>3, <2>1
  <2> QED BY <1>0, <1>1, <2>2
<1> QED BY <1>9, <1>10 DEF T, v, N

\* The rows of node k in the table of section t of b: its items, numbered.
HoldsItems(b, d, k, t) ==
    LET rows == {m \in 1..Len(b[t]) : b[t][m][1] = d[k].name}
        items == d[k].items[t] IN
    /\ Cardinality(rows) = Len(items)
    /\ \A n \in 1..Len(items) : \E m \in rows : b[t][m] = <<d[k].name, n, items[n]>>

\* No two nodes of d have one name.
NamesDiffer(d) == \A k, l \in 1..Len(d) : d[k].name = d[l].name => k = l

\* An insert into the table of a section is one of an item of a node.
LEMMA SectionInsert ==
    ASSUME NEW d \in Docs, Whole(d), NEW t \in SectionNames,
           NEW m \in 1..Len(Inserts(d)), Inserts(d)[m].table = t
    PROVE  \E k \in 1..Len(d) : \E n \in 1..Len(d[k].items[t]) :
              Inserts(d)[m].row = <<d[k].name, n, d[k].items[t][n]>>
<1>1. PICK k \in 1..Len(d) : \E j \in 1..Len(NodeStatements(d[k])) : Inserts(d)[m] = NodeStatements(d[k])[j]
  <2>1. PICK k \in 1..Len(d) : \E j \in 1..Len(NodeStatements(d[k])) :
              m = Before(d, k - 1) + j /\ Inserts(d)[m] = NodeStatements(d[k])[j]
    BY EachOfANode
  <2> QED BY <2>1
<1> PICK j \in 1..Len(NodeStatements(d[k])) : Inserts(d)[m] = NodeStatements(d[k])[j]
  BY <1>1
<1>2. IsWholeNode(NodeStatements(d[k]), d[k])
  BY WholeNodes
<1>3. j # 1
  <2>1. TidInsert(d[k]).table = "tid_sp" /\ t # "tid_sp"
    BY DEF TidInsert, SectionNames
  <2> QED BY <1>1, <1>2, <2>1 DEF IsWholeNode
<1>4. PICK u \in SectionNames : IsItemInsert(Inserts(d)[m], d[k], u)
  BY <1>1, <1>2, <1>3 DEF IsWholeNode
<1>5. PICK n \in 1..Len(d[k].items[u]) : Inserts(d)[m] = ItemInsert(d[k], u, n)
  BY <1>4 DEF IsItemInsert
<1>6. u = t /\ Inserts(d)[m].row = <<d[k].name, n, d[k].items[t][n]>>
  BY <1>5 DEF ItemInsert
<1> QED BY <1>5, <1>6

\* An item of a node is inserted.
LEMMA ItemInserted ==
    ASSUME NEW d \in Docs, Whole(d), NEW t \in SectionNames,
           NEW k \in 1..Len(d), NEW n \in 1..Len(d[k].items[t])
    PROVE  \E m \in 1..Len(Inserts(d)) :
              Inserts(d)[m].table = t /\ Inserts(d)[m].row = <<d[k].name, n, d[k].items[t][n]>>
<1> DEFINE q == NodeStatements(d[k])
<1>1. PICK j \in 1..Len(q) : q[j] = ItemInsert(d[k], t, n)
  BY WholeNodes DEF IsWholeNode
<1>2. /\ Before(d, k - 1) \in Nat /\ Before(d, k) <= Len(Inserts(d)) /\ Before(d, k) = Before(d, k - 1) + Len(q)
      /\ Len(q) \in Nat /\ Len(Inserts(d)) \in Nat /\ Inserts(d)[Before(d, k - 1) + j] = q[j]
  <2>1. k \in 0..Len(d) /\ k - 1 \in 0..Len(d) /\ Len(d) \in Nat
    BY Located
  <2> QED BY <2>1, Located, ProgramFacts
<1> HIDE DEF q
<1>3. Before(d, k - 1) + j \in 1..Len(Inserts(d))
  BY <1>2
<1>4. q[j].table = t /\ q[j].row = <<d[k].name, n, d[k].items[t][n]>>
  BY <1>1 DEF ItemInsert
<1> QED BY <1>2, <1>3, <1>4

\* The items of a node are stored, and nothing else under its name.
LEMMA ItemsStored ==
    ASSUME NEW d \in Docs, Whole(d), NamesDiffer(d), NEW b, b = Stored(d)[Len(Inserts(d))], KeysUnique(b),
           NEW k \in 1..Len(d), NEW t \in SectionNames
    PROVE  HoldsItems(b, d, k, t)
<1> DEFINE N == Len(Inserts(d))
           name == d[k].name
           items == d[k].items[t]
           rows == {m \in 1..Len(b[t]) : b[t][m][1] = name}
           Row(n) == <<name, n, items[n]>>
<1>0. N \in Nat /\ t \in TableNames /\ t # "tid_sp"
  BY ProgramFacts DEF SectionNames, TableNames
<1>1. IsList(items) /\ Len(items) \in Nat
  BY WholeNodes, ListFacts
<1>2. t \in DOMAIN b /\ Len(b[t]) \in Nat
  <2>1. N \in 0..N
    BY <1>0
  <2>2. b = [u \in TableNames |-> b[u]] /\ \A u \in TableNames : IsList(b[u])
    BY <2>1, StoredFacts
  <2>3. IsList(b[t])
    BY <1>0, <2>2
  <2>4. DOMAIN b = TableNames
    BY <2>2
  <2> QED BY <1>0, <2>3, <2>4, ListFacts
<1>3. RowsAreInserts(d, N, t)
  <2>1. N \in 0..N
    BY <1>0
  <2> QED BY <1>0, <2>1, StoredRows
<1>4. ASSUME NEW n \in 1..Len(items) PROVE \E m \in rows : b[t][m] = Row(n)
  <2>1. PICK i \in 1..N : Inserts(d)[i].table = t /\ Inserts(d)[i].row = <<d[k].name, n, d[k].items[t][n]>>
    BY ItemInserted
  <2>2. PICK m \in 1..Len(b[t]) : b[t][m] = Inserts(d)[i].row
    BY <1>3, <2>1 DEF RowsAreInserts
  <2>3. b[t][m] = Row(n)
    BY <2>1, <2>2
  <2>4. b[t][m][1] = name
    BY <2>3
  <2> QED BY <2>3, <2>4
<1>5. ASSUME NEW m \in rows PROVE \E n \in 1..Len(items) : b[t][m] = Row(n)
  <2>1. PICK i \in 1..N : Inserts(d)[i].table = t /\ b[t][m] = Inserts(d)[i].row
    BY <1>3 DEF RowsAreInserts
  <2> PICK l \in 1..Len(d) : \E n \in 1..Len(d[l].items[t]) : Inserts(d)[i].row = <<d[l].name, n, d[l].items[t][n]>>
    BY <2>1, SectionInsert
  <2>2. PICK n \in 1..Len(d[l].items[t]) : Inserts(d)[i].row = <<d[l].name, n, d[l].items[t][n]>>
    OBVIOUS
  <2>3. d[l].name = name
    <3>1. b[t][m][1] = d[l].name
      BY <2>1, <2>2
    <3> QED BY <3>1
  <2>4. l = k
    BY <2>3 DEF NamesDiffer
  <2> QED BY <2>1, <2>2, <2>4
<1>6. ASSUME NEW m \in rows, NEW n \in rows, b[t][m] = b[t][n] PROVE m = n
  BY <1>2, <1>6 DEF KeysUnique
<1> DEFINE f == [n \in 1..Len(items) |-> CHOOSE m \in rows : b[t][m] = Row(n)]
<1>7. \A n \in 1..Len(items) : f[n] \in rows /\ b[t][f[n]] = Row(n)
  <2> TAKE n \in 1..Len(items)
  <2>1. f[n] = CHOOSE m \in rows : b[t][m] = Row(n)
    OBVIOUS
  <2> HIDE DEF f, rows, Row
  <2> QED BY <1>4, <2>1
<1>8. f \in Bijection(1..Len(items), rows)
  <2>1. \A n \in 1..Len(items) : Row(n)[2] = n
    OBVIOUS
  <2>2. f \in [1..Len(items) -> rows]
    <3> HIDE DEF rows, Row, items
    <3>1. f = [n \in 1..Len(items) |-> f[n]]
      OBVIOUS
    <3> HIDE DEF f
    <3> QED BY <1>7, <3>1
  <2> HIDE DEF f, rows, Row, items
  <2>3. \A m, n \in 1..Len(items) : f[m] = f[n] => m = n
    <3> TAKE m, n \in 1..Len(items)
    <3> HAVE f[m] = f[n]
    <3>1. Row(m) = Row(n)
      BY <1>7
    <3> QED BY <2>1, <3>1
  <2>4. \A m \in rows : \E n \in 1..Len(items) : f[n] = m
    <3> TAKE m \in rows
    <3>1. PICK n \in 1..Len(items) : b[t][m] = Row(n)
      BY <1>5
    <3>2. f[n] \in rows /\ b[t][f[n]] = Row(n)
      BY <1>7
    <3>3. f[n] = m
      BY <1>6, <3>1, <3>2
    <3> QED BY <3>3
  <2>5. f \in Injection(1..Len(items), rows)
    BY <2>2, <2>3 DEF Injection, IsInjective
  <2>6. f \in Surjection(1..Len(items), rows)
    BY <2>2, <2>4 DEF Surjection
  <2> QED BY <2>5, <2>6 DEF Bijection
<1>9. Cardinality(rows) = Len(items)
  <2> HIDE DEF f, rows, items
  <2> DEFINE L == Len(items)
  <2>1. L \in Int /\ 1 \in Int /\ (IF 1 > L THEN 0 ELSE L - 1 + 1) = L
    BY <1>1
  <2> HIDE DEF L
  <2>2. IsFiniteSet(1..L) /\ Cardinality(1..L) = L
    <3>1. IsFiniteSet(1..L) /\ Cardinality(1..L) = IF 1 > L THEN 0 ELSE L - 1 + 1
      BY <2>1, FS_Interval
    <3> QED BY <2>1, <3>1
  <2>3. ExistsBijection(1..L, rows)
    BY <1>8 DEF ExistsBijection, L
  <2> QED BY <2>2, <2>3, FS_Bijection DEF L
<1> QED BY <1>4, <1>9 DEF HoldsItems

\* A run that finishes leaves exactly its document, for all documents, after any
\* history of runs that failed or were killed: a key that was there before would
\* have made an insert fail.
THEOREM FunctionFinishedExact == Spec => []FinishedExact
<1>1. IInv => FinishedExact
  <2> SUFFICES ASSUME IInv, pc = "finished" PROVE FinishedExact
    BY DEF FinishedExact
  <2>1. PICK d \in Docs : program = Program(d) /\ RunOn(d, db, at)
    BY DEF IInv
  <2> DEFINE N == Len(Inserts(d))
  <2>2. at = 9 + N /\ N \in Nat
    BY <2>1, ProgramFacts DEF IInv
  <2> HIDE DEF N
  <2>3. 9 <= at /\ 5 <= at /\ at - 9 = N
    BY <2>2
  <2>4. db = Stored(d)[N] /\ Whole(d)
    BY <2>1, <2>3 DEF RunOn, Whole, N
  <2>5. CanOpen
    BY <2>1, <2>3, OpenWhen DEF CanOpen
  <2>6. KeysUnique(db)
    BY DEF IInv, AreTables
  <2>7. Len(d) \in Nat /\ db["tid_sp"] = TidRows(d, Len(d))
    BY <2>4, Located, TidsStored DEF N
  <2>8. Len(db["tid_sp"]) = Len(d) /\ \A k \in 1..Len(d) : db["tid_sp"][k] = <<d[k].name, d[k].sp>>
    <3> DEFINE v == db["tid_sp"]
    <3>1. v = [k \in 1..Len(d) |-> v[k]] /\ \A k \in 1..Len(d) : v[k] = <<d[k].name, d[k].sp>>
      BY <2>7 DEF TidRows
    <3> HIDE DEF v
    <3> QED BY <2>7, <3>1, ListOf DEF v
  <2>9. NamesDiffer(d)
    <3>1. \A m, n \in 1..Len(db["tid_sp"]) :
             Key("tid_sp", db["tid_sp"][m]) = Key("tid_sp", db["tid_sp"][n]) => m = n
      BY <2>5, <2>6 DEF KeysUnique, CanOpen, TableNames
    <3>2. \A k \in 1..Len(d) : Key("tid_sp", db["tid_sp"][k]) = <<d[k].name>>
      BY <2>8 DEF Key
    <3> QED BY <2>8, <3>1, <3>2 DEF NamesDiffer
  <2>10. \A k \in 1..Len(d) : \A t \in SectionNames : HoldsItems(db, d, k, t)
    BY <2>4, <2>6, <2>9, ItemsStored DEF N
  <2>11. \A s \in 1..Len(Sections) : Sections[s] \in SectionNames
    BY DEF Sections, SectionNames
  <2>12. ASSUME NEW k \in 1..Len(d), NEW s \in 1..Len(Sections)
         PROVE  LET t == Sections[s]
                    items == d[k].items[t] IN
                /\ Cardinality(RowsOf(t, d[k].name)) = Len(items)
                /\ \A n \in 1..Len(items) : \E m \in RowsOf(t, d[k].name) : db[t][m] = <<d[k].name, n, items[n]>>
    <3>1. HoldsItems(db, d, k, Sections[s])
      BY <2>10, <2>11
    <3> QED BY <3>1 DEF HoldsItems, RowsOf
  <2> QED BY <2>1, <2>5, <2>8, <2>12 DEF FinishedExact
<1> QED BY <1>1, FunctionInvariant, PTL
=============================================================================
