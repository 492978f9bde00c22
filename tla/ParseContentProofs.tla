------------------------- MODULE ParseContentProofs -------------------------
(***************************************************************************)
(* Proofs about ParseContent.  The inductive invariant counts: a fid was   *)
(* seen as often as it is among the fields parsed so far, its field occurs *)
(* as often in the variable, and each occurrence is one of those fields.   *)
(***************************************************************************)
EXTENDS ParseContent, LoopLemmas, FiniteSetTheorems

-----------------------------------------------------------------------------
(* Memory.                                                                 *)

\* The buffer is a finite sequence of cells.
LEMMA Content ==
    ASSUME request \in Requests
    PROVE  /\ request.field_count \in Nat /\ request.content \in Seq(Int)
           /\ Len(request.content) \in Nat
           /\ \A i \in 1..Len(request.content) : request.content[i] \in Int
<1>1. request.field_count \in Nat /\ request.content \in Seq(Int)
  BY ProtocolAssumption
<1> QED BY <1>1, LenProperties, ElementOfSeq

\* Wherever the walk is, it is a number of cells.
LEMMA WalkIsNumber ==
    ASSUME request \in Requests, NEW n \in Nat
    PROVE  get_field(n) \in Int
<1> DEFINE turn(w) == IF Held(w) THEN w + FieldHeader + field_length(w) ELSE w
           g == [k \in 1..n |-> [w \in Int |-> turn(w)]]
           Body(h) == [k \in 0..n |->
               IF k = 0 THEN 0
               ELSE IF Held(h[k - 1]) THEN h[k - 1] + FieldHeader + field_length(h[k - 1])
               ELSE h[k - 1]]
           walk == CHOOSE h : h = Body(h)
<1>1. \A w \in Int : turn(w) \in Int
  BY Content DEF Held, FieldHeader, field_length
<1>2. get_field(n) = walk[n]
  BY Zenon DEF get_field
<1>3. \A h : Body(h) = [k \in 0..n |-> IF k = 0 THEN 0 ELSE turn(h[k - 1])]
  OBVIOUS
<1> HIDE DEF turn, Body
<1>4. PICK h : StatesOf(h, n, Int, 0, g)
  <2>1. IsLoop(n, Int, 0, g)
    BY <1>1 DEF IsLoop
  <2> HIDE DEF g
  <2> QED BY <2>1, LoopFunction
<1>5. h = Body(h)
  <2>1. h \in [0..n -> Int] /\ h[0] = 0 /\ \A k \in 1..n : h[k] = turn(h[k - 1])
    <3>1. h \in [0..n -> Int] /\ h[0] = 0 /\ \A k \in 1..n : h[k] = g[k][h[k - 1]]
      BY <1>4 DEF StatesOf
    <3>2. \A k \in 1..n : k - 1 \in 0..n
      OBVIOUS
    <3> QED BY <3>1, <3>2
  <2>2. \A k \in 0..n : k # 0 => k \in 1..n
    OBVIOUS
  <2> QED BY <1>3, <2>1, <2>2
<1>6. walk = Body(walk)
  BY <1>5
<1> HIDE DEF walk, g
<1>7. walk[0] = 0 /\ \A k \in 1..n : walk[k] = turn(walk[k - 1])
  <2> DEFINE B == [k \in 0..n |-> IF k = 0 THEN 0 ELSE turn(walk[k - 1])]
  <2>1. walk = B
    BY <1>3, <1>6
  <2>2. \A k \in 0..n : B[k] = IF k = 0 THEN 0 ELSE turn(walk[k - 1])
    OBVIOUS
  <2>3. \A k \in 0..n : walk[k] = IF k = 0 THEN 0 ELSE turn(walk[k - 1])
    <3> HIDE DEF B
    <3> QED BY <2>1, <2>2
  <2>4. 0 \in 0..n /\ \A k \in 1..n : k \in 0..n /\ k # 0
    OBVIOUS
  <2> QED BY <2>3, <2>4
<1>8. \A k \in 0..n : walk[k] \in Int
  <2>1. walk[0] \in Int /\ \A k \in 1..n : walk[k - 1] \in Int => walk[k] \in Int
    BY <1>1, <1>7
  <2> QED BY <2>1, LoopInvariant
<1> QED BY <1>2, <1>8

\* string(d, n) is of that length, if there is so much.
LEMMA CharsFacts ==
    ASSUME NEW d \in Seq(Int), NEW n \in Nat
    PROVE  /\ Chars(d, n) \in Seq(Int)
           /\ Len(Chars(d, n)) = IF n < Len(d) THEN n ELSE Len(d)
           /\ \A i \in 1..Len(Chars(d, n)) : Chars(d, n)[i] = d[i]
<1> DEFINE m == IF n < Len(d) THEN n ELSE Len(d)
<1>1. Len(d) \in Nat /\ m \in 0..Len(d)
  BY LenProperties
<1>2. \A i \in 1..m : d[i] \in Int
  BY <1>1, ElementOfSeq
<1> HIDE DEF m
<1>3. /\ SubSeq(d, 1, m) \in Seq(Int)
      /\ Len(SubSeq(d, 1, m)) = IF 1 <= m THEN (m - 1) + 1 ELSE 0
      /\ \A i \in 1..(m - 1) + 1 : SubSeq(d, 1, m)[i] = d[(1 + i) - 1]
  BY <1>1, <1>2, SubSeqProperties
<1>4. Len(SubSeq(d, 1, m)) = m
  BY <1>1, <1>3
<1>5. \A i \in 1..m : SubSeq(d, 1, m)[i] = d[i]
  BY <1>1, <1>3
<1>6. Chars(d, n) = SubSeq(d, 1, m)
  BY DEF Chars, m
<1> QED BY <1>3, <1>4, <1>5, <1>6 DEF m

\* What lies behind does not matter to a shorter string.
LEMMA CharsWithin ==
    ASSUME NEW d \in Seq(Int), NEW n \in Nat, NEW m \in Nat, n <= m
    PROVE  Chars(Chars(d, m), n) = Chars(d, n)
<1> DEFINE e == Chars(d, m)
<1>1. e \in Seq(Int) /\ Len(e) = (IF m < Len(d) THEN m ELSE Len(d)) /\ \A i \in 1..Len(e) : e[i] = d[i]
  BY CharsFacts
<1>2. /\ Chars(d, n) \in Seq(Int)
      /\ Len(Chars(d, n)) = (IF n < Len(d) THEN n ELSE Len(d))
      /\ \A i \in 1..Len(Chars(d, n)) : Chars(d, n)[i] = d[i]
  BY CharsFacts
<1> HIDE DEF e
<1>3. /\ Chars(e, n) \in Seq(Int)
      /\ Len(Chars(e, n)) = (IF n < Len(e) THEN n ELSE Len(e))
      /\ \A i \in 1..Len(Chars(e, n)) : Chars(e, n)[i] = e[i]
  BY <1>1, CharsFacts
<1>4. Len(d) \in Nat
  BY LenProperties
<1>5. Len(Chars(e, n)) = Len(Chars(d, n)) /\ Len(Chars(e, n)) <= Len(e) /\ Len(Chars(e, n)) \in Nat /\ Len(e) \in Nat
  BY <1>1, <1>2, <1>3, <1>4
<1>6. \A i \in 1..Len(Chars(e, n)) : Chars(e, n)[i] = Chars(d, n)[i]
  <2> SUFFICES ASSUME NEW i \in 1..Len(Chars(e, n)) PROVE Chars(e, n)[i] = Chars(d, n)[i]
    OBVIOUS
  <2>1. i \in 1..Len(e)
    BY <1>5
  <2> QED BY <2>1, <1>1, <1>2, <1>3, <1>5
<1>7. Chars(e, n) = Chars(d, n)
  BY <1>2, <1>3, <1>5, <1>6, SeqEqual
<1> QED BY <1>7 DEF e

\* What lies behind a field that is in the buffer.
LEMMA BehindIsMemory ==
    ASSUME request \in Requests, NEW p \in Int, Held(p)
    PROVE  /\ Behind(p) \in Seq(Int)
           /\ Fid(p) \in Int /\ field_length(p) \in Int
<1>1. /\ p + FieldHeader + 1 \in Int /\ Len(request.content) \in Int
      /\ \A i \in p + FieldHeader + 1..Len(request.content) : request.content[i] \in Int
  BY Content DEF Held, FieldHeader
<1>2. Behind(p) \in Seq(Int)
  BY <1>1, SubSeqProperties DEF Behind
<1>3. p + 1 \in 1..Len(request.content) /\ p + 2 \in 1..Len(request.content)
  BY Content DEF Held, FieldHeader
<1> QED BY <1>2, <1>3, Content DEF Fid, field_length

-----------------------------------------------------------------------------
(* Lengths.                                                                *)

\* The items of a field are counted.
LEMMA FieldLength ==
    ASSUME NEW f \in DOMAIN Fields
    PROVE  /\ Len(Fields[f].items) \in Nat
           /\ Fields[f].items # <<>> => 1 \in 1..Len(Fields[f].items)
<1> DEFINE S == {Fields[f].items[j] : j \in DOMAIN Fields[f].items}
<1>1. Fields[f].items \in Seq(S)
  BY ProtocolAssumption DEF IsVector
<1> HIDE DEF S
<1> QED BY <1>1, EmptySeq, LenProperties

\* A field whose items are known is at least as long as each of them.
LEMMA ItemFits ==
    ASSUME NEW f \in DOMAIN Fields,
           \A k \in 1..Len(Fields[f].items) : Fields[f].items[k] \in DOMAIN Items,
           NEW n \in 1..Len(Fields[f].items)
    PROVE  /\ get_field_size(f) \in Nat /\ Items[Fields[f].items[n]].length \in Nat
           /\ Items[Fields[f].items[n]].length <= get_field_size(f)
<1> DEFINE list == Fields[f].items
           N == Len(list)
           len(k) == Items[list[k]].length
           g == [k \in 1..N |-> [s \in Nat |-> s + len(k)]]
           Body(h) == [k \in 0..N |-> IF k = 0 THEN 0 ELSE h[k - 1] + Items[Fields[f].items[k]].length]
           size == CHOOSE h : h = Body(h)
<1>1. N \in Nat /\ \A k \in 1..N : len(k) \in Nat
  BY FieldLength, ProtocolAssumption
<1>2. get_field_size(f) = size[N]
  BY Zenon DEF get_field_size, SizeOfFirst
<1>3. PICK h : StatesOf(h, N, Nat, 0, g)
  <2>1. IsLoop(N, Nat, 0, g)
    BY <1>1 DEF IsLoop
  <2> HIDE DEF g, N
  <2> QED BY <2>1, LoopFunction
<1>4. h = Body(h)
  <2>1. h \in [0..N -> Nat] /\ h[0] = 0 /\ \A k \in 1..N : h[k] = h[k - 1] + len(k)
    <3>1. h \in [0..N -> Nat] /\ h[0] = 0 /\ \A k \in 1..N : h[k] = g[k][h[k - 1]]
      BY <1>3 DEF StatesOf
    <3>2. \A k \in 1..N : k - 1 \in 0..N
      BY <1>1
    <3> QED BY <3>1, <3>2
  <2>2. \A k \in 0..N : k # 0 => k \in 1..N
    BY <1>1
  <2> QED BY <2>1, <2>2
<1>5. size = Body(size)
  BY <1>4
<1> HIDE DEF size
<1>6. size[0] = 0 /\ \A k \in 1..N : size[k] = size[k - 1] + len(k)
  <2>1. \A k \in 0..N : size[k] = Body(size)[k]
    <3> HIDE DEF Body
    <3> QED BY <1>5
  <2>2. Body(size)[0] = 0 /\ \A k \in 1..N : Body(size)[k] = size[k - 1] + len(k)
    BY <1>1
  <2>3. 0 \in 0..N /\ \A k \in 1..N : k \in 0..N
    BY <1>1
  <2> HIDE DEF Body
  <2> QED BY <2>1, <2>2, <2>3
<1> HIDE DEF len, N, Body, g
<1> DEFINE T == {k \in 0..N : size[k] \in Nat /\ \A m \in 1..k : len(m) <= size[k]}
<1>7. 0 \in T
  BY <1>1, <1>6
<1>8. ASSUME NEW k \in 0..N, k \in T, k < N PROVE k + 1 \in T
  <2>1. k + 1 \in 1..N /\ (k + 1) - 1 = k /\ k + 1 \in 0..N
    BY <1>1, <1>8
  <2>2. size[k + 1] = size[k] + len(k + 1) /\ len(k + 1) \in Nat /\ size[k] \in Nat
    BY <1>1, <1>6, <1>8, <2>1
  <2>3. ASSUME NEW m \in 1..k + 1 PROVE len(m) <= size[k + 1]
    <3>1. CASE m = k + 1
      BY <3>1, <2>2
    <3>2. CASE m \in 1..k
      <4>1. len(m) <= size[k] /\ len(m) \in Nat
        <5>1. m \in 1..N
          BY <3>2, <1>1, <1>8
        <5> QED BY <5>1, <3>2, <1>1, <1>8
      <4> QED BY <4>1, <2>2
    <3> QED BY <3>1, <3>2
  <2> QED BY <2>1, <2>2, <2>3
<1> HIDE DEF T
<1>9. N \in T
  <2>1. \A k \in 0..N : k \in T
    BY <1>1, <1>7, <1>8, BoundedInduction
  <2> QED BY <2>1, <1>1
<1>10. size[N] \in Nat /\ len(n) <= size[N] /\ len(n) \in Nat
  BY <1>1, <1>9 DEF T, N
<1> QED BY <1>2, <1>10 DEF len

\* What an accepted field is read as.
LEMMA BytesSound ==
    ASSUME request \in Requests, NEW p \in Int, Held(p), Accepted(p), NEW n \in 1..Len(ItemList(p)),
           Readable(Info(p, n), Behind(p)), InEnumeration(Info(p, n), Behind(p))
    PROVE  SoundValue(ValueOf(Info(p, n), Behind(p)), ItemList(p)[n], Fields[Fid(p)].name, p)
<1> DEFINE d == Behind(p)
           info == Info(p, n)
           data == FieldData(p)
<1>1. d \in Seq(Int) /\ Len(d) \in Nat
  BY BehindIsMemory, LenProperties
<1>2. info.length \in Nat /\ field_length(p) \in Nat /\ info.length <= field_length(p)
  BY ItemFits DEF Accepted, ItemList, Info
<1>3. info = Items[ItemList(p)[n]]
  BY DEF Info
<1>4. data = Chars(d, field_length(p))
  BY DEF FieldData
<1>5. /\ info.kind = "fixed" \/ info.enumvals # {} => info.length <= Len(d)
      /\ info.enumvals # {} => Chars(d, info.length) \in info.enumvals
  BY DEF Readable, InEnumeration
<1> HIDE DEF d, info, data
<1>6. Chars(data, info.length) = Chars(d, info.length)
  BY <1>1, <1>2, <1>4, CharsWithin
<1>7. info.kind # "float" => ValueOf(info, d) = ValueOf(info, data)
  BY <1>6 DEF ValueOf
<1>8. ASSUME info.kind = "fixed" PROVE Len(ValueOf(info, d).bytes) = info.length
  <2>1. Len(Chars(d, info.length)) = info.length
    BY <1>1, <1>2, <1>5, <1>8, CharsFacts
  <2>2. ValueOf(info, d) = [made |-> TRUE, bytes |-> Chars(d, info.length)]
    BY <1>8 DEF ValueOf
  <2> QED BY <2>1, <2>2
<1>9. info.enumvals # {} => Chars(data, info.length) \in info.enumvals
  BY <1>5, <1>6
<1>10. SoundValue(ValueOf(info, d), ItemList(p)[n], Fields[Fid(p)].name, p)
  BY <1>3, <1>7, <1>8, <1>9 DEF SoundValue, data, d
<1> QED BY <1>10 DEF info, d
-----------------------------------------------------------------------------
(* Places.                                                                 *)

\* One field more is one place more for its fid and none for any other.
LEMMA PlacesFacts ==
    ASSUME NEW f, NEW n \in Nat
    PROVE  /\ IsFiniteSet(Places(f, n)) /\ Cardinality(Places(f, n)) \in Nat
           /\ Places(f, 0) = {} /\ Cardinality(Places(f, 0)) = 0
           /\ \A k \in 1..n + 1 : k \in Places(f, n + 1) <=> k \in Places(f, n) \/ (k = n + 1 /\ Fid(get_field(n)) = f)
           /\ Cardinality(Places(f, n + 1)) = IF Fid(get_field(n)) = f
                                              THEN Cardinality(Places(f, n)) + 1
                                              ELSE Cardinality(Places(f, n))
<1>1. IsFiniteSet(Places(f, n)) /\ Cardinality(Places(f, n)) \in Nat
  <2>1. IsFiniteSet(1..n)
    BY FS_Interval
  <2>2. Places(f, n) \in SUBSET (1..n)
    BY DEF Places
  <2> QED BY <2>1, <2>2, FS_Subset, FS_CardinalityType
<1>2. Places(f, 0) = {} /\ Cardinality(Places(f, 0)) = 0
  BY FS_EmptySet DEF Places
<1>3. Places(f, n + 1) = IF Fid(get_field(n)) = f THEN Places(f, n) \cup {n + 1} ELSE Places(f, n)
  BY DEF Places
<1>4. n + 1 \notin Places(f, n)
  BY DEF Places
<1>5. Cardinality(Places(f, n) \cup {n + 1}) = Cardinality(Places(f, n)) + 1
  BY <1>1, <1>4, FS_AddElement
<1> QED BY <1>1, <1>2, <1>3, <1>4, <1>5

\* A place has fewer places before it than there are.
LEMMA PlacesBefore ==
    ASSUME NEW f, NEW n \in Nat, NEW k \in Places(f, n)
    PROVE  /\ Cardinality(Places(f, k - 1)) \in 0..Cardinality(Places(f, n)) - 1
           /\ {m \in Places(f, n) : m < k} = Places(f, k - 1)
<1>1. k \in 1..n /\ Fid(get_field(k - 1)) = f
  BY DEF Places
<1>2. k - 1 \in Nat /\ (k - 1) + 1 = k
  BY <1>1
<1>3. Cardinality(Places(f, k)) = Cardinality(Places(f, k - 1)) + 1 /\ Cardinality(Places(f, k - 1)) \in Nat
  BY <1>1, <1>2, PlacesFacts
<1>4. Cardinality(Places(f, k)) <= Cardinality(Places(f, n)) /\ Cardinality(Places(f, n)) \in Nat
  <2>1. Places(f, k) \in SUBSET Places(f, n)
    BY <1>1 DEF Places
  <2> QED BY <2>1, PlacesFacts, FS_Subset
<1>5. {m \in Places(f, n) : m < k} = Places(f, k - 1)
  BY <1>1 DEF Places
<1> QED BY <1>3, <1>4, <1>5

-----------------------------------------------------------------------------
(* The invariant.                                                          *)

\* v is what an item may be after one of the first n fields was read for it.
Sound(v, item, name, n) == \E k \in 0..n - 1 : SoundValue(v, item, name, get_field(k))

\* ValuesSound of a variable x, and the same in the terms of the lookups.
SoundByField(x, n) ==
    \A name \in DOMAIN x : \A j \in 1..Len(x[name]) : \A item \in DOMAIN x[name][j] :
        Sound(x[name][j][item], item, name, n)

SoundByItem(x, n) ==
    \A name : \A j \in Nat : \A item :
        HasItem(x, name, j, item) => Sound(get_field_item(x, name, j, item), item, name, n)

\* Occurrence j of field f in a variable x is made of the field at place k of the
\* first n.
MadeOf(x, n, f, j, k) ==
    /\ k \in Places(f, n) /\ Cardinality(Places(f, k - 1)) = j
    /\ \A m \in 1..Len(Fields[f].items) : HasItem(x, Fields[f].name, j, Fields[f].items[m])
    /\ get_field_item(x, Fields[f].name, j, Fields[f].items[1])
          = ValueOf(Items[Fields[f].items[1]], Behind(get_field(k - 1)))

\* The occurrences are those of the fields so far.
Kept ==
    \A f \in DOMAIN Fields :
        /\ Seen(f) = Cardinality(Places(f, index))
        /\ Fields[f].items # <<>> =>
              /\ field_count(ftdc_var, Fields[f].name) = Cardinality(Places(f, index))
              /\ \A j \in 0..Cardinality(Places(f, index)) - 1 :
                    \E k \in 1..index : MadeOf(ftdc_var, index, f, j, k)

IInv ==
    /\ request \in Requests
    /\ index \in 0..request.field_count
    /\ pc = "returned" => index = request.field_count
    /\ IsVariable(ftdc_var)
    /\ Kept
    /\ ValuesSound

\* The calls of set_field_item for one field: occurrence c of its name.
FieldWrites(p, c) ==
    [n \in 1..Len(ItemList(p)) |->
        [fid |-> Fields[Fid(p)].name, idx |-> c, item |-> ItemList(p)[n],
         value |-> ValueOf(Info(p, n), Behind(p))]]

\* The loop of ParseField is over them.
LEMMA ParseFieldSets ==
    ASSUME NEW p, IsVariable(ftdc_var), ParseField(p), Seen(Fid(p)) \in Nat
    PROVE  SetBy(ftdc_var', ftdc_var, FieldWrites(p, Seen(Fid(p))), Len(ItemList(p)))
<1> DEFINE list == ItemList(p)
           N == Len(list)
           c == Seen(Fid(p))
           v == ftdc_var
           writes == FieldWrites(p, c)
           Body(f) == [n \in 0..N |->
               IF n = 0 THEN v
               ELSE set_field_item(f[n - 1], Fields[Fid(p)].name, c, list[n], ValueOf(Info(p, n), Behind(p)))]
           set == CHOOSE f : f = Body(f)
<1>1. ftdc_var' = set[N]
  BY Zenon DEF ParseField
<1>2. AreWrites(writes, N) /\ N \in Nat
  <2>1. N \in Nat
    BY FieldLength DEF ParseField, Accepted, ItemList
  <2>2. \A n \in 1..N : writes[n].idx = c
    BY DEF FieldWrites
  <2> QED BY <2>1, <2>2 DEF AreWrites
<1>3. ASSUME NEW f PROVE f = Body(f) <=> Sets(f, N, v, writes)
  <2>1. ASSUME NEW n \in 1..N
        PROVE  SetOne(f[n - 1], writes[n])
               = set_field_item(f[n - 1], Fields[Fid(p)].name, c, list[n], ValueOf(Info(p, n), Behind(p)))
    <3>1. writes[n] = [fid |-> Fields[Fid(p)].name, idx |-> c, item |-> list[n], value |-> ValueOf(Info(p, n), Behind(p))]
      BY DEF FieldWrites
    <3> QED BY <3>1 DEF SetOne
  <2> DEFINE turn(n) == SetOne(f[n - 1], writes[n])
  <2>2. Body(f) = [n \in 0..N |-> IF n = 0 THEN v ELSE turn(n)]
    <3>1. \A n \in 0..N : n # 0 => n \in 1..N
      BY <1>2
    <3> QED BY <3>1, <2>1
  <2> HIDE DEF Body, N, writes, v
  <2>3. f = [n \in 0..N |-> IF n = 0 THEN v ELSE turn(n)]
        <=> /\ f = [n \in 0..N |-> f[n]] /\ f[0] = v
            /\ \A n \in 1..N : f[n] = turn(n)
    <3> HIDE DEF turn
    <3> QED BY <1>2
  <2> QED BY <2>2, <2>3 DEF Sets
<1>4. \E f : f = Body(f)
  <2> HIDE DEF Body, N, writes, v
  <2> QED BY <1>2, <1>3, SetsExists
<1>5. set = Body(set)
  BY <1>4
<1> HIDE DEF set, Body, N, writes
<1>6. Sets(set, N, v, writes)
  BY <1>3, <1>5
<1>7. SetBy(set[N], v, writes, N)
  BY <1>2, <1>6, SetsFacts
<1> QED BY <1>1, <1>7 DEF N, writes

\* The values of a variable, by field or by item.
LEMMA SoundItems ==
    ASSUME NEW x, IsVariable(x), NEW n
    PROVE  SoundByField(x, n) <=> SoundByItem(x, n)
<1>1. ASSUME NEW name, NEW j \in Nat, NEW item
      PROVE  HasItem(x, name, j, item) <=>
                name \in DOMAIN x /\ j + 1 \in 1..Len(x[name]) /\ item \in DOMAIN x[name][j + 1]
  <2>1. field_count(x, name) \in Nat
    BY FieldCount
  <2>2. CASE name \in DOMAIN x
    <3>1. field_count(x, name) = Len(x[name])
      BY <2>2 DEF field_count, Occurrences
    <3> QED BY <2>1, <2>2, <3>1 DEF HasItem
  <2>3. CASE name \notin DOMAIN x
    <3>1. field_count(x, name) = 0
      BY <2>3, EmptySeq DEF field_count, Occurrences
    <3> QED BY <2>3, <3>1 DEF HasItem
  <2> QED BY <2>2, <2>3
<1>2. ASSUME SoundByField(x, n), NEW name, NEW j \in Nat, NEW item, HasItem(x, name, j, item)
      PROVE  Sound(get_field_item(x, name, j, item), item, name, n)
  <2>1. name \in DOMAIN x /\ j + 1 \in 1..Len(x[name]) /\ item \in DOMAIN x[name][j + 1]
    BY <1>1, <1>2
  <2>2. Sound(x[name][j + 1][item], item, name, n)
    BY <2>1, <1>2 DEF SoundByField
  <2> QED BY <2>2 DEF get_field_item
<1>3. ASSUME SoundByItem(x, n),
             NEW name \in DOMAIN x, NEW j \in 1..Len(x[name]), NEW item \in DOMAIN x[name][j]
      PROVE  Sound(x[name][j][item], item, name, n)
  <2>1. Len(x[name]) \in Nat
    BY LenProperties DEF IsVariable, IsVector
  <2>2. j - 1 \in Nat /\ (j - 1) + 1 = j
    BY <2>1
  <2>3. HasItem(x, name, j - 1, item)
    BY <2>2, <1>1
  <2>4. Sound(get_field_item(x, name, j - 1, item), item, name, n)
    BY <2>2, <2>3, <1>3 DEF SoundByItem
  <2> QED BY <2>2, <2>4 DEF get_field_item
<1> QED BY <1>2, <1>3 DEF SoundByField, SoundByItem

\* Nothing was read yet.
LEMMA InitIInv == Init => IInv
<1> SUFFICES ASSUME Init PROVE IInv
  OBVIOUS
<1>1. DOMAIN ftdc_var = {} /\ DOMAIN fid_index = {} /\ index = 0 /\ request \in Requests /\ pc = "start"
  BY DEF Init, Empty
<1>2. request.field_count \in Nat
  BY <1>1, Content
<1>3. Kept
  <2> SUFFICES ASSUME NEW f \in DOMAIN Fields
               PROVE  /\ Seen(f) = Cardinality(Places(f, index))
                      /\ field_count(ftdc_var, Fields[f].name) = Cardinality(Places(f, index))
                      /\ Cardinality(Places(f, index)) = 0
    BY DEF Kept
  <2>1. Cardinality(Places(f, index)) = 0
    BY <1>1, PlacesFacts
  <2>2. Seen(f) = 0 /\ field_count(ftdc_var, Fields[f].name) = 0
    BY <1>1, EmptySeq DEF Seen, field_count, Occurrences
  <2> QED BY <2>1, <2>2
<1> QED BY <1>1, <1>2, <1>3 DEF IInv, IsVariable, ValuesSound

\* The buffer stays as it is, and so does what is read of it.
LEMMA BufferStays ==
    ASSUME request' = request
    PROVE  /\ \A k : get_field(k)' = get_field(k)
           /\ \A f, n : Places(f, n)' = Places(f, n)
           /\ \A k : Behind(get_field(k))' = Behind(get_field(k))
           /\ \A v, item, name, k : SoundValue(v, item, name, get_field(k))'
                                      <=> SoundValue(v, item, name, get_field(k))
<1>1. \A k : get_field(k)' = get_field(k)
  BY DEF get_field, Held, field_length
<1>2. \A f, n : Places(f, n)' = Places(f, n)
  BY <1>1 DEF Places, Fid
<1>3. \A k : Behind(get_field(k))' = Behind(get_field(k))
  BY <1>1 DEF Behind
<1>4. \A v, item, name, k : SoundValue(v, item, name, get_field(k))'
                              <=> SoundValue(v, item, name, get_field(k))
  BY <1>1, <1>3 DEF SoundValue, FieldData, Fid, field_length
<1> QED BY <1>1, <1>2, <1>3, <1>4

\* A field is made into the next occurrence of its fid.
LEMMA ParseFieldIInv ==
    ASSUME IInv, pc = "fields", index < request.field_count, ParseField(get_field(index))
    PROVE  IInv'
<1> DEFINE p == get_field(index)
           g == Fid(p)
           list == Fields[g].items
           N == Len(list)
           c == Seen(g)
           writes == FieldWrites(p, c)
<1>1. /\ request' = request /\ pc' = pc /\ index' = index + 1 /\ Accepted(p) /\ Held(p)
      /\ fid_index' = Put(fid_index, g, c + 1)
      /\ \A n \in 1..N : Readable(Info(p, n), Behind(p)) /\ InEnumeration(Info(p, n), Behind(p))
  BY DEF ParseField, ItemList
<1>2. /\ request \in Requests /\ index \in Nat /\ index + 1 \in 1..request.field_count
      /\ request.field_count \in Nat /\ IsVariable(ftdc_var) /\ Kept
  BY Content DEF IInv
<1>3. g \in DOMAIN Fields /\ p \in Int
  BY <1>1, <1>2, WalkIsNumber DEF Accepted
<1>4. c \in Nat /\ c = Cardinality(Places(g, index))
  BY <1>2, <1>3, PlacesFacts DEF Kept
<1>5. SetBy(ftdc_var', ftdc_var, writes, N)
  BY <1>2, <1>4, ParseFieldSets DEF ItemList
<1>6. /\ N \in Nat /\ (list # <<>> => 1 \in 1..N)
      /\ \A n \in 1..N : /\ writes[n].fid = Fields[g].name /\ writes[n].idx = c
                         /\ writes[n].item = list[n] /\ writes[n].value = ValueOf(Info(p, n), Behind(p))
  BY <1>3, FieldLength DEF FieldWrites, ItemList
<1>7. ASSUME NEW n \in 1..N
      PROVE  SoundValue(ValueOf(Info(p, n), Behind(p)), list[n], Fields[g].name, p)
  BY <1>1, <1>2, <1>3, BytesSound DEF ItemList
<1>71. ASSUME 1 \in 1..N
       PROVE  ValueOf(Info(p, 1), Behind(p)) = ValueOf(Items[list[1]], Behind(get_field((index + 1) - 1)))
  <2>1. (index + 1) - 1 = index
    BY <1>2
  <2> QED BY <2>1 DEF Info, ItemList
<1>72. Fid(get_field(index)) = g
  OBVIOUS
<1>8. ASSUME NEW f PROVE Seen(f)' = IF f = g THEN c + 1 ELSE Seen(f)
  BY <1>1 DEF Seen, Put
<1> HIDE DEF writes, N, c, list, g, p
<1>9. /\ IsVariable(ftdc_var')
      /\ \A x : \A j \in Nat : \A i :
            HasItem(ftdc_var', x, j, i) <=>
               HasItem(ftdc_var, x, j, i) \/ \E k \in 1..N : Targets(writes[k], x, j, i)
      /\ \A x : \A j \in Nat : \A i : HasItem(ftdc_var', x, j, i) =>
            \/ \E k \in 1..N : Targets(writes[k], x, j, i) /\ get_field_item(ftdc_var', x, j, i) = writes[k].value
            \/ /\ \A k \in 1..N : ~Targets(writes[k], x, j, i)
               /\ get_field_item(ftdc_var', x, j, i) = get_field_item(ftdc_var, x, j, i)
      /\ \A x : /\ field_count(ftdc_var', x) >= field_count(ftdc_var, x)
                /\ \A k \in 1..N : writes[k].fid = x => field_count(ftdc_var', x) > writes[k].idx
                /\ \/ field_count(ftdc_var', x) = field_count(ftdc_var, x)
                   \/ \E k \in 1..N : writes[k].fid = x /\ field_count(ftdc_var', x) = writes[k].idx + 1
  BY <1>5 DEF SetBy
<1>10. ValuesSound'
  <2>1. \A x : \A j \in Nat : \A i :
           HasItem(ftdc_var, x, j, i) => Sound(get_field_item(ftdc_var, x, j, i), i, x, index)
    <3>1. SoundByField(ftdc_var, index)
      BY DEF IInv, ValuesSound, SoundByField, Sound
    <3>2. SoundByItem(ftdc_var, index)
      BY <3>1, <1>2, SoundItems
    <3> QED BY <3>2 DEF SoundByItem
  <2>2. \A n \in 1..N : Sound(ValueOf(Info(p, n), Behind(p)), list[n], Fields[g].name, index + 1)
    <3>1. index \in 0..(index + 1) - 1
      BY <1>2
    <3> QED BY <3>1, <1>7 DEF Sound, p
  <2>21. \A v, item, name : Sound(v, item, name, index) => Sound(v, item, name, index + 1)
    <3>1. \A k \in 0..index - 1 : k \in 0..(index + 1) - 1
      BY <1>2
    <3> QED BY <3>1 DEF Sound
  <2>3. ASSUME NEW x, NEW j \in Nat, NEW i, HasItem(ftdc_var', x, j, i)
        PROVE  Sound(get_field_item(ftdc_var', x, j, i), i, x, index + 1)
    <3>1. CASE \E k \in 1..N : Targets(writes[k], x, j, i) /\ get_field_item(ftdc_var', x, j, i) = writes[k].value
      BY <3>1, <2>2, <1>6 DEF Targets
    <3>2. CASE /\ \A k \in 1..N : ~Targets(writes[k], x, j, i)
               /\ get_field_item(ftdc_var', x, j, i) = get_field_item(ftdc_var, x, j, i)
      <4>1. HasItem(ftdc_var, x, j, i)
        BY <3>2, <2>3, <1>9
      <4> QED BY <4>1, <3>2, <2>1, <2>21
    <3> QED BY <3>1, <3>2, <2>3, <1>9
  <2>4. SoundByItem(ftdc_var', index + 1)
    BY <2>3 DEF SoundByItem
  <2>5. SoundByField(ftdc_var', index + 1)
    BY <2>4, <1>9, SoundItems
  <2>6. \A v, item, name, k : SoundValue(v, item, name, get_field(k))'
                              <=> SoundValue(v, item, name, get_field(k))
    BY <1>1, BufferStays
  <2> QED BY <2>5, <2>6, <1>1 DEF ValuesSound, SoundByField, Sound
<1>11. ASSUME NEW f \in DOMAIN Fields
       PROVE  /\ Seen(f)' = Cardinality(Places(f, index + 1))
              /\ Fields[f].items # <<>> =>
                    /\ field_count(ftdc_var', Fields[f].name) = Cardinality(Places(f, index + 1))
                    /\ \A j \in 0..Cardinality(Places(f, index + 1)) - 1 :
                          \E k \in 1..index + 1 : MadeOf(ftdc_var', index + 1, f, j, k)
  <2> DEFINE name == Fields[f].name
  <2>1. /\ Seen(f) = Cardinality(Places(f, index)) /\ Cardinality(Places(f, index)) \in Nat
        /\ Fields[f].items # <<>> =>
              /\ field_count(ftdc_var, name) = Cardinality(Places(f, index))
              /\ \A j \in 0..Cardinality(Places(f, index)) - 1 : \E k \in 1..index : MadeOf(ftdc_var, index, f, j, k)
    BY <1>2, PlacesFacts DEF Kept
  <2>2. /\ Cardinality(Places(f, index + 1)) = IF f = g THEN Cardinality(Places(f, index)) + 1
                                               ELSE Cardinality(Places(f, index))
        /\ \A k \in 1..index + 1 : k \in Places(f, index + 1) <=> k \in Places(f, index) \/ (k = index + 1 /\ f = g)
    BY <1>2, <1>72, PlacesFacts
  <2>3. Seen(f)' = Cardinality(Places(f, index + 1))
    BY <1>4, <1>8, <2>1, <2>2
  <2>4. \A n \in 1..N : writes[n].fid = name <=> f = g
    BY <1>3, <1>6, ProtocolAssumption
  <2>5. ASSUME Fields[f].items # <<>>
        PROVE  field_count(ftdc_var', name) = Cardinality(Places(f, index + 1))
    <3>1. field_count(ftdc_var', name) \in Nat /\ field_count(ftdc_var, name) \in Nat
      BY <1>2, <1>9, FieldCount
    <3>2. CASE f = g
      <4>1. 1 \in 1..N
        BY <3>2, <2>5, <1>6 DEF list
      <4>2. field_count(ftdc_var', name) > c
        BY <4>1, <3>2, <2>4, <1>6, <1>9
      <4>3. field_count(ftdc_var', name) = c \/ field_count(ftdc_var', name) = c + 1
        BY <3>2, <2>1, <2>5, <1>4, <1>6, <1>9
      <4> QED BY <4>2, <4>3, <3>1, <3>2, <2>1, <2>2, <2>5, <1>4
    <3>3. CASE f # g
      BY <3>3, <2>1, <2>2, <2>4, <2>5, <1>9
    <3> QED BY <3>2, <3>3
  <2>6. ASSUME Fields[f].items # <<>>, NEW j \in 0..Cardinality(Places(f, index + 1)) - 1
        PROVE  \E k \in 1..index + 1 : MadeOf(ftdc_var', index + 1, f, j, k)
    <3>0. j \in Nat
      OBVIOUS
    <3>1. CASE j \in 0..Cardinality(Places(f, index)) - 1
      <4>1. PICK k \in 1..index : MadeOf(ftdc_var, index, f, j, k)
        BY <3>1, <2>1, <2>6
      <4>2. k \in 1..index + 1 /\ k \in Places(f, index + 1)
        BY <4>1, <2>2, <1>2 DEF MadeOf
      <4>3. \A m \in 1..Len(Fields[f].items) : HasItem(ftdc_var', name, j, Fields[f].items[m])
        BY <4>1, <3>0, <1>9 DEF MadeOf
      <4>4. ASSUME NEW n \in 1..N PROVE ~Targets(writes[n], name, j, Fields[f].items[1])
        <5>1. f = g => j # c
          BY <3>1, <1>4
        <5> QED BY <5>1, <2>4, <1>6 DEF Targets
      <4>5. 1 \in 1..Len(Fields[f].items)
        BY <2>6, FieldLength
      <4>6. get_field_item(ftdc_var', name, j, Fields[f].items[1]) = get_field_item(ftdc_var, name, j, Fields[f].items[1])
        BY <4>3, <4>4, <4>5, <3>0, <1>9
      <4> QED BY <4>1, <4>2, <4>3, <4>6 DEF MadeOf
    <3>2. CASE j \notin 0..Cardinality(Places(f, index)) - 1
      <4>1. f = g /\ j = c
        BY <3>2, <2>1, <2>2, <1>4
      <4>2. 1 \in 1..N /\ N = Len(Fields[f].items) /\ list = Fields[f].items
        BY <4>1, <2>6, <1>6 DEF N, list
      <4>3. ASSUME NEW m \in 1..N PROVE HasItem(ftdc_var', name, j, list[m])
        <5>1. Targets(writes[m], name, j, list[m])
          BY <4>1, <1>6 DEF Targets
        <5> QED BY <5>1, <3>0, <1>9
      <4>4. get_field_item(ftdc_var', name, j, list[1]) = ValueOf(Info(p, 1), Behind(p))
        <5>1. Targets(writes[1], name, j, list[1]) /\ HasItem(ftdc_var', name, j, list[1])
          BY <4>1, <4>2, <4>3, <1>6 DEF Targets
        <5>2. PICK k \in 1..N : /\ Targets(writes[k], name, j, list[1])
                                /\ get_field_item(ftdc_var', name, j, list[1]) = writes[k].value
          BY <5>1, <4>2, <3>0, <1>9
        <5>3. list[k] = list[1]
          BY <5>2, <1>6 DEF Targets
        <5>4. k = 1
          BY <5>3, <4>2, ProtocolAssumption
        <5> QED BY <5>2, <5>4, <1>6
      <4>5. index + 1 \in Places(f, index + 1) /\ (index + 1) - 1 = index
        BY <4>1, <2>2, <1>2
      <4>6. Cardinality(Places(f, (index + 1) - 1)) = j
        BY <4>1, <4>5, <1>4
      <4>7. MadeOf(ftdc_var', index + 1, f, j, index + 1)
        BY <4>2, <4>3, <4>4, <4>5, <4>6, <1>71 DEF MadeOf
      <4> QED BY <4>7, <1>2
    <3> QED BY <3>1, <3>2
  <2> QED BY <2>3, <2>5, <2>6
<1>12. Kept'
  <2>1. \A f, n : Places(f, n)' = Places(f, n)
    BY <1>1, BufferStays
  <2>2. \A k : Behind(get_field(k))' = Behind(get_field(k))
    BY <1>1, BufferStays
  <2> QED BY <2>1, <2>2, <1>1, <1>11 DEF Kept, MadeOf
<1> QED BY <1>1, <1>2, <1>9, <1>10, <1>12 DEF IInv

\* The steps that leave the variable as it is.
LEMMA UnchangedIInv ==
    ASSUME IInv, UNCHANGED <<request, index, fid_index, ftdc_var>>,
           pc' = "returned" => index = request.field_count
    PROVE  IInv'
<1>1. request' = request /\ index' = index /\ fid_index' = fid_index /\ ftdc_var' = ftdc_var
  OBVIOUS
<1>2. /\ \A f, n : Places(f, n)' = Places(f, n)
      /\ \A k : Behind(get_field(k))' = Behind(get_field(k))
      /\ \A v, item, name, k : SoundValue(v, item, name, get_field(k))'
                               <=> SoundValue(v, item, name, get_field(k))
  BY <1>1, BufferStays
<1>3. Kept'
  BY <1>1, <1>2 DEF IInv, Kept, MadeOf, Seen
<1>4. ValuesSound'
  BY <1>1, <1>2 DEF IInv, ValuesSound
<1> QED BY <1>1, <1>3, <1>4 DEF IInv

\* Every step keeps the invariant.
LEMMA NextIInv == IInv /\ [Next]_vars => IInv'
<1> SUFFICES ASSUME IInv, [Next]_vars PROVE IInv'
  OBVIOUS
<1>1. CASE Begin
  BY <1>1, UnchangedIInv DEF Begin
<1>2. CASE AtField
  <2>1. CASE ParseField(get_field(index))
    BY <1>2, <2>1, ParseFieldIInv DEF AtField
  <2>2. CASE RefuseField(get_field(index))
    BY <2>2, UnchangedIInv DEF RefuseField
  <2>3. CASE Stray(get_field(index))
    BY <2>3, UnchangedIInv DEF Stray
  <2> QED BY <1>2, <2>1, <2>2, <2>3 DEF AtField
<1>3. CASE Return
  BY <1>3, UnchangedIInv DEF Return
<1>4. CASE UNCHANGED vars
  <2>1. UNCHANGED <<request, index, fid_index, ftdc_var>> /\ pc' = pc
    BY <1>4 DEF vars
  <2> QED BY <2>1, UnchangedIInv DEF IInv
<1> QED BY <1>1, <1>2, <1>3, <1>4 DEF Next, Over

-----------------------------------------------------------------------------
(* Theorems.                                                               *)

\* After every field the parser has counted right and its variable holds what
\* the fields so far have.
THEOREM ParseInvariant == Spec => []IInv
<1>1. Init => IInv
  BY InitIInv
<1>2. IInv /\ [Next]_vars => IInv'
  BY NextIInv
<1> QED BY <1>1, <1>2, PTL DEF Spec

\* For every protocol and whatever was sent, counts and lengths that are wrong
\* included, a value in the variable comes from a field of its name, of bytes of
\* this field unless it is a float, is as long as its type if the length is
\* fixed, and is in its enumeration.
THEOREM ValuesSoundCorrect == Spec => []ValuesSound
<1>1. IInv => ValuesSound
  BY DEF IInv
<1> QED BY <1>1, ParseInvariant, PTL

\* For every protocol and every buffer that is accepted, however its fields are
\* mixed, the occurrences of a field are its fields in the buffer, in order.
THEOREM OccurrencesKeptCorrect == Spec => []OccurrencesKept
<1>1. IInv => OccurrencesKept
  <2> SUFFICES ASSUME IInv, pc = "returned", NEW f \in DOMAIN Fields, Fields[f].items # <<>>
               PROVE  LET name == Fields[f].name
                          list == Fields[f].items
                          n == request.field_count IN
                      /\ \A k \in Places(f, n) : \E j \in 0..field_count(ftdc_var, name) - 1 :
                            IsPlace(f, n, j, k)
                      /\ \A j \in 0..field_count(ftdc_var, name) - 1 : \E k \in Places(f, n) :
                            /\ IsPlace(f, n, j, k)
                            /\ \A m \in 1..Len(list) : HasItem(ftdc_var, name, j, list[m])
                            /\ get_field_item(ftdc_var, name, j, list[1])
                                  = ValueOf(Items[list[1]], Behind(get_field(k - 1)))
    BY DEF OccurrencesKept
  <2>1. index = request.field_count /\ index \in Nat
    BY Content DEF IInv
  <2>2. /\ field_count(ftdc_var, Fields[f].name) = Cardinality(Places(f, index))
        /\ \A j \in 0..Cardinality(Places(f, index)) - 1 :
              \E k \in 1..index : MadeOf(ftdc_var, index, f, j, k)
    BY DEF IInv, Kept
  <2>3. ASSUME NEW k \in Places(f, index), NEW j
        PROVE  IsPlace(f, index, j, k) <=> Cardinality(Places(f, k - 1)) = j
    BY <2>1, PlacesBefore DEF IsPlace
  <2>4. ASSUME NEW k \in Places(f, index)
        PROVE  \E j \in 0..field_count(ftdc_var, Fields[f].name) - 1 : IsPlace(f, index, j, k)
    BY <2>1, <2>2, <2>3, PlacesBefore
  <2>5. ASSUME NEW j \in 0..field_count(ftdc_var, Fields[f].name) - 1
        PROVE  \E k \in Places(f, index) :
                  /\ IsPlace(f, index, j, k)
                  /\ \A m \in 1..Len(Fields[f].items) : HasItem(ftdc_var, Fields[f].name, j, Fields[f].items[m])
                  /\ get_field_item(ftdc_var, Fields[f].name, j, Fields[f].items[1])
                        = ValueOf(Items[Fields[f].items[1]], Behind(get_field(k - 1)))
    <3>1. PICK k \in 1..index : MadeOf(ftdc_var, index, f, j, k)
      BY <2>2, <2>5
    <3>2. k \in Places(f, index) /\ IsPlace(f, index, j, k)
      BY <3>1, <2>3 DEF MadeOf
    <3> QED BY <3>1, <3>2 DEF MadeOf
  <2> QED BY <2>1, <2>4, <2>5
<1> QED BY <1>1, ParseInvariant, PTL
=============================================================================
