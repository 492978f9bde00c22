------------------------ MODULE FtdcSerializeProofs ------------------------
(***************************************************************************)
(* What serialize_ftdc_content does to every response: for every field     *)
(* list, every number of fields and every capacity that takes one field.   *)
(* Whatever AddField does, it adds one slot behind all slots there are;    *)
(* that no field is lost, doubled or moved follows from this alone.        *)
(*                                                                         *)
(* The second part proves ItemValue, the items that fill the fields: an    *)
(* item fills its place, and is read as it was written, for every text.    *)
(***************************************************************************)
EXTENDS FtdcSerialize, ItemValue, LoopLemmas

\* Where the loops are.
LoopInv ==
    /\ pc \in {"checking", "returned"} => fieldidx = 0
    /\ pc \in {"adding", "crashed", "threw"} => i <= Len(pfis) /\ fieldidx <= count[i]
    /\ pc = "returned" => i = Len(pfis) + 1

\* What a buffer holds comes from the response and was processed.
PlacedInv ==
    \A k \in BufferNos : \A n \in FieldNos(k) :
        /\ FieldNo(k, n).pfi \in 1..Len(pfis)
        /\ FieldNo(k, n).idx \in 0..count[FieldNo(k, n).pfi] - 1
        /\ Before(FieldNo(k, n).pfi, FieldNo(k, n).idx, i, fieldidx)

\* The entries the loops are past, or are in, were checked.
Conforms(f) ==
    count[f] >= pfis[f].minoccur /\ count[f] <= pfis[f].maxoccur /\ pfis[f].defined

CheckedInv ==
    /\ \A f \in 1..Len(pfis) : f < i \/ (pc = "adding" /\ f = i) => Conforms(f)
    /\ \A f \in 1..Len(pfis) : \A j \in 0..count[f] - 1 :
          Before(f, j, i, fieldidx) => <<f, j>> \notin missing

IInv ==
    /\ TypeOK
    /\ LoopInv
    /\ PlacedInv
    /\ CheckedInv
    /\ NothingLost
    /\ InOrder
    /\ BuffersWellFormed
    /\ SplitOnlyWhenFull

-----------------------------------------------------------------------------

\* The length of a field of list entry f.
LEMMA EntitySize ==
    ASSUME TypeOK, NEW f \in 1..Len(pfis)
    PROVE /\ ftdc_field_entity_size(pfis[f]) \in Nat \ {0}
          /\ ftdc_field_entity_size(pfis[f]) <= FTDC_CONTENT_MAX_LENGTH
          /\ pfis[f] \in Pfi /\ Len(pfis) \in Nat
<1>1. pfis \in Packages /\ pfis \in Seq(Pfi)
  BY PackagesAssumption DEF TypeOK
<1>2. pfis[f] \in Pfi
  BY <1>1
<1> QED
  BY <1>1, <1>2, PackagesAssumption DEF ftdc_field_entity_size, Pfi

\* add_field gives a buffer again.
LEMMA AddFieldType ==
    ASSUME NEW b \in Buffer, NEW f \in Nat, NEW j \in Nat, NEW bytes \in Nat,
           Fits(b, bytes)
    PROVE LET e == [pfi |-> f, idx |-> j, at |-> b.content_length]
              c == add_field(b, f, j, bytes) IN
          /\ c \in Buffer
          /\ c.fields = Append(b.fields, e)
          /\ c.field_count = b.field_count + 1
          /\ c.content_length = b.content_length + bytes
          /\ c.request = b.request
<1> DEFINE e == [pfi |-> f, idx |-> j, at |-> b.content_length]
<1>1. e \in Placed
  BY DEF Buffer, Placed
<1>2. Append(b.fields, e) \in Seq(Placed)
  BY <1>1 DEF Buffer
<1> DEFINE c == add_field(b, f, j, bytes)
<1>3. c = [b EXCEPT !.fields = Append(@, e), !.field_count = @ + 1,
                    !.content_length = @ + bytes]
  BY DEF add_field
<1>4. c = [request |-> b.request, fields |-> Append(b.fields, e),
           field_count |-> b.field_count + 1,
           content_length |-> b.content_length + bytes]
  BY <1>3 DEF Buffer
<1>5. /\ b.request \in BOOLEAN
      /\ b.field_count + 1 \in Nat /\ b.content_length + bytes \in Nat
  BY DEF Buffer
<1>6. c \in Buffer
  BY <1>2, <1>4, <1>5 DEF Buffer
<1> HIDE DEF c, e
<1>7. /\ c.fields = Append(b.fields, e)
      /\ c.field_count = b.field_count + 1
      /\ c.content_length = b.content_length + bytes
      /\ c.request = b.request
  BY <1>4
<1> QED
  BY <1>6, <1>7 DEF c, e

\* A new buffer is empty and carries the request's header.
LEMMA StampedType ==
    /\ StampedBuffer \in Buffer
    /\ StampedBuffer.fields = <<>> /\ StampedBuffer.content_length = 0
    /\ StampedBuffer.field_count = 0 /\ StampedBuffer.request = TRUE
<1>1. <<>> \in Seq(Placed)
  BY EmptySeq
<1> QED
  BY <1>1 DEF StampedBuffer, Buffer

\* The new buffer is b with occurrence fieldidx of entry i behind it.
AddedTo(b, bytes) ==
    /\ Fits(b, bytes)
    /\ buffer'.fields = Append(b.fields, [pfi |-> i, idx |-> fieldidx, at |-> b.content_length])
    /\ buffer'.field_count = b.field_count + 1
    /\ buffer'.content_length = b.content_length + bytes
    /\ buffer'.request = b.request

\* AddField at a glance: what it adds, and to which buffer.
LEMMA AddFieldCases ==
    ASSUME IInv, AddField
    PROVE LET bytes == ftdc_field_entity_size(pfis[i])
          IN  /\ i \in 1..Len(pfis) /\ i \in Nat /\ fieldidx \in 0..count[i] - 1
              /\ count[i] \in Nat /\ fieldidx \in Nat /\ bytes \in Nat \ {0}
              /\ buffer \in Buffer /\ buffer' \in Buffer
              /\ output \in Seq(Buffer) /\ output' \in Seq(Buffer)
              /\ \/ output' = output /\ AddedTo(buffer, bytes)
                 \/ /\ output' = Append(output, buffer) /\ AddedTo(StampedBuffer, bytes)
                    /\ ~Fits(buffer, bytes)
<1> DEFINE bytes == ftdc_field_entity_size(pfis[i])
<1>1. /\ i \in 1..Len(pfis) /\ fieldidx \in 0..count[i] - 1 /\ count[i] \in Nat
      /\ i \in Nat /\ fieldidx \in Nat
  <2>1. pc = "adding" /\ fieldidx < count[i]
    BY DEF AddField
  <2>2. /\ i \in 1..Len(pfis) + 1 /\ i <= Len(pfis) /\ fieldidx \in Nat
        /\ count \in [1..Len(pfis) -> Counts] /\ pfis \in Packages
    BY <2>1 DEF IInv, TypeOK, LoopInv
  <2>3. Len(pfis) \in Nat
    BY <2>2, PackagesAssumption
  <2>4. i \in 1..Len(pfis) /\ i \in Nat
    BY <2>2, <2>3
  <2>5. count[i] \in Nat
    BY <2>2, <2>4, PackagesAssumption
  <2> QED
    BY <2>1, <2>2, <2>4, <2>5
<1>2. bytes \in Nat \ {0} /\ bytes <= FTDC_CONTENT_MAX_LENGTH
  BY <1>1, EntitySize DEF IInv
<1>3. buffer \in Buffer /\ output \in Seq(Buffer)
  BY DEF IInv, TypeOK
<1>4. Fits(StampedBuffer, bytes)
  BY <1>2, StampedType DEF Fits
<1>5. \/ /\ Fits(buffer, bytes) /\ buffer' = add_field(buffer, i, fieldidx, bytes)
         /\ output' = output
      \/ /\ ~Fits(buffer, bytes) /\ output' = Append(output, buffer)
         /\ buffer' = add_field(StampedBuffer, i, fieldidx, bytes)
  BY DEF AddField
<1> HIDE DEF bytes
<1>6. CASE /\ Fits(buffer, bytes) /\ buffer' = add_field(buffer, i, fieldidx, bytes)
           /\ output' = output
  <2>1. buffer' \in Buffer /\ AddedTo(buffer, bytes)
    BY <1>1, <1>2, <1>3, <1>6, AddFieldType DEF AddedTo
  <2> QED
    BY <2>1, <1>1, <1>2, <1>3, <1>6 DEF bytes
<1>7. CASE /\ ~Fits(buffer, bytes) /\ output' = Append(output, buffer)
           /\ buffer' = add_field(StampedBuffer, i, fieldidx, bytes)
  <2>1. output' \in Seq(Buffer)
    BY <1>3, <1>7
  <2>2. StampedBuffer \in Buffer
    BY StampedType
  <2>3. buffer' \in Buffer /\ AddedTo(StampedBuffer, bytes)
    BY <2>2, <1>1, <1>2, <1>4, <1>7, AddFieldType DEF AddedTo
  <2> QED
    BY <2>1, <2>3, <1>1, <1>2, <1>3, <1>7 DEF bytes
<1> QED
  BY <1>5, <1>6, <1>7

-----------------------------------------------------------------------------

\* Field n of buffer k is there.
Slot(k, n) == k \in BufferNos /\ n \in FieldNos(k)

\* AddField puts one field, the one the loops are at, behind all fields there
\* are and leaves these where they are.
LEMMA AddsOneSlot ==
    ASSUME IInv, AddField
    PROVE \E K \in Nat, N \in Nat :
             /\ K = Len(output') + 1 /\ N = Len(buffer'.fields)
             /\ Slot(K, N)'
             /\ FieldNo(K, N)'.pfi = i /\ FieldNo(K, N)'.idx = fieldidx
             /\ \A k, n : Slot(k, n) =>
                   Slot(k, n)' /\ FieldNo(k, n)' = FieldNo(k, n) /\ Before(k, n, K, N)
             /\ \A k, n : Slot(k, n)' => (k = K /\ n = N) \/ Slot(k, n)
<1> DEFINE bytes == ftdc_field_entity_size(pfis[i])
           e(b) == [pfi |-> i, idx |-> fieldidx, at |-> b.content_length]
<1>1. /\ i \in Nat /\ fieldidx \in Nat /\ bytes \in Nat
      /\ buffer \in Buffer /\ buffer' \in Buffer
      /\ output \in Seq(Buffer) /\ output' \in Seq(Buffer)
      /\ \/ output' = output /\ AddedTo(buffer, bytes)
         \/ output' = Append(output, buffer) /\ AddedTo(StampedBuffer, bytes)
  BY AddFieldCases
<1> HIDE DEF bytes
<1>2. ASSUME NEW b \in Buffer
      PROVE b.fields \in Seq(Placed) /\ Len(b.fields) \in Nat /\ e(b) \in Placed
  BY <1>1 DEF Buffer, Placed
<1>3. Len(output) \in Nat /\ Len(output') \in Nat
  BY <1>1
<1>KN. PICK K \in Nat, N \in Nat : K = Len(output') + 1 /\ N = Len(buffer'.fields)
  <2>1. Len(output') + 1 \in Nat
    BY <1>3
  <2>2. Len(buffer'.fields) \in Nat
    BY <1>1, <1>2
  <2> QED BY <2>1, <2>2, Zenon
<1>4. \A k \in 1..Len(output) : output[k] \in Buffer
  BY <1>1
<1>5. \A k \in 1..Len(output') : output'[k] \in Buffer
  BY <1>1
<1>6. CASE output' = output /\ AddedTo(buffer, bytes)
  <2>1. buffer'.fields = Append(buffer.fields, e(buffer))
    BY <1>6 DEF AddedTo
  <2> HIDE DEF e
  <2>2. /\ N = Len(buffer.fields) + 1 /\ buffer'.fields[N] = e(buffer)
        /\ \A n \in 1..Len(buffer.fields) : buffer'.fields[n] = buffer.fields[n]
    BY <2>1, <1>1, <1>2, <1>KN
  <2>3. FieldNo(K, N)'.pfi = i /\ FieldNo(K, N)'.idx = fieldidx
    BY <2>2, <1>3, <1>KN DEF FieldNo, BufferNo, e
  <2>4. Slot(K, N)'
    BY <2>2, <1>1, <1>2, <1>3, <1>KN DEF Slot, BufferNos, FieldNos, BufferNo
  <2>5. ASSUME NEW k, NEW n, Slot(k, n)
        PROVE Slot(k, n)' /\ FieldNo(k, n)' = FieldNo(k, n) /\ Before(k, n, K, N)
    BY <2>2, <2>5, <1>1, <1>2, <1>3, <1>4, <1>6, <1>KN
       DEF Slot, BufferNos, FieldNos, FieldNo, BufferNo, Before
  <2>6. ASSUME NEW k, NEW n, Slot(k, n)'
        PROVE (k = K /\ n = N) \/ Slot(k, n)
    BY <2>2, <2>6, <1>1, <1>2, <1>3, <1>4, <1>6, <1>KN
       DEF Slot, BufferNos, FieldNos, BufferNo
  <2> QED
    BY <1>3, <1>KN, <2>3, <2>4, <2>5, <2>6
<1>7. CASE output' = Append(output, buffer) /\ AddedTo(StampedBuffer, bytes)
  <2>1. buffer'.fields = Append(<<>>, e(StampedBuffer)) /\ e(StampedBuffer) \in Placed
    BY <1>2, <1>7, StampedType DEF AddedTo
  <2> HIDE DEF e
  <2>2. N = 1 /\ buffer'.fields[1] = e(StampedBuffer)
    BY <2>1, <1>KN
  <2>3. /\ Len(output') = Len(output) + 1 /\ output'[Len(output) + 1] = buffer
        /\ \A k \in 1..Len(output) : output'[k] = output[k]
    BY <1>1, <1>7
  <2>4. FieldNo(K, N)'.pfi = i /\ FieldNo(K, N)'.idx = fieldidx
    BY <2>2, <1>3, <1>KN DEF FieldNo, BufferNo, e
  <2>5. Slot(K, N)'
    BY <2>2, <1>1, <1>2, <1>3, <1>KN DEF Slot, BufferNos, FieldNos, BufferNo
  <2>6. \A k \in BufferNos : BufferNo(k)' = BufferNo(k) /\ k \in Nat
    BY <2>3, <1>3, <1>KN DEF BufferNos, BufferNo
  <2>7. ASSUME NEW k, NEW n, Slot(k, n)
        PROVE Slot(k, n)' /\ FieldNo(k, n)' = FieldNo(k, n) /\ Before(k, n, K, N)
    <3>1. k \in BufferNos' /\ k < K
      BY <2>3, <2>7, <1>3, <1>KN DEF Slot, BufferNos
    <3> QED
      BY <3>1, <2>6, <2>7 DEF Slot, FieldNos, FieldNo, Before
  <2>8. ASSUME NEW k, NEW n, Slot(k, n)'
        PROVE (k = K /\ n = N) \/ Slot(k, n)
    <3>1. CASE k = K
      <4>1. BufferNo(K)' = buffer'
        BY <1>3, <1>KN DEF BufferNo
      <4>2. n \in 1..N
        BY <4>1, <3>1, <2>8, <1>KN DEF Slot, FieldNos
      <4> QED
        BY <4>2, <3>1, <2>2
    <3>2. CASE k # K
      <4>1. k \in BufferNos
        BY <3>2, <2>3, <2>8, <1>3, <1>KN DEF Slot, BufferNos
      <4> QED
        BY <4>1, <2>6, <2>8 DEF Slot, FieldNos
    <3> QED
      BY <3>1, <3>2
  <2> QED
    BY <1>3, <1>KN, <2>4, <2>5, <2>7, <2>8
<1> QED
  BY <1>1, <1>6, <1>7

\* The numbers the loops compare with.
LEMMA Naturals ==
    ASSUME TypeOK
    PROVE Len(pfis) \in Nat /\ \A f \in 1..Len(pfis) : count[f] \in Nat
<1>1. pfis \in Seq(Pfi) /\ count \in [1..Len(pfis) -> Counts]
  BY PackagesAssumption DEF TypeOK
<1>2. Len(pfis) \in Nat
  BY <1>1
<1>3. ASSUME NEW f \in 1..Len(pfis) PROVE count[f] \in Counts
  BY <1>1
<1> QED
  BY <1>2, <1>3, PackagesAssumption

\* What the invariant says of a slot, with the numbers it is made of.
LEMMA SlotFacts ==
    ASSUME IInv, NEW k, NEW n, Slot(k, n)
    PROVE /\ k \in Nat /\ n \in Nat
          /\ FieldNo(k, n).pfi \in 1..Len(pfis) /\ FieldNo(k, n).pfi \in Nat
          /\ FieldNo(k, n).idx \in 0..count[FieldNo(k, n).pfi] - 1
          /\ FieldNo(k, n).idx \in Nat
          /\ Before(FieldNo(k, n).pfi, FieldNo(k, n).idx, i, fieldidx)
<1>1. /\ Len(output) \in Nat /\ output \in Seq(Buffer) /\ buffer \in Buffer
      /\ pfis \in Packages /\ count \in [1..Len(pfis) -> Counts]
  BY DEF IInv, TypeOK
<1>2. Len(pfis) \in Nat /\ \A f \in 1..Len(pfis) : count[f] \in Nat
  BY Naturals DEF IInv
<1>3. k \in Nat /\ BufferNo(k) \in Buffer
  BY <1>1 DEF Slot, BufferNos, BufferNo
<1>4. n \in Nat
  BY <1>3 DEF Slot, FieldNos, Buffer
<1>5. /\ FieldNo(k, n).pfi \in 1..Len(pfis)
      /\ FieldNo(k, n).idx \in 0..count[FieldNo(k, n).pfi] - 1
      /\ Before(FieldNo(k, n).pfi, FieldNo(k, n).idx, i, fieldidx)
  BY DEF IInv, PlacedInv, Slot
<1>6. FieldNo(k, n).pfi \in Nat /\ FieldNo(k, n).idx \in Nat
  BY <1>2, <1>5
<1> QED
  BY <1>3, <1>4, <1>5, <1>6

\* AddField keeps the fields complete and in order.
LEMMA AddFieldPlaces ==
    ASSUME IInv, AddField
    PROVE (PlacedInv /\ NothingLost /\ InOrder)'
<1>1. PICK K \in Nat, N \in Nat :
         /\ Slot(K, N)'
         /\ FieldNo(K, N)'.pfi = i /\ FieldNo(K, N)'.idx = fieldidx
         /\ \A k, n : Slot(k, n) =>
               Slot(k, n)' /\ FieldNo(k, n)' = FieldNo(k, n) /\ Before(k, n, K, N)
         /\ \A k, n : Slot(k, n)' => (k = K /\ n = N) \/ Slot(k, n)
  BY AddsOneSlot
<1>2. /\ pfis' = pfis /\ count' = count /\ i' = i /\ fieldidx' = fieldidx + 1
  BY DEF AddField, input
<1>3. /\ i \in 1..Len(pfis) /\ i \in Nat /\ fieldidx \in 0..count[i] - 1
      /\ count[i] \in Nat /\ fieldidx \in Nat
  BY AddFieldCases
<1>4. ASSUME NEW k, NEW n, Slot(k, n)'
      PROVE /\ FieldNo(k, n)'.pfi \in 1..Len(pfis)
            /\ FieldNo(k, n)'.idx \in 0..count[FieldNo(k, n)'.pfi] - 1
            /\ Before(FieldNo(k, n)'.pfi, FieldNo(k, n)'.idx, i, fieldidx + 1)
  <2>1. CASE k = K /\ n = N
    BY <2>1, <1>1, <1>3 DEF Before
  <2>2. CASE Slot(k, n)
    <3>1. FieldNo(k, n)' = FieldNo(k, n)
      BY <2>2, <1>1
    <3>2. /\ FieldNo(k, n).pfi \in 1..Len(pfis) /\ FieldNo(k, n).pfi \in Nat
          /\ FieldNo(k, n).idx \in 0..count[FieldNo(k, n).pfi] - 1
          /\ FieldNo(k, n).idx \in Nat
          /\ Before(FieldNo(k, n).pfi, FieldNo(k, n).idx, i, fieldidx)
      BY <2>2, SlotFacts
    <3>3. Before(FieldNo(k, n).pfi, FieldNo(k, n).idx, i, fieldidx + 1)
      BY <3>2, <1>3 DEF Before
    <3> QED
      BY <3>1, <3>2, <3>3
  <2> QED
    BY <1>1, <1>4, <2>1, <2>2
<1>5. PlacedInv'
  BY <1>2, <1>4 DEF PlacedInv, Slot
<1>6. NothingLost'
  <2> SUFFICES ASSUME NEW f \in 1..Len(pfis), NEW j \in 0..count[f] - 1
               PROVE Before(f, j, i, fieldidx + 1) <=>
                        \E k, n : Slot(k, n)' /\ FieldNo(k, n)'.pfi = f /\ FieldNo(k, n)'.idx = j
    BY <1>2 DEF NothingLost, Slot
  <2>1. f \in Nat /\ j \in Nat
    <3>1. Len(pfis) \in Nat /\ count[f] \in Nat
      BY Naturals DEF IInv
    <3> QED
      BY <3>1
  <2>2. Before(f, j, i, fieldidx) <=>
           \E k, n : Slot(k, n) /\ FieldNo(k, n).pfi = f /\ FieldNo(k, n).idx = j
    BY DEF IInv, NothingLost, Slot
  <2>3. ASSUME NEW k, NEW n, Slot(k, n)', FieldNo(k, n)'.pfi = f, FieldNo(k, n)'.idx = j
        PROVE Before(f, j, i, fieldidx + 1)
    BY <1>4, <2>3
  <2>4. ASSUME Before(f, j, i, fieldidx + 1)
        PROVE \E k, n : Slot(k, n)' /\ FieldNo(k, n)'.pfi = f /\ FieldNo(k, n)'.idx = j
    <3>1. CASE f = i /\ j = fieldidx
      BY <3>1, <1>1
    <3>2. CASE ~(f = i /\ j = fieldidx)
      <4>1. Before(f, j, i, fieldidx)
        BY <3>2, <2>1, <2>4, <1>3 DEF Before
      <4>2. PICK k, n : Slot(k, n) /\ FieldNo(k, n).pfi = f /\ FieldNo(k, n).idx = j
        BY <4>1, <2>2
      <4>3. Slot(k, n)' /\ FieldNo(k, n)' = FieldNo(k, n)
        BY <4>2, <1>1
      <4> QED
        BY <4>2, <4>3
    <3> QED
      BY <3>1, <3>2
  <2> QED
    BY <2>3, <2>4
<1>7. InOrder'
  <2> SUFFICES ASSUME NEW k, NEW l, NEW n, NEW m, Slot(k, n)', Slot(l, m)',
                      Before(k, n, l, m)
               PROVE Before(FieldNo(k, n)'.pfi, FieldNo(k, n)'.idx,
                            FieldNo(l, m)'.pfi, FieldNo(l, m)'.idx)
    BY DEF InOrder, Slot
  <2>1. CASE Slot(k, n) /\ Slot(l, m)
    <3>1. FieldNo(k, n)' = FieldNo(k, n) /\ FieldNo(l, m)' = FieldNo(l, m)
      BY <2>1, <1>1
    <3>2. Before(FieldNo(k, n).pfi, FieldNo(k, n).idx, FieldNo(l, m).pfi, FieldNo(l, m).idx)
      BY <2>1 DEF IInv, InOrder, Slot
    <3> QED
      BY <3>1, <3>2
  <2>2. CASE Slot(k, n) /\ l = K /\ m = N
    <3>1. FieldNo(k, n)' = FieldNo(k, n)
      BY <2>2, <1>1
    <3>2. Before(FieldNo(k, n).pfi, FieldNo(k, n).idx, i, fieldidx)
      BY <2>2, SlotFacts
    <3> QED
      BY <3>1, <3>2, <2>2, <1>1
  <2>3. CASE k = K /\ n = N
    <3>1. Slot(l, m) => Before(l, m, K, N) /\ l \in Nat /\ m \in Nat
      BY <1>1, SlotFacts
    <3>2. ~Slot(l, m) => l = K /\ m = N
      BY <1>1
    <3>3. FALSE
      BY <3>1, <3>2, <2>3 DEF Before
    <3> QED
      BY <3>3
  <2> QED
    BY <1>1, <2>1, <2>2, <2>3
<1> QED
  BY <1>5, <1>6, <1>7

\* A well-formed buffer is well-formed with one more field behind the others.
LEMMA AddedWellFormed ==
    ASSUME NEW b \in Buffer, WellFormed(b), pfis' = pfis, i \in Nat, fieldidx \in Nat,
           NEW bytes \in Nat, bytes = ftdc_field_entity_size(pfis[i]),
           AddedTo(b, bytes), FTDC_CONTENT_MAX_LENGTH \in Nat
    PROVE WellFormed(buffer)'
<1> DEFINE Size(f) == ftdc_field_entity_size(pfis[f])
           e == [pfi |-> i, idx |-> fieldidx, at |-> b.content_length]
           fs == b.fields
           gs == buffer'.fields
<1>1. /\ gs = Append(fs, e)
      /\ buffer'.field_count = b.field_count + 1
      /\ buffer'.content_length = b.content_length + bytes
      /\ buffer'.request = b.request
      /\ b.content_length + bytes <= FTDC_CONTENT_MAX_LENGTH
  BY DEF AddedTo, Fits
<1>2. /\ fs \in Seq(Placed) /\ b.content_length \in Nat /\ e \in Placed
      /\ e.pfi = i /\ e.at = b.content_length
  BY DEF Buffer, Placed
<1>3. /\ b.request /\ b.field_count = Len(fs)
      /\ \A n \in 1..Len(fs) : fs[n].at = IF n = 1 THEN 0 ELSE fs[n - 1].at + Size(fs[n - 1].pfi)
      /\ b.content_length = IF fs = <<>> THEN 0 ELSE fs[Len(fs)].at + Size(fs[Len(fs)].pfi)
  BY DEF WellFormed
<1> HIDE DEF Size, e, fs, gs
<1>4. /\ Len(fs) \in Nat /\ Len(gs) = Len(fs) + 1 /\ gs[Len(fs) + 1] = e
      /\ \A n \in 1..Len(fs) : gs[n] = fs[n]
      /\ gs # <<>>
  BY <1>1, <1>2
<1>5. Len(fs) = 0 <=> fs = <<>>
  BY <1>2
<1>6. ASSUME NEW n \in 1..Len(gs)
      PROVE gs[n].at = IF n = 1 THEN 0 ELSE gs[n - 1].at + Size(gs[n - 1].pfi)
  <2>1. CASE n \in 1..Len(fs)
    <3>1. n # 1 => n - 1 \in 1..Len(fs)
      BY <2>1, <1>4
    <3> QED
      BY <3>1, <2>1, <1>3, <1>4
  <2>2. CASE n = Len(fs) + 1
    <3>1. gs[n].at = b.content_length
      BY <2>2, <1>2, <1>4
    <3>2. CASE n = 1
      BY <3>1, <3>2, <2>2, <1>3, <1>4, <1>5
    <3>3. CASE n # 1
      <4>1. fs # <<>> /\ n - 1 = Len(fs) /\ Len(fs) \in 1..Len(fs)
        BY <3>3, <2>2, <1>4, <1>5
      <4> QED
        BY <4>1, <3>1, <3>3, <1>3, <1>4
    <3> QED
      BY <3>2, <3>3
  <2> QED
    BY <2>1, <2>2, <1>4
<1>7. buffer'.content_length = gs[Len(gs)].at + Size(gs[Len(gs)].pfi)
  BY <1>1, <1>2, <1>4 DEF Size
<1>8. /\ buffer'.request /\ buffer'.field_count = Len(gs)
      /\ buffer'.content_length <= FTDC_CONTENT_MAX_LENGTH
  BY <1>1, <1>3, <1>4
<1>9. \A f : ftdc_field_entity_size(pfis'[f]) = Size(f)
  BY DEF Size
<1> QED
  BY <1>4, <1>6, <1>7, <1>8, <1>9 DEF WellFormed, gs, Size, ftdc_field_entity_size

\* AddField keeps the buffers well-formed, and splits only when one is full.
LEMMA AddFieldFills ==
    ASSUME IInv, AddField
    PROVE (BuffersWellFormed /\ SplitOnlyWhenFull)'
<1> DEFINE bytes == ftdc_field_entity_size(pfis[i])
<1>1. /\ i \in Nat /\ fieldidx \in Nat /\ bytes \in Nat
      /\ buffer \in Buffer /\ buffer' \in Buffer
      /\ output \in Seq(Buffer) /\ output' \in Seq(Buffer)
      /\ \/ output' = output /\ AddedTo(buffer, bytes)
         \/ /\ output' = Append(output, buffer) /\ AddedTo(StampedBuffer, bytes)
            /\ ~Fits(buffer, bytes)
  BY AddFieldCases
<1>2. pfis' = pfis /\ FTDC_CONTENT_MAX_LENGTH \in Nat
  BY PackagesAssumption DEF AddField, input
<1>3. /\ Len(output) \in Nat /\ WellFormed(buffer)
      /\ \A k \in 1..Len(output) : WellFormed(output[k])
  <2>1. Len(output) \in Nat
    BY <1>1
  <2> QED
    BY <2>1 DEF IInv, BuffersWellFormed, BufferNos, BufferNo
<1>4. \A b : WellFormed(b) => WellFormed(b)'
  BY <1>2 DEF WellFormed, ftdc_field_entity_size
<1>5. \A k \in 1..Len(output) :
         /\ Len(output[k].fields) > 0 /\ Len(BufferNo(k + 1).fields) > 0
         /\ ~Fits(output[k], ftdc_field_entity_size(pfis[BufferNo(k + 1).fields[1].pfi]))
  BY DEF IInv, SplitOnlyWhenFull, FieldNo
<1>6. /\ Len(buffer.fields) \in Nat /\ buffer.fields \in Seq(Placed)
      /\ Len(buffer'.fields) \in Nat /\ buffer'.fields \in Seq(Placed)
  BY <1>1 DEF Buffer
<1> DEFINE e(b) == [pfi |-> i, idx |-> fieldidx, at |-> b.content_length]
<1>7. e(buffer) \in Placed /\ e(StampedBuffer) \in Placed
  BY <1>1, StampedType DEF Buffer, Placed
<1>8. CASE output' = output /\ AddedTo(buffer, bytes)
  <2>1. WellFormed(buffer)'
    BY <1>1, <1>2, <1>3, <1>8, AddedWellFormed
  <2>2. BuffersWellFormed'
    <3> SUFFICES ASSUME NEW k \in 1..Len(output) + 1 PROVE WellFormed(BufferNo(k))'
      BY <1>8 DEF BuffersWellFormed, BufferNos
    <3>1. CASE k \in 1..Len(output)
      <4>1. BufferNo(k)' = output[k]
        BY <3>1, <1>8 DEF BufferNo
      <4>2. WellFormed(output[k])'
        BY <3>1, <1>2, <1>3, <1>8 DEF WellFormed, ftdc_field_entity_size
      <4> QED
        BY <4>1, <4>2, <3>1, <1>8 DEF WellFormed, BufferNo
    <3>2. CASE k = Len(output) + 1
      <4>1. ~(k <= Len(output'))
        BY <3>2, <1>3, <1>8
      <4> QED
        BY <4>1, <2>1 DEF WellFormed, BufferNo
    <3> QED
      BY <3>1, <3>2, <1>3
  <2>3. buffer'.fields = Append(buffer.fields, e(buffer))
    BY <1>8 DEF AddedTo
  <2> HIDE DEF e
  <2>4. /\ Len(buffer'.fields) = Len(buffer.fields) + 1
        /\ Len(buffer.fields) > 0 => buffer'.fields[1] = buffer.fields[1]
    BY <2>3, <1>6, <1>7
  <2>5. ASSUME NEW k \in 1..Len(output)
        PROVE /\ Len(BufferNo(k + 1)'.fields) > 0
              /\ BufferNo(k + 1)'.fields[1] = BufferNo(k + 1).fields[1]
    BY <2>4, <1>3, <1>5, <1>6, <1>8 DEF BufferNo
  <2>6. SplitOnlyWhenFull'
    BY <2>5, <1>2, <1>5, <1>8 DEF SplitOnlyWhenFull, FieldNo, Fits, ftdc_field_entity_size
  <2> QED
    BY <2>2, <2>6
<1>9. CASE /\ output' = Append(output, buffer) /\ AddedTo(StampedBuffer, bytes)
           /\ ~Fits(buffer, bytes)
  <2>1. StampedBuffer \in Buffer /\ WellFormed(StampedBuffer)
    BY <1>2, StampedType DEF WellFormed
  <2>2. WellFormed(buffer)'
    BY <2>1, <1>1, <1>2, <1>9, AddedWellFormed
  <2>3. /\ Len(output') = Len(output) + 1 /\ output'[Len(output) + 1] = buffer
        /\ \A k \in 1..Len(output) : output'[k] = output[k]
    BY <1>1, <1>9
  <2>4. \A k \in 1..Len(output) + 1 : BufferNo(k)' = BufferNo(k)
    BY <2>3, <1>3 DEF BufferNo
  <2>5. \A k : k = Len(output) + 2 => BufferNo(k)' = buffer'
    BY <2>3, <1>3 DEF BufferNo
  <2>6. BuffersWellFormed'
    <3> SUFFICES ASSUME NEW k \in 1..Len(output) + 2 PROVE WellFormed(BufferNo(k))'
      BY <2>3, <1>3 DEF BuffersWellFormed, BufferNos
    <3>1. CASE k \in 1..Len(output) + 1
      <4>1. WellFormed(BufferNo(k))
        BY <3>1 DEF IInv, BuffersWellFormed, BufferNos
      <4>2. BufferNo(k)' = BufferNo(k)
        BY <3>1, <2>4
      <4> QED
        BY <4>1, <4>2, <1>2 DEF WellFormed, ftdc_field_entity_size
    <3>2. CASE k = Len(output) + 2
      BY <3>2, <2>2, <2>5 DEF WellFormed
    <3> QED
      BY <3>1, <3>2, <1>3
  <2>7. buffer'.fields = Append(<<>>, e(StampedBuffer)) /\ e(StampedBuffer).pfi = i
    BY <1>9, StampedType DEF AddedTo
  <2> HIDE DEF e
  <2>8. Len(buffer'.fields) = 1 /\ buffer'.fields[1].pfi = i
    BY <2>7, <1>7
  <2>9. Len(buffer.fields) > 0
    <3>1. CASE buffer.fields = <<>>
      <4>1. buffer.content_length = 0
        BY <3>1, <1>3 DEF WellFormed
      <4>2. bytes <= FTDC_CONTENT_MAX_LENGTH
        BY AddFieldCases, EntitySize DEF IInv
      <4> QED
        BY <4>1, <4>2, <1>1, <1>2, <1>9 DEF Fits
    <3>2. CASE buffer.fields # <<>>
      BY <3>2, <1>6, EmptySeq
    <3> QED
      BY <3>1, <3>2
  <2>10. SplitOnlyWhenFull'
    <3> SUFFICES ASSUME NEW k \in 1..Len(output) + 1
                 PROVE /\ Len(output'[k].fields) > 0
                       /\ Len(BufferNo(k + 1)'.fields) > 0
                       /\ ~Fits(output'[k],
                                ftdc_field_entity_size(pfis[BufferNo(k + 1)'.fields[1].pfi]))
      BY <2>3, <1>2 DEF SplitOnlyWhenFull, FieldNo, Fits, ftdc_field_entity_size
    <3>1. CASE k \in 1..Len(output)
      <4>1. BufferNo(k + 1)' = BufferNo(k + 1) /\ output'[k] = output[k]
        BY <3>1, <2>3, <2>4, <1>3
      <4> QED
        BY <4>1, <3>1, <1>5
    <3>2. CASE k = Len(output) + 1
      <4>1. BufferNo(k + 1)' = buffer' /\ output'[k] = buffer
        BY <3>2, <2>3, <2>5, <1>3
      <4> QED
        BY <4>1, <2>8, <2>9, <1>9
    <3> QED
      BY <3>1, <3>2, <1>3
  <2> QED
    BY <2>6, <2>10
<1> QED
  BY <1>1, <1>8, <1>9

\* AddField keeps the types and the loops' bookkeeping.
LEMMA AddFieldLoops ==
    ASSUME IInv, AddField
    PROVE (TypeOK /\ LoopInv /\ CheckedInv)'
<1>1. /\ pc = "adding" /\ fieldidx < count[i] /\ <<i, fieldidx>> \notin missing
      /\ pfis' = pfis /\ count' = count /\ missing' = missing /\ pc' = pc /\ i' = i
      /\ fieldidx' = fieldidx + 1
  BY DEF AddField, input
<1>2. /\ i \in 1..Len(pfis) /\ i \in Nat /\ fieldidx \in Nat /\ count[i] \in Nat
      /\ buffer' \in Buffer /\ output' \in Seq(Buffer)
  BY AddFieldCases
<1>3. TypeOK'
  BY <1>1, <1>2 DEF IInv, TypeOK
<1>4. LoopInv'
  BY <1>1, <1>2 DEF IInv, LoopInv
<1>5. CheckedInv'
  <2>1. \A f \in 1..Len(pfis) : f < i \/ f = i => Conforms(f)
    BY <1>1 DEF IInv, CheckedInv
  <2>2. \A f \in 1..Len(pfis) : (f < i' \/ (pc' = "adding" /\ f = i')) => Conforms(f)'
    BY <2>1, <1>1 DEF Conforms
  <2>3. ASSUME NEW f \in 1..Len(pfis), NEW j \in 0..count[f] - 1, Before(f, j, i, fieldidx + 1)
        PROVE <<f, j>> \notin missing
    <3>1. f \in Nat /\ j \in Nat
      <4>1. Len(pfis) \in Nat /\ count[f] \in Nat
        BY Naturals DEF IInv
      <4> QED
        BY <4>1
    <3>2. CASE f = i /\ j = fieldidx
      BY <3>2, <1>1
    <3>3. CASE ~(f = i /\ j = fieldidx)
      <4>1. Before(f, j, i, fieldidx)
        BY <3>1, <3>3, <2>3, <1>2 DEF Before
      <4> QED
        BY <4>1 DEF IInv, CheckedInv
    <3> QED
      BY <3>2, <3>3
  <2> QED
    BY <2>2, <2>3, <1>1 DEF CheckedInv
<1> QED
  BY <1>3, <1>4, <1>5

\* A step that leaves the buffers alone and moves the loops past no field
\* keeps what is said of the buffers.
LEMMA BuffersAlone ==
    ASSUME IInv, UNCHANGED <<input, buffer, output>>,
           \A f \in 1..Len(pfis) : \A j \in 0..count[f] - 1 :
              Before(f, j, i, fieldidx) <=> Before(f, j, i', fieldidx')
    PROVE (PlacedInv /\ NothingLost /\ InOrder /\ BuffersWellFormed /\ SplitOnlyWhenFull)'
<1>1. pfis' = pfis /\ count' = count /\ buffer' = buffer /\ output' = output
  BY DEF input
<1>2. BufferNos' = BufferNos
  BY <1>1 DEF BufferNos
<1>3. \A k : BufferNo(k)' = BufferNo(k)
  BY <1>1 DEF BufferNo
<1>4. \A k : FieldNos(k)' = FieldNos(k)
  BY <1>3 DEF FieldNos
<1>5. \A k, n : FieldNo(k, n)' = FieldNo(k, n)
  BY <1>3 DEF FieldNo
<1>6. PlacedInv'
  BY <1>1, <1>2, <1>4, <1>5 DEF IInv, PlacedInv
<1>7. NothingLost'
  BY <1>1, <1>2, <1>4, <1>5 DEF IInv, NothingLost
<1>8. InOrder'
  BY <1>2, <1>4, <1>5 DEF IInv, InOrder
<1>9. BuffersWellFormed'
  <2> SUFFICES ASSUME NEW k \in BufferNos PROVE WellFormed(BufferNo(k))'
    BY <1>2 DEF BuffersWellFormed
  <2>1. WellFormed(BufferNo(k))
    BY DEF IInv, BuffersWellFormed
  <2> QED
    BY <2>1, <1>1, <1>3 DEF WellFormed, ftdc_field_entity_size
<1>10. SplitOnlyWhenFull'
  BY <1>1 DEF IInv, SplitOnlyWhenFull, FieldNo, BufferNo, Fits, ftdc_field_entity_size
<1> QED
  BY <1>6, <1>7, <1>8, <1>9, <1>10

\* The invariant holds when the call starts.
LEMMA InitIInv == Init => IInv
<1> SUFFICES ASSUME Init PROVE IInv
  OBVIOUS
<1>1. /\ pfis \in Packages /\ count \in [1..Len(pfis) -> Counts]
      /\ missing \in SUBSET UNION {{f} \X (0..count[f] - 1) : f \in 1..Len(pfis)}
      /\ pc = "checking" /\ i = 1 /\ fieldidx = 0
      /\ buffer = StampedBuffer /\ output = <<>>
  BY DEF Init
<1>2. Len(pfis) \in Nat /\ \A f \in 1..Len(pfis) : count[f] \in Nat
  <2>1. pfis \in Seq(Pfi)
    BY <1>1, PackagesAssumption
  <2>2. ASSUME NEW f \in 1..Len(pfis) PROVE count[f] \in Counts
    BY <1>1
  <2>3. Counts \subseteq Nat
    BY PackagesAssumption
  <2>4. \A f \in 1..Len(pfis) : count[f] \in Nat
    BY <2>2, <2>3, Zenon
  <2>5. Len(pfis) \in Nat
    BY <2>1
  <2> QED
    BY <2>4, <2>5
<1>3. missing \subseteq (1..Len(pfis)) \X Nat
  <2> SUFFICES ASSUME NEW m \in missing PROVE m \in (1..Len(pfis)) \X Nat
    OBVIOUS
  <2> DEFINE Of(f) == {f} \X (0..count[f] - 1)
  <2>1. PICK f \in 1..Len(pfis) : m \in Of(f)
    <3>1. m \in UNION {Of(f) : f \in 1..Len(pfis)}
      BY <1>1
    <3> HIDE DEF Of
    <3> QED
      BY <3>1, Zenon
  <2>2. m[1] = f /\ m[2] \in 0..count[f] - 1 /\ m = <<m[1], m[2]>>
    BY <2>1
  <2>3. m[2] \in Nat
    BY <2>2, <1>2
  <2> QED
    BY <2>2, <2>3
<1>4. TypeOK
  <2>1. output \in Seq(Buffer) /\ buffer \in Buffer
    BY <1>1, StampedType, EmptySeq
  <2> QED
    BY <2>1, <1>1, <1>2, <1>3 DEF TypeOK, Looping
<1>5. Len(output) = 0 /\ Len(buffer.fields) = 0
  BY <1>1, StampedType
<1>6. \A k \in BufferNos : BufferNo(k) = buffer /\ FieldNos(k) = {}
  BY <1>5 DEF BufferNos, BufferNo, FieldNos
<1>7. \A f \in 1..Len(pfis) : \A j \in 0..count[f] - 1 : ~Before(f, j, i, fieldidx)
  BY <1>1, <1>2 DEF Before
<1>8. LoopInv /\ CheckedInv
  BY <1>1, <1>2, <1>7 DEF LoopInv, CheckedInv
<1>9. PlacedInv /\ NothingLost /\ InOrder
  BY <1>6, <1>7 DEF PlacedInv, NothingLost, InOrder
<1>10. BuffersWellFormed
  <2>1. WellFormed(StampedBuffer)
    BY StampedType, PackagesAssumption DEF WellFormed
  <2> QED
    BY <2>1, <1>1, <1>6 DEF BuffersWellFormed
<1>11. SplitOnlyWhenFull
  BY <1>5 DEF SplitOnlyWhenFull
<1> QED
  BY <1>4, <1>8, <1>9, <1>10, <1>11 DEF IInv

\* Every step keeps the invariant.
LEMMA NextIInv == IInv /\ [Next]_vars => IInv'
<1> SUFFICES ASSUME IInv, [Next]_vars PROVE IInv'
  OBVIOUS
<1>1. TypeOK /\ LoopInv /\ CheckedInv
  BY DEF IInv
<1>2. Len(pfis) \in Nat /\ i \in Nat /\ fieldidx \in Nat
      /\ \A f \in 1..Len(pfis) : count[f] \in Nat
  BY <1>1, Naturals DEF TypeOK
<1>3. CASE CheckOccurs
  <2>1. /\ pc = "checking" /\ i <= Len(pfis)
        /\ pc' = (IF Occurs /\ pfis[i].defined THEN "adding" ELSE "threw")
        /\ UNCHANGED <<input, i, fieldidx, buffer, output>>
    BY <1>3 DEF CheckOccurs
  <2>2. TypeOK'
    BY <2>1, <1>1 DEF TypeOK, input, Looping, Ended
  <2>3. fieldidx = 0 /\ i \in 1..Len(pfis)
    BY <2>1, <1>1, <1>2 DEF LoopInv, TypeOK
  <2>4. LoopInv'
    BY <2>1, <2>3, <1>2 DEF LoopInv, input
  <2>5. CheckedInv'
    BY <2>1, <2>3, <1>1, <1>2 DEF CheckedInv, Conforms, Occurs, input
  <2> QED
    BY <2>1, <2>2, <2>4, <2>5, BuffersAlone DEF IInv
<1>4. CASE AddField
  BY <1>4, AddFieldPlaces, AddFieldFills, AddFieldLoops DEF IInv
<1>5. CASE AddMissing
  <2>1. /\ pc = "adding" /\ pc' = "crashed"
        /\ UNCHANGED <<input, i, fieldidx, buffer, output>>
    BY <1>5 DEF AddMissing
  <2>2. TypeOK'
    BY <2>1, <1>1 DEF TypeOK, input, Looping, Ended
  <2>3. LoopInv'
    BY <2>1, <1>1 DEF LoopInv, input
  <2>4. CheckedInv'
    BY <2>1, <1>1 DEF CheckedInv, Conforms, input
  <2> QED
    BY <2>1, <2>2, <2>3, <2>4, BuffersAlone DEF IInv
<1>6. CASE NextEntry
  <2>1. /\ pc = "adding" /\ fieldidx = count[i] /\ pc' = "checking"
        /\ i' = i + 1 /\ fieldidx' = 0
        /\ UNCHANGED <<input, buffer, output>>
    BY <1>6 DEF NextEntry
  <2>2. i \in 1..Len(pfis)
    BY <2>1, <1>1, <1>2 DEF LoopInv, TypeOK
  <2>3. TypeOK'
    BY <2>1, <2>2, <1>1, <1>2 DEF TypeOK, input, Looping, Ended
  <2>4. LoopInv'
    BY <2>1 DEF LoopInv
  <2>5. \A f \in 1..Len(pfis) : \A j \in 0..count[f] - 1 :
           Before(f, j, i, fieldidx) <=> Before(f, j, i', fieldidx')
    BY <2>1, <2>2, <1>2 DEF Before
  <2>6. CheckedInv'
    <3>1. \A f \in 1..Len(pfis) : f < i + 1 => Conforms(f)
      BY <2>1, <2>2, <1>1, <1>2 DEF CheckedInv
    <3> QED
      BY <3>1, <2>1, <2>5, <1>1 DEF CheckedInv, Conforms, input
  <2> QED
    BY <2>1, <2>3, <2>4, <2>5, <2>6, BuffersAlone DEF IInv
<1>7. CASE Return
  <2>1. /\ pc = "checking" /\ i = Len(pfis) + 1 /\ pc' = "returned"
        /\ UNCHANGED <<input, i, fieldidx, buffer, output>>
    BY <1>7 DEF Return
  <2>2. TypeOK'
    BY <2>1, <1>1 DEF TypeOK, input, Looping, Ended
  <2>3. LoopInv'
    BY <2>1, <1>1 DEF LoopInv, input
  <2>4. CheckedInv'
    BY <2>1, <1>1 DEF CheckedInv, Conforms, input
  <2> QED
    BY <2>1, <2>2, <2>3, <2>4, BuffersAlone DEF IInv
<1>8. CASE UNCHANGED vars
  <2>1. UNCHANGED <<pfis, count, missing, pc, i, fieldidx, buffer, output>>
    BY <1>8 DEF vars, input
  <2>2. TypeOK' /\ LoopInv' /\ CheckedInv'
    BY <2>1, <1>1 DEF TypeOK, LoopInv, CheckedInv, Conforms
  <2> QED
    BY <2>1, <2>2, BuffersAlone DEF IInv, input
<1> QED
  BY <1>3, <1>4, <1>5, <1>6, <1>7, <1>8 DEF Next, Over

-----------------------------------------------------------------------------
(* The results.                                                            *)

\* serialize_ftdc_content keeps the inductive invariant.
THEOREM SerializeInvariant == Spec => []IInv
<1> QED
  BY InitIInv, NextIInv, PTL DEF Spec

\* Types and loop counters stay in range for every response.
THEOREM SerializeTypeCorrect == Spec => []TypeOK
<1>1. IInv => TypeOK
  BY DEF IInv
<1> QED
  BY <1>1, SerializeInvariant, PTL

\* Splitting a response into buffers loses no field.
THEOREM NothingLostCorrect == Spec => []NothingLost
<1>1. IInv => NothingLost
  BY DEF IInv
<1> QED
  BY <1>1, SerializeInvariant, PTL

\* Fields are neither doubled nor moved.
THEOREM InOrderCorrect == Spec => []InOrder
<1>1. IInv => InOrder
  BY DEF IInv
<1> QED
  BY <1>1, SerializeInvariant, PTL

\* Every buffer is within its capacity and its header describes it.
THEOREM BuffersCorrect == Spec => []BuffersWellFormed
<1>1. IInv => BuffersWellFormed
  BY DEF IInv
<1> QED
  BY <1>1, SerializeInvariant, PTL

\* No more buffers are made than the fields need in that order.
THEOREM SplitCorrect == Spec => []SplitOnlyWhenFull
<1>1. IInv => SplitOnlyWhenFull
  BY DEF IInv
<1> QED
  BY <1>1, SerializeInvariant, PTL

\* Only a response that has the fields the protocol wants is returned.
THEOREM ReturnsCorrect == Spec => []ReturnsOnlyConforming
<1>1. IInv => ReturnsOnlyConforming
  <2> SUFFICES ASSUME IInv, pc = "returned", NEW f \in 1..Len(pfis)
               PROVE Conforms(f) /\ \A j \in 0..count[f] - 1 : <<f, j>> \notin missing
    BY DEF ReturnsOnlyConforming, Conforms
  <2>1. i = Len(pfis) + 1 /\ Len(pfis) \in Nat
    BY Naturals DEF IInv, LoopInv
  <2>2. f < i
    BY <2>1
  <2> QED
    BY <2>2 DEF IInv, CheckedInv, Before
<1> QED
  BY <1>1, SerializeInvariant, PTL
-----------------------------------------------------------------------------
(* get_field: the walk by lengths stands at the field it is after.         *)

\* Each field begins behind the ones before it.
LEMMA OffsetsGrow ==
    ASSUME TypeOK, NEW b, WellFormed(b), Len(b.fields) \in Nat,
           \A n \in 1..Len(b.fields) : b.fields[n].pfi \in 1..Len(pfis)
    PROVE  \A n \in 1..Len(b.fields) : /\ b.fields[n].at \in Nat
                                       /\ \A m \in 1..n - 1 : b.fields[m].at < b.fields[n].at
<1> DEFINE N == Len(b.fields)
           At(n) == b.fields[n].at
           Size(n) == ftdc_field_entity_size(pfis[b.fields[n].pfi])
           T == {n \in 0..N : n > 0 => At(n) \in Nat /\ \A m \in 1..n - 1 : At(m) \in Nat /\ At(m) < At(n)}
<1>1. N \in Nat /\ \A n \in 1..N : At(n) = IF n = 1 THEN 0 ELSE At(n - 1) + Size(n - 1)
  BY DEF WellFormed
<1>2. \A n \in 1..N : Size(n) \in Nat \ {0}
  BY EntitySize
<1> HIDE DEF N, At, Size
<1>3. 0 \in T
  BY <1>1
<1>4. ASSUME NEW n \in 0..N, n \in T, n < N PROVE n + 1 \in T
  <2>1. CASE n = 0
    <3>1. At(1) = 0
      BY <1>1, <1>4, <2>1
    <3> QED BY <3>1, <1>1, <1>4, <2>1
  <2>2. CASE n > 0
    <3>1. At(n + 1) = At(n) + Size(n) /\ Size(n) \in Nat \ {0} /\ At(n) \in Nat
      BY <1>1, <1>2, <1>4, <2>2
    <3>2. ASSUME NEW m \in 1..n PROVE At(m) \in Nat /\ At(m) < At(n + 1)
      <4>1. CASE m = n
        BY <3>1, <4>1
      <4>2. CASE m # n
        <5>1. m \in 1..n - 1 /\ m \in 1..N
          BY <1>1, <1>4, <4>2
        <5>2. At(m) \in Nat /\ At(m) < At(n)
          BY <1>4, <2>2, <5>1
        <5> QED BY <3>1, <5>2
      <4> QED BY <4>1, <4>2
    <3> QED BY <3>1, <3>2, <1>1, <1>4
  <2> QED BY <2>1, <2>2, <1>1, <1>4
<1> HIDE DEF T
<1>5. \A n \in 0..N : n \in T
  BY <1>1, <1>3, <1>4, BoundedInduction
<1> QED BY <1>1, <1>5 DEF T, N, At

\* So get_field finds field n + 1 of a buffer at index n.
LEMMA WalkFinds ==
    ASSUME TypeOK, NEW b, WellFormed(b), Len(b.fields) \in Nat,
           \A n \in 1..Len(b.fields) : b.fields[n].pfi \in 1..Len(pfis),
           NEW index \in 0..Len(b.fields) - 1
    PROVE  get_field(b, index) = b.fields[index + 1]
<1> DEFINE N == Len(b.fields)
           fs == b.fields
           FieldAt(pos) == CHOOSE e \in {b.fields[n] : n \in 1..Len(b.fields)} : e.at = pos
           Body(f) == [n \in 0..index |->
               IF n = 0 THEN 0
               ELSE f[n - 1] + ftdc_field_entity_size(pfis[FieldAt(f[n - 1]).pfi])]
           walk == CHOOSE f : f = Body(f)
           w == [n \in 0..index |-> fs[n + 1].at]
<1>1. get_field(b, index) = FieldAt(walk[index])
  BY Zenon DEF get_field
<1>2. \A n \in 1..N : FieldAt(fs[n].at) = fs[n]
  <2> TAKE n \in 1..N
  <2>1. \A m \in 1..N : fs[m].at = fs[n].at => m = n
    BY OffsetsGrow
  <2> QED BY <2>1
<1>3. \A n \in 1..N : fs[n].at = IF n = 1 THEN 0
                                 ELSE fs[n - 1].at + ftdc_field_entity_size(pfis[fs[n - 1].pfi])
  BY DEF WellFormed
<1>4. N \in Nat /\ index \in 0..N - 1
  OBVIOUS
<1> HIDE DEF FieldAt, N, fs
<1>5. w = Body(w)
  <2>1. ASSUME NEW n \in 0..index
        PROVE  w[n] = IF n = 0 THEN 0 ELSE w[n - 1] + ftdc_field_entity_size(pfis[FieldAt(w[n - 1]).pfi])
    <3>1. CASE n = 0
      BY <1>3, <1>4, <3>1
    <3>2. CASE n # 0
      <4>1. n \in 1..N /\ n + 1 \in 1..N /\ n - 1 \in 0..index /\ (n - 1) + 1 = n /\ (n + 1) - 1 = n
        BY <1>4, <3>2
      <4>2. w[n] = fs[n].at + ftdc_field_entity_size(pfis[fs[n].pfi]) /\ w[n - 1] = fs[n].at
        BY <1>3, <4>1, <3>2
      <4>3. FieldAt(w[n - 1]) = fs[n]
        BY <1>2, <4>1, <4>2
      <4> QED BY <3>2, <4>2, <4>3
    <3> QED BY <3>1, <3>2
  <2>2. w = [n \in 0..index |-> w[n]]
    OBVIOUS
  <2> HIDE DEF w
  <2> QED BY <2>1, <2>2
<1> HIDE DEF w
<1>6. walk = Body(walk)
  BY <1>5
<1> HIDE DEF walk
<1>7. \A n \in 0..index : walk[n] = IF n = 0 THEN 0
                  ELSE walk[n - 1] + ftdc_field_entity_size(pfis[FieldAt(walk[n - 1]).pfi])
  <2>1. \A n \in 0..index : walk[n] = Body(walk)[n]
    <3> HIDE DEF Body
    <3> QED BY <1>6
  <2>2. \A n \in 0..index : Body(walk)[n] = IF n = 0 THEN 0
                  ELSE walk[n - 1] + ftdc_field_entity_size(pfis[FieldAt(walk[n - 1]).pfi])
    OBVIOUS
  <2> HIDE DEF Body
  <2> QED BY <2>1, <2>2
<1> DEFINE T == {n \in 0..index : walk[n] = fs[n + 1].at}
<1> HIDE DEF Body
<1>8. 0 \in T
  BY <1>3, <1>4, <1>7
<1>9. ASSUME NEW n \in 0..index, n \in T, n < index PROVE n + 1 \in T
  <2>1. n + 1 \in 1..N /\ n + 2 \in 1..N /\ (n + 1) - 1 = n /\ (n + 2) - 1 = n + 1 /\ n + 1 \in 0..index
        /\ n + 1 # 0 /\ n + 2 # 1 /\ (n + 1) + 1 = n + 2
    BY <1>4, <1>9
  <2>2. walk[n] = fs[n + 1].at
    BY <1>9
  <2>3. FieldAt(walk[n]) = fs[n + 1]
    BY <1>2, <2>1, <2>2
  <2>4. walk[n + 1] = fs[n + 1].at + ftdc_field_entity_size(pfis[fs[n + 1].pfi])
    BY <1>7, <2>1, <2>2, <2>3
  <2>5. fs[n + 2].at = fs[n + 1].at + ftdc_field_entity_size(pfis[fs[n + 1].pfi])
    BY <1>3, <2>1
  <2> QED BY <2>1, <2>4, <2>5
<1> HIDE DEF T
<1>10. index \in T
  <2>1. index \in Nat /\ index \in 0..index
    BY <1>4
  <2>2. \A n \in 0..index : n \in T
    BY <1>8, <1>9, <2>1, BoundedInduction
  <2> QED BY <2>1, <2>2
<1>11. walk[index] = fs[index + 1].at /\ index + 1 \in 1..N
  BY <1>4, <1>10 DEF T
<1>12. FieldAt(walk[index]) = fs[index + 1]
  BY <1>2, <1>11
<1> QED BY <1>1, <1>12 DEF fs

\* Every buffer of the chain can be taken apart with get_field.
THEOREM GetFieldCorrect == Spec => []GetFieldFinds
<1>1. IInv => GetFieldFinds
  <2> SUFFICES ASSUME IInv, NEW k \in BufferNos, NEW n \in FieldNos(k)
               PROVE  get_field(BufferNo(k), n - 1) = FieldNo(k, n)
    BY DEF GetFieldFinds
  <2>1. TypeOK /\ WellFormed(BufferNo(k)) /\ \A m \in FieldNos(k) : FieldNo(k, m).pfi \in 1..Len(pfis)
    BY DEF IInv, BuffersWellFormed, PlacedInv
  <2>2. Len(BufferNo(k).fields) \in Nat
    <3>1. BufferNo(k) \in Buffer
      BY <2>1 DEF TypeOK, BufferNo, BufferNos
    <3> QED BY <3>1, LenProperties DEF Buffer
  <2>3. n - 1 \in 0..Len(BufferNo(k).fields) - 1 /\ (n - 1) + 1 = n
    BY <2>2 DEF FieldNos
  <2>4. get_field(BufferNo(k), n - 1) = BufferNo(k).fields[(n - 1) + 1]
    BY <2>1, <2>2, <2>3, WalkFinds DEF FieldNos, FieldNo
  <2> QED BY <2>3, <2>4 DEF FieldNo
<1> QED
  BY <1>1, SerializeInvariant, PTL

-----------------------------------------------------------------------------
(* Items: texts and streams.                                               *)

\* a ends where the first character of b, if there is one, is in Stops.
Ends(a, b, Stops) ==
    /\ \A k \in 1..Len(a) : a[k] \notin Stops
    /\ b = <<>> \/ b[1] \in Stops

\* A text is its beginning up to a character and the rest.
LEMMA UpToSplits ==
    ASSUME NEW S, NEW s \in Seq(S), NEW Stops
    PROVE  \E b \in Seq(S) :
              /\ UpTo(s, Stops) \in Seq(S)
              /\ s = UpTo(s, Stops) \o b
              /\ Ends(UpTo(s, Stops), b, Stops)
<1> DEFINE I == {k \in 1..Len(s) : s[k] \in Stops}
           n == IF I = {} THEN Len(s) ELSE Min(I) - 1
<1>0. Len(s) \in Nat /\ \A k \in 1..Len(s) : s[k] \in S
  BY LenProperties, ElementOfSeq
<1>1. I # {} => Min(I) \in I /\ \A k \in I : Min(I) <= k
  <2> SUFFICES ASSUME I # {} PROVE Min(I) \in I /\ \A k \in I : Min(I) <= k
    OBVIOUS
  <2>1. I \subseteq Nat
    BY <1>0
  <2> HIDE DEF I
  <2>2. \E m \in I : \A k \in I : m <= k
    BY <2>1, LeastNatural
  <2> QED BY <2>2, Zenon DEF Min
<1>2. UpTo(s, Stops) = IF I = {} THEN s ELSE SubSeq(s, 1, n)
  <2>1. UpTo(s, Stops) = IF (IF I # {} THEN Min(I) ELSE 0) = 0 THEN s
                         ELSE SubSeq(s, 1, (IF I # {} THEN Min(I) ELSE 0) - 1)
    BY Zenon DEF UpTo, SelectInSeq
  <2>2. I # {} => Min(I) # 0
    BY <1>0, <1>1
  <2> QED BY <2>1, <2>2
<1>3. /\ n \in 0..Len(s) /\ \A k \in 1..n : s[k] \notin Stops
      /\ n < Len(s) => s[n + 1] \in Stops
  <2>1. CASE I = {}
    BY <2>1, <1>0
  <2>2. CASE I # {}
    <3>1. Min(I) \in 1..Len(s) /\ s[Min(I)] \in Stops /\ \A k \in 1..Len(s) : s[k] \in Stops => Min(I) <= k
      BY <2>2, <1>1
    <3>2. n = Min(I) - 1
      BY <2>2
    <3> HIDE DEF n, I
    <3>3. n + 1 = Min(I)
      BY <3>1, <3>2, <1>0
    <3>4. n \in 0..Len(s) /\ \A k \in 1..n : k \in 1..Len(s) /\ ~(Min(I) <= k)
      BY <3>1, <3>2, <1>0
    <3> QED BY <3>1, <3>3, <3>4
  <2> QED BY <2>1, <2>2
<1>4. UpTo(s, Stops) = SubSeq(s, 1, n)
  BY <1>2, SubSeqFull
<1> HIDE DEF n
<1> DEFINE b == SubSeq(s, n + 1, Len(s))
<1>5. /\ SubSeq(s, 1, n) \in Seq(S) /\ Len(SubSeq(s, 1, n)) = n
      /\ \A k \in 1..n : SubSeq(s, 1, n)[k] = s[k]
  <2>1. \A k \in 1..n : s[k] \in S
    BY <1>0, <1>3
  <2>2. n \in Int
    BY <1>3
  <2>3. /\ SubSeq(s, 1, n) \in Seq(S) /\ Len(SubSeq(s, 1, n)) = IF 1 <= n THEN n - 1 + 1 ELSE 0
        /\ \A k \in 1..n - 1 + 1 : SubSeq(s, 1, n)[k] = s[1 + k - 1]
    BY <2>1, <2>2, SubSeqProperties
  <2> QED BY <2>3, <1>3, <1>0
<1>6. /\ b \in Seq(S)
      /\ b = <<>> \/ (n < Len(s) /\ b[1] = s[n + 1])
  <2>1. \A k \in n + 1..Len(s) : s[k] \in S
    BY <1>0, <1>3
  <2>2. n + 1 \in Int /\ Len(s) \in Int
    BY <1>3, <1>0
  <2>3. /\ b \in Seq(S) 
        /\ \A k \in 1..Len(s) - (n + 1) + 1 : b[k] = s[(n + 1) + k - 1]
    BY <2>1, <2>2, SubSeqProperties
  <2>4. n = Len(s) => b = <<>>
    BY <2>2, SubSeqEmpty, <1>0
  <2>5. n < Len(s) => b[1] = s[n + 1]
    BY <2>3, <1>3, <1>0
  <2> QED BY <2>3, <2>4, <2>5, <1>3, <1>0
<1>7. s = SubSeq(s, 1, n) \o b
  <2>1. SubSeq(s, 1, n) \o SubSeq(s, n + 1, Len(s)) = SubSeq(s, 1, Len(s))
    <3>1. 1 \in 1..Len(s) + 1 /\ n \in 1 - 1..Len(s) /\ Len(s) \in n..Len(s)
      BY <1>0, <1>3
    <3> QED BY <3>1, ConcatAdjacentSubSeq
  <2> QED BY <2>1, SubSeqFull
<1> HIDE DEF b
<1>8. Ends(SubSeq(s, 1, n), b, Stops)
  BY <1>3, <1>5, <1>6 DEF Ends
<1> QED BY <1>4, <1>5, <1>6, <1>7, <1>8

\* Of two ways to end a text in front of such a character none is longer.
LEMMA NotLonger ==
    ASSUME NEW S, NEW a \in Seq(S), NEW b \in Seq(S), NEW c \in Seq(S), NEW d \in Seq(S),
           NEW Stops, a \o b = c \o d, Ends(a, b, Stops), Ends(c, d, Stops)
    PROVE  Len(a) <= Len(c)
<1> SUFFICES ASSUME Len(c) < Len(a) PROVE FALSE
  BY LenProperties
<1>1. Len(a) \in Nat /\ Len(b) \in Nat /\ Len(c) \in Nat /\ Len(d) \in Nat
  BY LenProperties
<1> DEFINE k == Len(c) + 1
<1>2. /\ Len(a \o b) = Len(a) + Len(b) /\ Len(c \o d) = Len(c) + Len(d)
      /\ \A m \in 1..Len(a) + Len(b) : (a \o b)[m] = IF m <= Len(a) THEN a[m] ELSE b[m - Len(a)]
      /\ \A m \in 1..Len(c) + Len(d) : (c \o d)[m] = IF m <= Len(c) THEN c[m] ELSE d[m - Len(c)]
  BY ConcatProperties
<1>3. k \in 1..Len(a) /\ k \in 1..Len(a) + Len(b) /\ k \in 1..Len(c) + Len(d) /\ ~(k <= Len(c)) /\ k - Len(c) = 1
  BY <1>1, <1>2
<1>4. a[k] = d[1]
  BY <1>2, <1>3
<1>5. d # <<>>
  <2>1. Len(d) # 0
    BY <1>1, <1>2
  <2> QED BY <2>1
<1> QED BY <1>3, <1>4, <1>5 DEF Ends

\* And a text that ends there is what is found.
LEMMA UpToConcat ==
    ASSUME NEW S, NEW a \in Seq(S), NEW b \in Seq(S), NEW Stops, Ends(a, b, Stops)
    PROVE  UpTo(a \o b, Stops) = a
<1>1. a \o b \in Seq(S)
  BY ConcatProperties
<1>2. PICK d \in Seq(S) : /\ UpTo(a \o b, Stops) \in Seq(S)
                          /\ a \o b = UpTo(a \o b, Stops) \o d
                          /\ Ends(UpTo(a \o b, Stops), d, Stops)
  BY <1>1, UpToSplits
<1> DEFINE c == UpTo(a \o b, Stops)
<1>3. c \in Seq(S) /\ a \o b = c \o d /\ Ends(c, d, Stops)
  BY <1>2
<1> HIDE DEF c
<1>4. Len(a) <= Len(c) /\ Len(c) <= Len(a)
  BY <1>3, NotLonger
<1>5. Len(a) \in Nat /\ Len(b) \in Nat /\ Len(c) \in Nat /\ Len(d) \in Nat
  BY <1>3, LenProperties
<1>6. \A k \in 1..Len(a) : a[k] = c[k]
  <2>1. /\ \A m \in 1..Len(a) + Len(b) : (a \o b)[m] = IF m <= Len(a) THEN a[m] ELSE b[m - Len(a)]
        /\ \A m \in 1..Len(c) + Len(d) : (c \o d)[m] = IF m <= Len(c) THEN c[m] ELSE d[m - Len(c)]
    BY <1>3, ConcatProperties
  <2> SUFFICES ASSUME NEW k \in 1..Len(a) PROVE a[k] = c[k]
    OBVIOUS
  <2>2. k \in 1..Len(a) + Len(b) /\ k \in 1..Len(c) + Len(d) /\ k <= Len(a) /\ k <= Len(c)
    BY <1>4, <1>5
  <2> QED BY <2>1, <2>2, <1>3
<1>7. a = c
  <2>1. Len(a) = Len(c)
    BY <1>4, <1>5
  <2> QED BY <2>1, <1>3, <1>6, SeqEqual
<1> QED BY <1>7 DEF c

\* What is in front of the first other character, and the rest.
LEMMA LeadingSplits ==
    ASSUME NEW S, NEW s \in Seq(S), NEW C
    PROVE  \E b \in Seq(S) :
              /\ Leading(s, C) \in Seq(S) /\ Leading(s, C) \in Seq(C)
              /\ s = Leading(s, C) \o b
              /\ b = <<>> \/ b[1] \notin C
<1> DEFINE a == Leading(s, C)
<1>1. PICK b \in Seq(S) : a \in Seq(S) /\ s = a \o b /\ Ends(a, b, Range(s) \ C)
  BY UpToSplits, Zenon DEF Leading
<1> HIDE DEF a
<1>2. Len(a) \in Nat /\ Range(s) = Range(a) \cup Range(b)
  BY <1>1, LenProperties, RangeConcatenation
<1>3. Range(a) = {a[k] : k \in 1..Len(a)} /\ Range(b) = {b[k] : k \in 1..Len(b)}
  BY <1>1, RangeEquality
<1>4. a \in Seq(C)
  <2>1. \A k \in 1..Len(a) : a[k] \in C
    BY <1>1, <1>2, <1>3 DEF Ends
  <2>2. a \in [1..Len(a) -> C]
    BY <2>1, <1>1, LenProperties
  <2> QED BY <2>2, <1>2, FunctionIsSequence
<1>5. b = <<>> \/ b[1] \notin C
  BY <1>1 DEF Ends
<1> QED BY <1>1, <1>4, <1>5 DEF a

\* Characters of a class are found when no other of them follows.
LEMMA LeadingConcat ==
    ASSUME NEW S, NEW a \in Seq(S), NEW b \in Seq(S), NEW C,
           a \in Seq(C), b = <<>> \/ b[1] \notin C
    PROVE  Leading(a \o b, C) = a
<1>1. \A k \in 1..Len(a) : a[k] \in C
  BY ElementOfSeq
<1>2. Range(a \o b) = Range(a) \cup Range(b)
  BY RangeConcatenation
<1>3. b # <<>> => b[1] \in Range(b)
  <2> SUFFICES ASSUME b # <<>> PROVE b[1] \in Range(b)
    OBVIOUS
  <2>1. Len(b) \in Nat \ {0}
    BY EmptySeq
  <2>2. Range(b) = {b[k] : k \in 1..Len(b)} /\ 1 \in 1..Len(b)
    BY <2>1, RangeEquality
  <2> QED BY <2>2
<1>4. Ends(a, b, Range(a \o b) \ C)
  BY <1>1, <1>2, <1>3 DEF Ends
<1>5. UpTo(a \o b, Range(a \o b) \ C) = a
  BY <1>4, UpToConcat
<1> QED BY <1>5 DEF Leading

\* What is left behind a beginning.
LEMMA WithoutConcat ==
    ASSUME NEW S, NEW a \in Seq(S), NEW b \in Seq(S)
    PROVE  Without(a \o b, Len(a)) = b
<1>1. /\ a \o b \in Seq(S) /\ Len(a) \in Nat /\ Len(b) \in Nat
      /\ Len(a \o b) = Len(a) + Len(b)
      /\ \A m \in 1..Len(a) + Len(b) : (a \o b)[m] = IF m <= Len(a) THEN a[m] ELSE b[m - Len(a)]
  BY ConcatProperties, LenProperties
<1> DEFINE s == a \o b
           m == Len(a) + 1
           n == Len(a) + Len(b)
           c == SubSeq(s, m, n)
<1>2. \A k \in m..n : s[k] \in S
  BY <1>1, ElementOfSeq
<1>3. m \in Int /\ n \in Int
  BY <1>1
<1>4. /\ c \in Seq(S) /\ Len(c) = IF m <= n THEN n - m + 1 ELSE 0
      /\ \A k \in 1..n - m + 1 : c[k] = s[m + k - 1]
  <2> HIDE DEF s, m, n
  <2> QED BY <1>2, <1>3, SubSeqProperties
<1>5. Len(c) = Len(b)
  BY <1>4, <1>1
<1>6. \A k \in 1..Len(b) : c[k] = b[k]
  <2> SUFFICES ASSUME NEW k \in 1..Len(b) PROVE c[k] = b[k]
    OBVIOUS
  <2>1. k \in 1..n - m + 1 /\ m + k - 1 = Len(a) + k /\ Len(a) + k \in 1..Len(a) + Len(b)
        /\ ~(Len(a) + k <= Len(a)) /\ (Len(a) + k) - Len(a) = k
    BY <1>1
  <2>2. c[k] = s[Len(a) + k]
    BY <2>1, <1>4
  <2> QED BY <2>1, <2>2, <1>1
<1> HIDE DEF c
<1>7. c = b
  BY <1>4, <1>5, <1>6, SeqEqual
<1> QED BY <1>7, <1>1 DEF Without, c

\* So many of one character.
LEMMA Fill ==
    ASSUME NEW S, NEW c \in S, NEW m \in Int
    PROVE  /\ [k \in 1..m |-> c] \in Seq(S)
           /\ Len([k \in 1..m |-> c]) = IF m < 0 THEN 0 ELSE m
<1> DEFINE n == IF m < 0 THEN 0 ELSE m
<1>1. n \in Nat /\ 1..m = 1..n
  OBVIOUS
<1> HIDE DEF n
<1>2. [k \in 1..m |-> c] = [k \in 1..n |-> c]
  BY <1>1
<1>3. [k \in 1..n |-> c] \in [1..n -> S]
  OBVIOUS
<1>4. [k \in 1..n |-> c] \in Seq(S) /\ Len([k \in 1..n |-> c]) = n
  BY <1>1, <1>3, FunctionIsSequence
<1> QED BY <1>2, <1>4 DEF n

\* std::string(p, n) is the first n characters.
LEMMA CharsFacts ==
    ASSUME NEW S, NEW s \in Seq(S), NEW n \in Nat
    PROVE  /\ Chars(s, n) \in Seq(S)
           /\ Len(Chars(s, n)) = IF n < Len(s) THEN n ELSE Len(s)
           /\ \A k \in 1..Len(Chars(s, n)) : Chars(s, n)[k] = s[k]
<1> DEFINE m == IF n < Len(s) THEN n ELSE Len(s)
<1>1. Len(s) \in Nat /\ m \in 0..Len(s)
  BY LenProperties
<1> DEFINE c == SubSeq(s, 1, m)
<1>2. Chars(s, n) = c
  BY DEF Chars
<1> HIDE DEF m
<1>3. \A k \in 1..m : s[k] \in S
  BY <1>1, ElementOfSeq
<1>4. /\ c \in Seq(S) /\ Len(c) = IF 1 <= m THEN m - 1 + 1 ELSE 0
      /\ \A k \in 1..m - 1 + 1 : c[k] = s[1 + k - 1]
  <2>1. 1 \in Int /\ m \in Int
    BY <1>1
  <2> QED BY <2>1, <1>3, SubSeqProperties
<1>5. Len(c) = m /\ \A k \in 1..m : c[k] = s[k]
  BY <1>1, <1>4
<1> HIDE DEF c
<1> QED BY <1>2, <1>4, <1>5 DEF m

\* std::string(p, n) of a text that is longer begins with the whole first part.
LEMMA CharsConcat ==
    ASSUME NEW S, NEW a \in Seq(S), NEW b \in Seq(S), NEW n \in Nat, Len(a) <= n
    PROVE  Chars(a \o b, n) = a \o Chars(b, n - Len(a))
<1> DEFINE s == a \o b
           c == Chars(b, n - Len(a))
<1>1. /\ Len(a) \in Nat /\ Len(b) \in Nat /\ n - Len(a) \in Nat
  BY LenProperties
<1>2. /\ s \in Seq(S) /\ Len(s) = Len(a) + Len(b)
      /\ \A m \in 1..Len(a) + Len(b) : s[m] = IF m <= Len(a) THEN a[m] ELSE b[m - Len(a)]
  BY ConcatProperties
<1> HIDE DEF s
<1>3. /\ c \in Seq(S) /\ Len(c) = IF n - Len(a) < Len(b) THEN n - Len(a) ELSE Len(b)
      /\ \A k \in 1..Len(c) : c[k] = b[k]
  BY <1>1, CharsFacts
<1> HIDE DEF c
<1>4. /\ a \o c \in Seq(S) /\ Len(a \o c) = Len(a) + Len(c)
      /\ \A m \in 1..Len(a) + Len(c) : (a \o c)[m] = IF m <= Len(a) THEN a[m] ELSE c[m - Len(a)]
  BY <1>3, ConcatProperties
<1>5. /\ Chars(s, n) \in Seq(S) /\ Len(Chars(s, n)) = IF n < Len(s) THEN n ELSE Len(s)
      /\ \A k \in 1..Len(Chars(s, n)) : Chars(s, n)[k] = s[k]
  BY <1>2, CharsFacts
<1>6. Len(Chars(s, n)) = Len(a \o c)
  BY <1>1, <1>2, <1>3, <1>4, <1>5
<1>7. \A k \in 1..Len(a \o c) : Chars(s, n)[k] = (a \o c)[k]
  <2> SUFFICES ASSUME NEW k \in 1..Len(a \o c) PROVE Chars(s, n)[k] = (a \o c)[k]
    OBVIOUS
  <2>0. Len(c) \in Nat /\ Len(c) <= Len(b)
    BY <1>1, <1>3
  <2>1. Chars(s, n)[k] = s[k] /\ k \in 1..Len(a) + Len(c) /\ k \in 1..Len(a) + Len(b)
    BY <1>1, <1>4, <1>5, <1>6, <2>0
  <2>2. ~(k <= Len(a)) => k - Len(a) \in 1..Len(c)
    BY <2>0, <2>1, <1>1
  <2> QED BY <2>1, <2>2, <1>2, <1>3, <1>4
<1>8. Chars(s, n) = a \o c
  <2> DEFINE d == a \o c
             e == Chars(s, n)
  <2>1. d \in Seq(S) /\ e \in Seq(S) /\ Len(e) = Len(d) /\ \A k \in 1..Len(e) : e[k] = d[k]
    BY <1>4, <1>5, <1>6, <1>7
  <2> HIDE DEF d, e
  <2>2. e = d
    BY <2>1, SeqEqual
  <2> QED BY <2>2 DEF d, e
<1> QED BY <1>8 DEF s, c

\* And with as many characters as that part has it is that part.
LEMMA CharsFirst ==
    ASSUME NEW S, NEW a \in Seq(S), NEW b \in Seq(S)
    PROVE  Chars(a \o b, Len(a)) = a
<1>1. Len(a) \in Nat /\ Len(a) <= Len(a) /\ Len(a) - Len(a) = 0
  BY LenProperties
<1>2. Chars(a \o b, Len(a)) = a \o Chars(b, 0)
  BY <1>1, CharsConcat
<1>3. Chars(b, 0) \in Seq(S) /\ Len(Chars(b, 0)) = 0
  BY CharsFacts, LenProperties
<1>4. Chars(b, 0) = <<>>
  BY <1>3
<1> QED BY <1>2, <1>4, ConcatEmptySeq

\* The ten digits.
LEMMA DigitFacts ==
    /\ \A c \in Digits : DigitValue[c] \in 0..9
    /\ \A d \in 0..9 : DigitChars[d + 1] \in Digits /\ DigitValue[DigitChars[d + 1]] = d
    /\ {"-", "+", " ", ".", NUL} \cap Digits = {}
    /\ "0" \in Digits /\ DigitValue["0"] = 0
<1>1. Digits = Range(DigitChars)
  BY DEF Digits, DigitValue
<1>2. Range(DigitChars) = {"0", "1", "2", "3", "4", "5", "6", "7", "8", "9"}
  BY DEF Range, DigitChars
<1>3. \A m, k \in 1..10 : DigitChars[m] = DigitChars[k] => m = k
  BY DEF DigitChars
<1>4. \A m \in 1..10 : DigitChars[m] \in Digits
  BY <1>1, <1>2 DEF DigitChars
<1>5. \A m \in 1..10 : DigitValue[DigitChars[m]] = m - 1
  <2> SUFFICES ASSUME NEW m \in 1..10 PROVE DigitValue[DigitChars[m]] = m - 1
    OBVIOUS
  <2>1. DigitValue[DigitChars[m]] = (CHOOSE n \in 1..10 : DigitChars[n] = DigitChars[m]) - 1
    BY <1>1, <1>4 DEF DigitValue
  <2>2. (CHOOSE n \in 1..10 : DigitChars[n] = DigitChars[m]) = m
    BY <1>3
  <2> QED BY <2>1, <2>2
<1>6. \A c \in Digits : \E m \in 1..10 : c = DigitChars[m]
  BY <1>1, <1>2 DEF DigitChars
<1>7. {"-", "+", " ", ".", NUL} \cap Digits = {}
  BY <1>1, <1>2 DEF NUL
<1>8. "0" = DigitChars[0 + 1]
  BY DEF DigitChars
<1>9. \A d \in 0..9 : DigitChars[d + 1] \in Digits /\ DigitValue[DigitChars[d + 1]] = d
  BY <1>4, <1>5
<1>10. \A c \in Digits : DigitValue[c] \in 0..9
  BY <1>5, <1>6
<1>11. "0" \in Digits /\ DigitValue["0"] = 0
  <2>1. 0 \in 0..9
    OBVIOUS
  <2> HIDE DEF Digits
  <2>2. DigitChars[0 + 1] \in Digits /\ DigitValue[DigitChars[0 + 1]] = 0
    BY <2>1, <1>9
  <2> QED BY <2>2, <1>8, Zenon
<1> QED BY <1>7, <1>9, <1>10, <1>11

\* A digit is worth a natural number.
LEMMA DigitNat == \A c \in Digits : DigitValue[c] \in Nat
<1>1. \A c \in Digits : DigitValue[c] \in 0..9
  BY DigitFacts, Zenon
<1>2. 0..9 \subseteq Nat
  OBVIOUS
<1> QED BY <1>1, <1>2, Zenon

\* A number is written with a sign, zeros and then the rest.
IsPadded(s, neg, body, w, z, S) ==
    LET L == Len(Sign(neg)) + Len(body) IN
    /\ z \in Seq({"0"}) /\ z \in Seq(S)
    /\ s = Sign(neg) \o (z \o body) /\ s \in Seq(S)
    /\ Len(s) = IF L < w THEN w ELSE L

\* What std::internal and setfill write.
LEMMA PaddedFacts ==
    ASSUME NEW S, {"-", "0"} \subseteq S, NEW neg \in BOOLEAN, NEW body \in Seq(S), NEW w \in Nat
    PROVE  /\ Sign(neg) \in Seq(S) /\ Len(Sign(neg)) = IF neg THEN 1 ELSE 0
           /\ \E z : IsPadded(Padded(neg, body, w), neg, body, w, z, S)
<1>1. Sign(neg) \in Seq(S) /\ Len(Sign(neg)) = IF neg THEN 1 ELSE 0
  BY DEF Sign
<1> DEFINE sg == Sign(neg)
           m == w - Len(sg \o body)
           z == [n \in 1..m |-> "0"]
           L == Len(sg) + Len(body)
<1>2. Len(sg) \in Nat /\ Len(body) \in Nat /\ Len(sg \o body) = L /\ L \in Nat
  <2>1. sg \in Seq(S)
    BY <1>1
  <2> HIDE DEF sg
  <2>2. Len(sg) \in Nat /\ Len(body) \in Nat /\ Len(sg \o body) = Len(sg) + Len(body)
    BY <2>1, LenProperties, ConcatProperties
  <2> QED BY <2>2
<1>3. m \in Int /\ m = w - L
  BY <1>2
<1>4. Padded(neg, body, w) = (sg \o z) \o body
  BY DEF Padded
<1> HIDE DEF sg, m
<1>5. z \in Seq(S) /\ z \in Seq({"0"}) /\ Len(z) = IF m < 0 THEN 0 ELSE m
  BY <1>3, Fill
<1> HIDE DEF z
<1>6. (sg \o z) \o body = sg \o (z \o body)
  BY <1>1, <1>5, ConcatAssociative DEF sg
<1>7. z \o body \in Seq(S) /\ Len(z \o body) = Len(z) + Len(body)
  BY <1>5, ConcatProperties
<1>8. sg \o (z \o body) \in Seq(S) /\ Len(sg \o (z \o body)) = Len(sg) + (Len(z) + Len(body))
  BY <1>1, <1>7, ConcatProperties DEF sg
<1>9. Len(z) = (IF L < w THEN w - L ELSE 0) /\ Len(sg \o (z \o body)) = IF L < w THEN w ELSE L
  <2> HIDE DEF L
  <2>1. L < w <=> ~(m < 0 \/ m = 0)
    BY <1>2, <1>3
  <2>2. Len(z) = IF L < w THEN w - L ELSE 0
    BY <2>1, <1>2, <1>3, <1>5
  <2>3. Len(sg \o (z \o body)) = L + Len(z)
    <3> DEFINE a == Len(sg)
               b == Len(body)
               c == Len(z)
    <3>1. L = a + b /\ Len(sg \o (z \o body)) = a + (c + b) /\ a \in Nat /\ b \in Nat /\ c \in Nat
      BY <1>2, <1>8, <2>2 DEF L
    <3> HIDE DEF a, b, c
    <3>2. a + (c + b) = (a + b) + c
      BY <3>1
    <3> QED BY <3>1, <3>2 DEF c
  <2> QED BY <1>2, <2>2, <2>3
<1>10. Padded(neg, body, w) = Sign(neg) \o (z \o body)
  BY <1>4, <1>6 DEF sg
<1>11. IsPadded(Padded(neg, body, w), neg, body, w, z, S)
  BY <1>5, <1>8, <1>9, <1>10 DEF sg, L, IsPadded
<1> QED BY <1>1, <1>11

-----------------------------------------------------------------------------
(* Reading a number.                                                       *)

\* The digits that are read, and no more characters than there are.
LEMMA ParsedFacts ==
    ASSUME NEW S, NEW s \in Seq(S)
    PROVE  LET r == Parsed(s) IN
           /\ r.neg \in BOOLEAN /\ r.whole \in Seq(Digits) /\ r.part \in Seq(Digits)
           /\ r.rest \in Seq(S)
           /\ Len(r.whole) \in Nat
           /\ (IF r.neg THEN 1 ELSE 0) + Len(r.whole) <= Len(s)
<1> DEFINE blanks == Leading(s, {" "})
           t == SkipBlanks(s)
           body == IF Signed(t) THEN Tail(t) ELSE t
           whole == Leading(body, Digits)
           rest == Without(body, Len(whole))
           part == IF rest # <<>> /\ rest[1] = "." THEN Leading(Tail(rest), Digits) ELSE <<>>
           after == IF rest # <<>> /\ rest[1] = "." THEN Without(Tail(rest), Len(part)) ELSE rest
           r == [neg |-> Signed(t) /\ t[1] = "-", whole |-> whole, part |-> part, rest |-> after]
<1>1. Parsed(s) = r
  BY Zenon DEF Parsed
<1>2. PICK b1 \in Seq(S) : blanks \in Seq(S) /\ s = blanks \o b1
  <2>1. \E b \in Seq(S) : /\ Leading(s, {" "}) \in Seq(S) /\ Leading(s, {" "}) \in Seq({" "})
                          /\ s = Leading(s, {" "}) \o b
                          /\ b = <<>> \/ b[1] \notin {" "}
    BY LeadingSplits
  <2> QED BY <2>1, Zenon
<1>3. t \in Seq(S) /\ Len(t) \in Nat /\ Len(t) <= Len(s)
  <2>1. Without(blanks \o b1, Len(blanks)) = b1
    BY <1>2, WithoutConcat
  <2>2. t = b1
    BY <1>2, <2>1, Zenon DEF SkipBlanks
  <2>3. Len(blanks) \in Nat /\ Len(b1) \in Nat /\ Len(blanks \o b1) = Len(blanks) + Len(b1)
    BY <1>2, LenProperties, ConcatProperties
  <2>4. Len(s) = Len(blanks) + Len(b1)
    BY <1>2, <2>3, Zenon
  <2> HIDE DEF blanks, t
  <2> QED BY <2>2, <2>3, <2>4
<1> HIDE DEF blanks, t
<1>4. body \in Seq(S) /\ Len(body) \in Nat /\ Len(body) + (IF Signed(t) THEN 1 ELSE 0) <= Len(s)
  <2>1. CASE Signed(t)
    <3>1. t # <<>>
      BY <2>1 DEF Signed
    <3>2. Tail(t) \in Seq(S) /\ Len(Tail(t)) = Len(t) - 1
      BY <3>1, <1>3, HeadTailProperties
    <3> QED BY <2>1, <3>2, <1>3, LenProperties
  <2>2. CASE ~Signed(t)
    BY <2>2, <1>3, LenProperties
  <2> QED BY <2>1, <2>2
<1> HIDE DEF body
<1>5. PICK b2 \in Seq(S) : whole \in Seq(S) /\ whole \in Seq(Digits) /\ body = whole \o b2
  <2>1. \E b \in Seq(S) : /\ Leading(body, Digits) \in Seq(S) /\ Leading(body, Digits) \in Seq(Digits)
                          /\ body = Leading(body, Digits) \o b
                          /\ b = <<>> \/ b[1] \notin Digits
    BY <1>4, LeadingSplits
  <2> QED BY <2>1, Zenon
<1>6. rest = b2
  <2>1. Without(whole \o b2, Len(whole)) = b2
    BY <1>5, WithoutConcat
  <2> HIDE DEF whole
  <2> QED BY <1>5, <2>1
<1>7. Len(whole) \in Nat /\ Len(whole) <= Len(body)
  <2> HIDE DEF whole
  <2>1. Len(whole) \in Nat /\ Len(b2) \in Nat /\ Len(whole \o b2) = Len(whole) + Len(b2)
    BY <1>5, LenProperties, ConcatProperties
  <2> QED BY <1>5, <2>1
<1> HIDE DEF whole, rest
<1>8. part \in Seq(Digits) /\ after \in Seq(S)
  <2>1. CASE rest # <<>> /\ rest[1] = "."
    <3> DEFINE d == Tail(rest)
               c == Leading(d, Digits)
    <3>1. d \in Seq(S)
      BY <2>1, <1>6, HeadTailProperties
    <3> HIDE DEF d
    <3>2. PICK b \in Seq(S) : c \in Seq(S) /\ c \in Seq(Digits) /\ d = c \o b
      <4>1. \E b \in Seq(S) : /\ Leading(d, Digits) \in Seq(S) /\ Leading(d, Digits) \in Seq(Digits)
                              /\ d = Leading(d, Digits) \o b
                              /\ b = <<>> \/ b[1] \notin Digits
        BY <3>1, LeadingSplits
      <4> QED BY <4>1, Zenon
    <3> HIDE DEF c
    <3>3. Without(c \o b, Len(c)) = b
      BY <3>2, WithoutConcat
    <3>4. Without(d, Len(c)) \in Seq(S)
      BY <3>2, <3>3
    <3>5. part = c /\ after = Without(d, Len(c))
      BY <2>1 DEF c, d
    <3> QED BY <3>2, <3>4, <3>5
  <2>2. CASE ~(rest # <<>> /\ rest[1] = ".")
    BY <2>2, <1>6, EmptySeq
  <2> QED BY <2>1, <2>2
<1> HIDE DEF part, after
<1>9. /\ r.neg \in BOOLEAN /\ (r.neg => Signed(t)) /\ r.whole = whole /\ r.part = part
      /\ r.rest = after
  BY DEF Signed
<1> HIDE DEF r
<1>10. (IF r.neg THEN 1 ELSE 0) + Len(whole) <= Len(s)
  <2>1. Len(s) \in Nat
    BY LenProperties
  <2> QED BY <2>1, <1>4, <1>7, <1>9
<1> QED BY <1>1, <1>5, <1>7, <1>8, <1>9, <1>10

\* What is left of b when it begins with a point and digits, which are read.
PointRest(b) ==
    LET part == IF b # <<>> /\ b[1] = "." THEN Leading(Tail(b), Digits) ELSE <<>>
    IN  IF b # <<>> /\ b[1] = "." THEN Without(Tail(b), Len(part)) ELSE b

\* A text with a sign, digits and then something else is read as that.
LEMMA ParsedOf ==
    ASSUME NEW S, {"-"} \cup Digits \subseteq S, NEW neg \in BOOLEAN,
           NEW E \in Seq(Digits), E # <<>>, NEW b \in Seq(S), b = <<>> \/ b[1] \notin Digits
    PROVE  Parsed(Sign(neg) \o (E \o b)) =
              [neg |-> neg, whole |-> E,
               part |-> IF b # <<>> /\ b[1] = "." THEN Leading(Tail(b), Digits) ELSE <<>>,
               rest |-> PointRest(b)]
<1> DEFINE s == Sign(neg) \o (E \o b)
           t == SkipBlanks(s)
           body == IF Signed(t) THEN Tail(t) ELSE t
           whole == Leading(body, Digits)
           rest == Without(body, Len(whole))
           part == IF rest # <<>> /\ rest[1] = "." THEN Leading(Tail(rest), Digits) ELSE <<>>
<1>1. Parsed(s) = [neg |-> Signed(t) /\ t[1] = "-", whole |-> whole, part |-> part,
                   rest |-> IF rest # <<>> /\ rest[1] = "." THEN Without(Tail(rest), Len(part)) ELSE rest]
  BY Zenon DEF Parsed
<1>2. /\ E \in Seq(S) /\ Len(E) \in Nat \ {0} /\ E[1] \in Digits
  <2>1. E \in Seq(S)
    BY SeqMonotonic
  <2>2. Len(E) \in Nat \ {0}
    BY EmptySeq
  <2>3. 1 \in 1..Len(E)
    BY <2>2
  <2> QED BY <2>1, <2>2, <2>3, ElementOfSeq
<1> DEFINE d == E \o b
<1>3. /\ d \in Seq(S) /\ Len(d) \in Nat \ {0} /\ d[1] = E[1]
  <2>1. /\ d \in Seq(S) /\ Len(d) = Len(E) + Len(b) /\ Len(b) \in Nat
        /\ \A k \in 1..Len(E) + Len(b) : d[k] = IF k <= Len(E) THEN E[k] ELSE b[k - Len(E)]
    BY <1>2, ConcatProperties, LenProperties
  <2>2. 1 \in 1..Len(E) + Len(b) /\ 1 <= Len(E)
    BY <1>2, <2>1
  <2> HIDE DEF d
  <2> QED BY <1>2, <2>1, <2>2
<1>4. s = Sign(neg) \o d
  OBVIOUS
<1> HIDE DEF d
<1>5. /\ s \in Seq(S) /\ s # <<>>
      /\ neg => s[1] = "-" /\ Tail(s) = d
      /\ ~neg => s = d
  <2>1. CASE neg
    <3>1. s = <<"-">> \o d
      BY <2>1, <1>4 DEF Sign
    <3> HIDE DEF s
    <3>2. "-" \in S
      OBVIOUS
    <3>3. s \in Seq(S) /\ Len(s) = Len(d) + 1 /\ s[1] = "-"
      BY <3>1, <3>2, <1>3
    <3>4. Tail(s) = d
      BY <3>1, <1>3
    <3>5. s # <<>>
      BY <3>3, <1>3, EmptySeq
    <3> QED BY <2>1, <3>3, <3>4, <3>5
  <2>2. CASE ~neg
    <3>1. s = d
      BY <2>2, <1>3, <1>4, ConcatEmptySeq DEF Sign
    <3>2. d # <<>>
      BY <1>3, EmptySeq
    <3> QED BY <2>2, <3>1, <3>2, <1>3
  <2> QED BY <2>1, <2>2
<1> HIDE DEF s
<1>6. /\ s[1] \notin {" "} /\ (Signed(s) <=> neg) /\ (Signed(s) /\ s[1] = "-" <=> neg)
  <2>1. {"-", "+", " "} \cap Digits = {}
    BY DigitFacts
  <2>2. ~neg => s[1] \in Digits
    BY <1>2, <1>3, <1>5
  <2> QED BY <2>1, <2>2, <1>5 DEF Signed
<1>7. t = s
  <2>1. <<>> \in Seq(S) /\ <<>> \in Seq({" "}) /\ Len(<<>>) = 0
    BY EmptySeq
  <2>2. <<>> \o s = s
    BY <1>5, ConcatEmptySeq
  <2>3. Leading(<<>> \o s, {" "}) = <<>>
    BY <2>1, <1>5, <1>6, LeadingConcat
  <2>4. Without(<<>> \o s, Len(<<>>)) = s
    BY <2>1, <1>5, WithoutConcat
  <2> QED BY <2>2, <2>3, <2>4, Zenon DEF SkipBlanks
<1>8. body = d
  <2> HIDE DEF t
  <2> QED BY <1>5, <1>6, <1>7
<1>9. whole = E /\ rest = b
  <2>1. Leading(E \o b, Digits) = E /\ Without(E \o b, Len(E)) = b
    BY <1>2, LeadingConcat, WithoutConcat
  <2> HIDE DEF body
  <2> QED BY <2>1, <1>8 DEF d
<1> HIDE DEF t, whole, rest
<1>10. (Signed(t) /\ t[1] = "-") = neg
  BY <1>6, <1>7 DEF Signed
<1>11. part = (IF b # <<>> /\ b[1] = "." THEN Leading(Tail(b), Digits) ELSE <<>>)
  BY <1>9
<1>12. (IF rest # <<>> /\ rest[1] = "." THEN Without(Tail(rest), Len(part)) ELSE rest) = PointRest(b)
  BY <1>9 DEF PointRest
<1> HIDE DEF part, s
<1> QED BY <1>1, <1>9, <1>10, <1>11, <1>12 DEF s

-----------------------------------------------------------------------------
(* Decimal numbers.                                                        *)

\* The states of the loop that reads digits.
IsReading(E, read) ==
    /\ read \in [0..Len(E) -> Nat] /\ read[0] = 0
    /\ \A n \in 1..Len(E) : read[n] = 10 * read[n - 1] + DigitValue[E[n]]
    /\ Decimal(E) = read[Len(E)]

\* The loop that reads digits reaches a natural number.
LEMMA DecimalReads ==
    ASSUME NEW E \in Seq(Digits)
    PROVE  (\E read : IsReading(E, read)) /\ Decimal(E) \in Nat
<1> DEFINE N == Len(E)
           x == [n \in 1..N |-> DigitValue[E[n]]]
           g == [n \in 1..N |-> [v \in Nat |-> 10 * v + x[n]]]
           Body(n, f) == IF n = 0 THEN 0 ELSE 10 * f[n - 1] + DigitValue[E[n]]
           read == CHOOSE f : f = [n \in 0..N |-> Body(n, f)]
<1>1. N \in Nat /\ \A n \in 1..N : x[n] \in Nat /\ x[n] = DigitValue[E[n]]
  <2>1. N \in Nat
    BY LenProperties
  <2>2. \A n \in 1..N : E[n] \in Digits
    BY ElementOfSeq
  <2>3. \A n \in 1..N : DigitValue[E[n]] \in Nat
    BY <2>2, DigitNat, Zenon
  <2> QED BY <2>1, <2>3
<1>2. Decimal(E) = read[N]
  BY Zenon DEF Decimal
<1> HIDE DEF N, x
<1>3. g \in [1..N -> [Nat -> Nat]] /\ \A n \in 1..N, v \in Nat : g[n][v] = 10 * v + x[n]
  BY <1>1
<1> HIDE DEF g
<1>4. PICK f : f \in [0..N -> Nat] /\ f[0] = 0 /\ \A n \in 1..N : f[n] = g[n][f[n - 1]]
  <2>1. IsLoop(N, Nat, 0, g)
    BY <1>1, <1>3 DEF IsLoop
  <2>2. PICK f : StatesOf(f, N, Nat, 0, g)
    BY <2>1, LoopFunction
  <2> QED BY <2>2 DEF StatesOf
<1>5. \A n \in 1..N : f[n] = 10 * f[n - 1] + DigitValue[E[n]]
  <2> TAKE n \in 1..N
  <2>1. f[n - 1] \in Nat /\ f[n] = g[n][f[n - 1]]
    BY <1>1, <1>4
  <2>2. g[n][f[n - 1]] = 10 * f[n - 1] + x[n] /\ x[n] = DigitValue[E[n]]
    BY <2>1, <1>1, <1>3
  <2> QED BY <2>1, <2>2, Zenon
<1>6. f = [n \in 0..N |-> Body(n, f)]
  <2>1. \A n \in 0..N : f[n] = Body(n, f)
    <3> TAKE n \in 0..N
    <3>1. n = 0 \/ n \in 1..N
      BY <1>1
    <3> QED BY <3>1, <1>4, <1>5
  <2> HIDE DEF Body
  <2> QED BY <2>1, <1>4
<1> HIDE DEF Body
<1>7. read = [n \in 0..N |-> Body(n, read)]
  BY <1>6, Zenon
<1> HIDE DEF read
<1>8. \A n \in 0..N : read[n] = Body(n, read)
  BY <1>7, Zenon
<1>9. read[0] = 0 /\ \A n \in 1..N : read[n] = 10 * read[n - 1] + x[n]
  <2>1. 0 \in 0..N /\ \A n \in 1..N : n \in 0..N /\ n # 0
    BY <1>1
  <2> QED BY <2>1, <1>1, <1>8 DEF Body
<1>10. \A n \in 0..N : read[n] \in Nat
  <2>1. \A n \in 1..N : read[n - 1] \in Nat => read[n] \in Nat
    <3> TAKE n \in 1..N
    <3> HAVE read[n - 1] \in Nat
    <3>1. read[n] = 10 * read[n - 1] + x[n] /\ x[n] \in Nat
      BY <1>1, <1>9
    <3> QED BY <3>1
  <2>2. N \in Nat /\ read[0] \in Nat
    BY <1>1, <1>9
  <2> QED BY <2>1, <2>2, LoopInvariant
<1>11. DOMAIN read = 0..N /\ read = [n \in 0..N |-> read[n]]
  BY <1>7
<1>12. read \in [0..N -> Nat]
  BY <1>10, <1>11
<1>13. IsReading(E, read)
  BY <1>1, <1>2, <1>9, <1>12 DEF IsReading, N
<1>14. read[N] \in Nat
  BY <1>1, <1>12
<1> QED BY <1>2, <1>13, <1>14

\* 10^0, 10^1 and so on to 10^N.
Powers(P, N) ==
    (\A k \in 0..N : P[k] \in Nat) /\ P[0] = 1 /\ (\A k \in 1..N : P[k] = 10 * P[k - 1])

\* There are powers of ten up to any exponent.
LEMMA PowersExist ==
    ASSUME NEW N \in Nat
    PROVE  \E P : Powers(P, N) /\ P = [k \in 0..N |-> IF k = 0 THEN 1 ELSE 10 * P[k - 1]]
<1> DEFINE g == [n \in 1..N |-> [v \in Nat |-> 10 * v]]
<1>1. g \in [1..N -> [Nat -> Nat]] /\ \A n \in 1..N, v \in Nat : g[n][v] = 10 * v
  OBVIOUS
<1> HIDE DEF g
<1>2. PICK f : f \in [0..N -> Nat] /\ f[0] = 1 /\ \A n \in 1..N : f[n] = g[n][f[n - 1]]
  <2>1. IsLoop(N, Nat, 1, g)
    BY <1>1 DEF IsLoop
  <2>2. PICK f : StatesOf(f, N, Nat, 1, g)
    BY <2>1, LoopFunction
  <2> QED BY <2>2 DEF StatesOf
<1>3. \A n \in 1..N : f[n] = 10 * f[n - 1]
  <2> TAKE n \in 1..N
  <2>1. f[n - 1] \in Nat /\ f[n] = g[n][f[n - 1]]
    BY <1>2
  <2> QED BY <2>1, <1>1
<1>4. f = [k \in 0..N |-> IF k = 0 THEN 1 ELSE 10 * f[k - 1]]
  <2>1. \A n \in 0..N : f[n] = IF n = 0 THEN 1 ELSE 10 * f[n - 1]
    <3> TAKE n \in 0..N
    <3>1. n = 0 \/ n \in 1..N
      OBVIOUS
    <3> QED BY <3>1, <1>2, <1>3
  <2> QED BY <2>1, <1>2
<1> QED BY <1>2, <1>3, <1>4 DEF Powers

\* The digits of A weigh more by the length of B.
LEMMA DecimalConcat ==
    ASSUME NEW A \in Seq(Digits), NEW B \in Seq(Digits), NEW N \in Nat, Len(B) <= N,
           NEW P, Powers(P, N)
    PROVE  Decimal(A \o B) = Decimal(A) * P[Len(B)] + Decimal(B)
<1> DEFINE a == Len(A)
           b == Len(B)
           E == A \o B
<1>1. /\ a \in Nat /\ b \in Nat /\ E \in Seq(Digits) /\ Len(E) = a + b
      /\ \A k \in 1..a + b : E[k] = IF k <= a THEN A[k] ELSE B[k - a]
  BY ConcatProperties, LenProperties
<1>2. PICK f : IsReading(A, f)
  BY DecimalReads
<1>3. PICK g : IsReading(B, g)
  BY DecimalReads
<1> HIDE DEF E
<1>4. PICK h : IsReading(E, h)
  BY <1>1, DecimalReads
<1>5. /\ f \in [0..a -> Nat] /\ f[0] = 0 /\ Decimal(A) = f[a]
      /\ \A n \in 1..a : f[n] = 10 * f[n - 1] + DigitValue[A[n]]
  BY <1>2 DEF IsReading
<1>6. /\ g \in [0..b -> Nat] /\ g[0] = 0 /\ Decimal(B) = g[b]
      /\ \A n \in 1..b : g[n] = 10 * g[n - 1] + DigitValue[B[n]]
  BY <1>3 DEF IsReading
<1>7. /\ h[0] = 0 /\ Decimal(E) = h[a + b]
      /\ \A n \in 1..a + b : h[n] = 10 * h[n - 1] + DigitValue[E[n]]
  BY <1>1, <1>4 DEF IsReading
<1>8. b <= N /\ P[0] = 1 /\ \A k \in 0..b : P[k] \in Nat /\ (k > 0 => P[k] = 10 * P[k - 1])
  BY <1>1 DEF Powers
<1>9. \A n \in 1..b : DigitValue[B[n]] \in Nat
  <2>1. \A n \in 1..b : B[n] \in Digits
    BY ElementOfSeq
  <2> QED BY <2>1, DigitNat, Zenon
<1> HIDE DEF a, b
<1>10. h[a] = f[a]
  <2> DEFINE T == {n \in 0..a : h[n] = f[n]}
  <2>1. 0 \in T
    BY <1>1, <1>5, <1>7
  <2>2. ASSUME NEW n \in 0..a, n \in T, n < a PROVE n + 1 \in T
    <3>1. n + 1 \in 1..a /\ n + 1 \in 1..a + b /\ (n + 1) - 1 = n /\ n + 1 <= a
      BY <1>1, <2>2
    <3>2. h[n + 1] = 10 * h[n] + DigitValue[A[n + 1]] /\ f[n + 1] = 10 * f[n] + DigitValue[A[n + 1]]
      BY <3>1, <1>1, <1>5, <1>7
    <3> QED BY <3>1, <3>2, <2>2
  <2> HIDE DEF T
  <2>3. a \in T
    <3>1. a \in 0..a
      BY <1>1
    <3> QED BY <3>1, <1>1, <2>1, <2>2, BoundedInduction
  <2> QED BY <2>3 DEF T
<1> DEFINE D == f[a]
<1>11. D \in Nat
  BY <1>1, <1>5
<1> HIDE DEF D
<1>12. h[a + b] = D * P[b] + g[b]
  <2> DEFINE T == {n \in 0..b : h[a + n] = D * P[n] + g[n]}
  <2>1. 0 \in T
    BY <1>1, <1>6, <1>8, <1>10, <1>11 DEF D
  <2>2. ASSUME NEW n \in 0..b, n \in T, n < b PROVE n + 1 \in T
    <3>1. n + 1 \in 1..b /\ n + 1 \in 0..b /\ n + 1 > 0 /\ a + (n + 1) \in 1..a + b /\ (a + (n + 1)) - 1 = a + n
          /\ ~(a + (n + 1) <= a) /\ (n + 1) - 1 = n /\ (a + (n + 1)) - a = n + 1
      BY <1>1, <2>2
    <3>2. h[a + (n + 1)] = 10 * h[a + n] + DigitValue[B[n + 1]]
      BY <3>1, <1>1, <1>7
    <3>3. g[n + 1] = 10 * g[n] + DigitValue[B[n + 1]] /\ P[n + 1] = 10 * P[n]
      BY <3>1, <1>6, <1>8
    <3>4. g[n] \in Nat /\ P[n] \in Nat /\ DigitValue[B[n + 1]] \in Nat
      BY <3>1, <1>6, <1>8, <1>9
    <3>5. 10 * (D * P[n] + g[n]) + DigitValue[B[n + 1]] = D * (10 * P[n]) + (10 * g[n] + DigitValue[B[n + 1]])
      <4> DEFINE p == P[n]
                 r == g[n]
                 d == DigitValue[B[n + 1]]
      <4>1. p \in Nat /\ r \in Nat /\ d \in Nat
        BY <3>4
      <4> HIDE DEF p, r, d
      <4>2. 10 * (D * p + r) + d = D * (10 * p) + (10 * r + d)
        BY <4>1, <1>11
      <4> QED BY <4>2, Zenon DEF p, r, d
    <3>6. h[a + n] = D * P[n] + g[n]
      BY <2>2
    <3>7. h[a + (n + 1)] = D * P[n + 1] + g[n + 1]
      BY <3>2, <3>3, <3>5, <3>6, Zenon
    <3> QED BY <3>1, <3>7
  <2> HIDE DEF T
  <2>3. b \in T
    <3>1. b \in 0..b
      BY <1>1
    <3> QED BY <3>1, <1>1, <2>1, <2>2, BoundedInduction
  <2> QED BY <2>3 DEF T
<1> QED BY <1>5, <1>6, <1>7, <1>12 DEF D, E, b

\* Zeros name zero.
LEMMA DecimalZeros ==
    ASSUME NEW z \in Seq({"0"})
    PROVE  z \in Seq(Digits) /\ Decimal(z) = 0
<1>1. z \in Seq(Digits) /\ Len(z) \in Nat /\ \A n \in 1..Len(z) : z[n] = "0"
  <2>1. {"0"} \subseteq Digits
    BY DigitFacts
  <2>2. \A n \in 1..Len(z) : z[n] \in {"0"}
    BY ElementOfSeq
  <2> QED BY <2>1, <2>2, SeqMonotonic, LenProperties
<1>2. PICK f : IsReading(z, f)
  BY <1>1, DecimalReads
<1>3. f[0] \in {0}
  BY <1>2 DEF IsReading
<1>4. \A n \in 1..Len(z) : f[n - 1] \in {0} => f[n] \in {0}
  <2> TAKE n \in 1..Len(z)
  <2> HAVE f[n - 1] \in {0}
  <2>1. f[n] = 10 * f[n - 1] + DigitValue["0"]
    BY <1>1, <1>2 DEF IsReading
  <2>2. DigitValue["0"] = 0
    BY DigitFacts
  <2> QED BY <2>1, <2>2
<1>5. \A n \in 0..Len(z) : f[n] \in {0}
  <2> DEFINE N == Len(z)
             Zero == {0}
  <2>1. N \in Nat /\ f[0] \in Zero /\ \A n \in 1..N : f[n - 1] \in Zero => f[n] \in Zero
    BY <1>1, <1>3, <1>4
  <2> HIDE DEF N, Zero
  <2>2. \A n \in 0..N : f[n] \in Zero
    BY <2>1, LoopInvariant
  <2> QED BY <2>2 DEF N, Zero
<1> QED BY <1>1, <1>2, <1>5 DEF IsReading

\* What is left of n, digit by digit, and the digits that are shown.
IsShowing(n, w, len, rest) ==
    /\ rest \in [0..n + w -> Nat] /\ rest[0] = n
    /\ \A k \in 1..n + w : rest[k] = rest[k - 1] \div 10
    /\ len \in w..n + w /\ rest[len] = 0 /\ \A m \in w..len - 1 : rest[m] # 0
    /\ Shown(n, w) \in Seq(Digits) /\ Len(Shown(n, w)) = len
    /\ \A k \in 1..len : DigitValue[Shown(n, w)[k]] = rest[len - k] % 10

\* What is shown are the remainders of repeated division, last one first.
LEMMA ShownIsShowing ==
    ASSUME NEW n \in Nat, NEW w \in Nat \ {0}
    PROVE  \E len, rest : IsShowing(n, w, len, rest)
<1> DEFINE N == n + w
           g == [k \in 1..N |-> [v \in Nat |-> v \div 10]]
           Body(k, f) == IF k = 0 THEN n ELSE f[k - 1] \div 10
           rest == CHOOSE f : f = [k \in 0..N |-> Body(k, f)]
           Fits10(r, k) == r[k] = 0 /\ \A m \in w..k - 1 : r[m] # 0
           width == CHOOSE k \in w..N : Fits10(rest, k)
<1>1. Shown(n, w) = [k \in 1..width |-> DigitChars[(rest[width - k] % 10) + 1]]
  BY Zenon DEF Shown
<1>2. N \in Nat /\ w \in 0..N /\ N >= w /\ N > n
  OBVIOUS
<1> HIDE DEF N
<1>3. g \in [1..N -> [Nat -> Nat]] /\ \A k \in 1..N, v \in Nat : g[k][v] = v \div 10
  OBVIOUS
<1> HIDE DEF g
<1>4. PICK f : f \in [0..N -> Nat] /\ f[0] = n /\ \A k \in 1..N : f[k] = g[k][f[k - 1]]
  <2>1. IsLoop(N, Nat, n, g)
    BY <1>2, <1>3 DEF IsLoop
  <2>2. PICK f : StatesOf(f, N, Nat, n, g)
    BY <2>1, LoopFunction
  <2> QED BY <2>2 DEF StatesOf
<1>5. f = [k \in 0..N |-> Body(k, f)]
  <2>1. \A k \in 0..N : f[k] = Body(k, f)
    <3> TAKE k \in 0..N
    <3>1. CASE k = 0
      BY <3>1, <1>4
    <3>2. CASE k # 0
      <4>1. k \in 1..N /\ f[k - 1] \in Nat
        BY <3>2, <1>2, <1>4
      <4>2. f[k] = f[k - 1] \div 10
        BY <4>1, <1>3, <1>4
      <4> QED BY <3>2, <4>2
    <3> QED BY <3>1, <3>2
  <2> HIDE DEF Body
  <2> QED BY <2>1, <1>4
<1> HIDE DEF Body
<1>6. rest = [k \in 0..N |-> Body(k, rest)]
  BY <1>5, Zenon
<1> HIDE DEF rest
<1>7. \A k \in 0..N : rest[k] = Body(k, rest)
  BY <1>6, Zenon
<1>8. rest[0] = n /\ \A k \in 1..N : rest[k] = rest[k - 1] \div 10
  <2>1. 0 \in 0..N /\ \A k \in 1..N : k \in 0..N /\ k # 0
    BY <1>2
  <2> QED BY <2>1, <1>7 DEF Body
<1>9. \A k \in 0..N : rest[k] \in Nat
  <2>1. \A k \in 1..N : rest[k - 1] \in Nat => rest[k] \in Nat
    <3> TAKE k \in 1..N
    <3> HAVE rest[k - 1] \in Nat
    <3>1. rest[k] = rest[k - 1] \div 10
      BY <1>8
    <3> QED BY <3>1
  <2>2. N \in Nat /\ rest[0] \in Nat
    BY <1>2, <1>8
  <2> QED BY <2>1, <2>2, LoopInvariant
<1>10. DOMAIN rest = 0..N /\ rest = [k \in 0..N |-> rest[k]]
  BY <1>6
<1>11. rest \in [0..N -> Nat]
  BY <1>9, <1>10
<1>12. rest[N] = 0
  <2> DEFINE T == {k \in 0..N : rest[k] = 0 \/ rest[k] + k <= n}
  <2>1. 0 \in T
    BY <1>2, <1>8
  <2>2. ASSUME NEW k \in 0..N, k \in T, k < N PROVE k + 1 \in T
    <3>1. k + 1 \in 1..N /\ k + 1 \in 0..N /\ (k + 1) - 1 = k
      BY <1>2, <2>2
    <3>2. rest[k + 1] = rest[k] \div 10 /\ rest[k] \in Nat
      BY <3>1, <1>8, <1>9
    <3>3. rest[k] = 0 \/ rest[k] + k <= n
      BY <2>2
    <3>4. rest[k + 1] = 0 \/ rest[k + 1] + (k + 1) <= n
      BY <3>2, <3>3, <3>1
    <3> QED BY <3>1, <3>4
  <2> HIDE DEF T
  <2>3. N \in T
    <3>1. N \in 0..N
      BY <1>2
    <3> QED BY <3>1, <1>2, <2>1, <2>2, BoundedInduction
  <2>4. N \in Nat /\ rest[N] \in Nat /\ (rest[N] = 0 \/ rest[N] + N <= n)
    BY <2>3, <1>2, <1>9 DEF T
  <2> QED BY <2>4, <1>2
<1>13. width \in w..N /\ Fits10(rest, width)
  <2> DEFINE T == {k \in w..N : rest[k] = 0}
  <2>1. T \subseteq Nat /\ N \in T
    BY <1>2, <1>12
  <2>2. PICK k \in T : \A m \in T : k <= m
    BY <2>1, LeastNatural
  <2>3. k \in w..N /\ Fits10(rest, k)
    <3>1. \A m \in w..k - 1 : m \in w..N /\ ~(k <= m)
      BY <2>1, <2>2, <1>2
    <3> QED BY <2>2, <3>1
  <2> HIDE DEF Fits10
  <2> QED BY <2>3, Zenon
<1> HIDE DEF width
<1>14. width \in Nat /\ \A k \in 1..width : width - k \in 0..N /\ rest[width - k] % 10 \in 0..9
  <2>1. width \in Nat /\ \A k \in 1..width : width - k \in 0..N
    BY <1>2, <1>13
  <2>2. \A v \in Nat : v % 10 \in 0..9
    OBVIOUS
  <2> QED BY <2>1, <2>2, <1>9
<1> DEFINE s == Shown(n, w)
<1>15. /\ s \in Seq(Digits) /\ Len(s) = width
       /\ \A k \in 1..width : DigitValue[s[k]] = rest[width - k] % 10
  <2>1. \A d \in 0..9 : DigitChars[d + 1] \in Digits /\ DigitValue[DigitChars[d + 1]] = d
    BY DigitFacts, Zenon
  <2> DEFINE e == [k \in 1..width |-> DigitChars[(rest[width - k] % 10) + 1]]
  <2>2. \A k \in 1..width : e[k] \in Digits /\ DigitValue[e[k]] = rest[width - k] % 10
    <3> TAKE k \in 1..width
    <3>1. e[k] = DigitChars[(rest[width - k] % 10) + 1]
      OBVIOUS
    <3>2. rest[width - k] % 10 \in 0..9
      BY <1>14
    <3> QED BY <3>1, <3>2, <2>1, Zenon
  <2>3. e \in [1..width -> Digits]
    BY <2>2
  <2> HIDE DEF e
  <2>4. e \in Seq(Digits) /\ Len(e) = width
    BY <2>3, <1>14, FunctionIsSequence
  <2>5. s = e
    BY <1>1 DEF e
  <2> HIDE DEF s
  <2> QED BY <2>2, <2>4, <2>5
<1> HIDE DEF s
<1>16. IsShowing(n, w, width, rest)
  <2>1. /\ rest \in [0..n + w -> Nat] /\ rest[0] = n
        /\ \A k \in 1..n + w : rest[k] = rest[k - 1] \div 10
        /\ width \in w..n + w /\ rest[width] = 0 /\ \A m \in w..width - 1 : rest[m] # 0
    BY <1>8, <1>11, <1>13 DEF N
  <2> QED BY <2>1, <1>15 DEF IsShowing, s
<1> QED BY <1>16

\* What is shown names the number.
LEMMA DecimalShown ==
    ASSUME NEW n \in Nat, NEW w \in Nat \ {0}
    PROVE  /\ Shown(n, w) \in Seq(Digits) /\ Len(Shown(n, w)) \in Nat /\ Len(Shown(n, w)) >= w
           /\ Decimal(Shown(n, w)) = n
<1>1. PICK len, rest : IsShowing(n, w, len, rest)
  BY ShownIsShowing
<1> DEFINE s == Shown(n, w)
           N == n + w
<1>2. /\ rest \in [0..N -> Nat] /\ rest[0] = n
      /\ \A k \in 1..N : rest[k] = rest[k - 1] \div 10
      /\ len \in w..N /\ rest[len] = 0
      /\ s \in Seq(Digits) /\ Len(s) = len
      /\ \A k \in 1..len : DigitValue[s[k]] = rest[len - k] % 10
  BY <1>1 DEF IsShowing
<1>3. N \in Nat /\ len \in Nat /\ len <= N /\ len >= w
  BY <1>2
<1> HIDE DEF s, N
<1>4. PICK read : IsReading(s, read)
  BY <1>2, DecimalReads
<1>5. /\ read[0] = 0 /\ Decimal(s) = read[len]
      /\ \A k \in 1..len : read[k] = 10 * read[k - 1] + DigitValue[s[k]]
  BY <1>2, <1>4 DEF IsReading
<1> DEFINE T == {k \in 0..len : read[k] = rest[len - k]}
<1>6. 0 \in T
  <2>1. 0 \in 0..len /\ len - 0 = len
    BY <1>3
  <2>2. read[0] = 0 /\ rest[len] = 0
    BY <1>2, <1>5
  <2> QED BY <2>1, <2>2
<1>7. ASSUME NEW k \in 0..len, k \in T, k < len PROVE k + 1 \in T
  <2>1. /\ k + 1 \in 1..len /\ k + 1 \in 0..len /\ (k + 1) - 1 = k /\ len - k \in 1..N
        /\ (len - k) - 1 = len - (k + 1) /\ len - (k + 1) \in 0..N
    BY <1>3, <1>7
  <2>2. read[k + 1] = 10 * read[k] + (rest[len - (k + 1)] % 10)
    BY <2>1, <1>2, <1>5
  <2>3. read[k] = rest[len - (k + 1)] \div 10
    BY <2>1, <1>2, <1>7
  <2>4. rest[len - (k + 1)] \in Nat
    BY <2>1, <1>2
  <2>5. \A v \in Nat : 10 * (v \div 10) + (v % 10) = v
    OBVIOUS
  <2>6. read[k + 1] = rest[len - (k + 1)]
    BY <2>2, <2>3, <2>4, <2>5
  <2> QED BY <2>1, <2>6
<1> HIDE DEF T
<1>8. len \in T
  <2>1. len \in 0..len
    BY <1>3
  <2> QED BY <2>1, <1>3, <1>6, <1>7, BoundedInduction
<1>9. read[len] = rest[len - len] /\ len - len = 0
  BY <1>3, <1>8 DEF T
<1> QED BY <1>2, <1>3, <1>5, <1>9 DEF s

\* A number is not longer than digits that name no less.
LEMMA ShownFits ==
    ASSUME NEW n \in Nat, NEW w \in Nat \ {0}, NEW E \in Seq(Digits),
           n <= Decimal(E), w <= Len(E)
    PROVE  Len(Shown(n, w)) <= Len(E)
<1>1. PICK len, rest : IsShowing(n, w, len, rest)
  BY ShownIsShowing
<1> DEFINE e == Len(E)
           N == n + w
<1>2. /\ rest \in [0..N -> Nat] /\ rest[0] = n
      /\ \A k \in 1..N : rest[k] = rest[k - 1] \div 10
      /\ len \in w..N /\ \A m \in w..len - 1 : rest[m] # 0
      /\ Len(Shown(n, w)) = len
  BY <1>1 DEF IsShowing
<1>3. e \in Nat /\ N \in Nat /\ len \in Nat /\ len <= N /\ e >= w /\ \A k \in 1..e : DigitValue[E[k]] \in 0..9
  <2>1. \A k \in 1..e : E[k] \in Digits
    BY ElementOfSeq
  <2>2. \A c \in Digits : DigitValue[c] \in 0..9
    BY DigitFacts, Zenon
  <2>3. \A k \in 1..e : DigitValue[E[k]] \in 0..9
    BY <2>1, <2>2, Zenon
  <2>4. e \in Nat
    BY LenProperties
  <2> QED BY <1>2, <2>3, <2>4
<1>4. PICK read : IsReading(E, read)
  BY DecimalReads
<1>5. /\ read \in [0..e -> Nat] /\ read[0] = 0 /\ n <= read[e]
      /\ \A k \in 1..e : read[k] = 10 * read[k - 1] + DigitValue[E[k]]
  BY <1>4 DEF IsReading
<1> SUFFICES ASSUME e < len PROVE FALSE
  BY <1>2, <1>3
<1> HIDE DEF e, N
<1> DEFINE T == {k \in 0..e : rest[k] <= read[e - k]}
<1>6. 0 \in T
  BY <1>2, <1>3, <1>5
<1>7. ASSUME NEW k \in 0..e, k \in T, k < e PROVE k + 1 \in T
  <2>1. /\ k + 1 \in 0..e /\ k + 1 \in 1..N /\ (k + 1) - 1 = k /\ k \in 0..N /\ e - k \in 1..e
        /\ (e - k) - 1 = e - (k + 1) /\ e - (k + 1) \in 0..e
    BY <1>3, <1>7
  <2>2. rest[k + 1] = rest[k] \div 10 /\ rest[k] \in Nat
    BY <2>1, <1>2
  <2>3. read[e - k] = 10 * read[e - (k + 1)] + DigitValue[E[e - k]]
    BY <2>1, <1>5
  <2>4. DigitValue[E[e - k]] \in 0..9 /\ read[e - (k + 1)] \in Nat
    BY <2>1, <1>3, <1>5
  <2>5. rest[k] <= read[e - k]
    BY <1>7
  <2>6. \A a, b \in Nat, d \in 0..9 : a <= 10 * b + d => a \div 10 <= b
    OBVIOUS
  <2>7. rest[k + 1] <= read[e - (k + 1)]
    BY <2>2, <2>3, <2>4, <2>5, <2>6
  <2> QED BY <2>1, <2>7
<1> HIDE DEF T
<1>8. e \in T
  <2>1. e \in 0..e
    BY <1>3
  <2> QED BY <2>1, <1>3, <1>6, <1>7, BoundedInduction
<1>9. rest[e] <= read[0]
  BY <1>3, <1>8 DEF T
<1>10. e \in w..len - 1 /\ e \in 0..N
  BY <1>3
<1> QED BY <1>2, <1>5, <1>9, <1>10

\* A number below 10^w has w digits.
LEMMA ShownWidth ==
    ASSUME NEW w \in Nat \ {0}, NEW P, Powers(P, w), NEW n \in Nat, n < P[w]
    PROVE  Len(Shown(n, w)) = w
<1>1. PICK len, rest : IsShowing(n, w, len, rest)
  BY ShownIsShowing
<1> DEFINE N == n + w
<1>2. /\ rest \in [0..N -> Nat] /\ rest[0] = n
      /\ \A k \in 1..N : rest[k] = rest[k - 1] \div 10
      /\ len \in w..N /\ \A m \in w..len - 1 : rest[m] # 0
      /\ Len(Shown(n, w)) = len
  BY <1>1 DEF IsShowing
<1>3. P[0] = 1 /\ \A k \in 0..w : P[k] \in Nat /\ (k > 0 => P[k] = 10 * P[k - 1])
  BY DEF Powers
<1>4. N \in Nat /\ w <= N
  OBVIOUS
<1> HIDE DEF N
<1> DEFINE T == {k \in 0..w : rest[k] < P[w - k]}
<1>5. 0 \in T
  BY <1>2
<1>6. ASSUME NEW k \in 0..w, k \in T, k < w PROVE k + 1 \in T
  <2>1. /\ k + 1 \in 0..w /\ k + 1 \in 1..N /\ (k + 1) - 1 = k /\ k \in 0..N /\ w - k \in 0..w
        /\ w - k > 0 /\ (w - k) - 1 = w - (k + 1) /\ w - (k + 1) \in 0..w
    BY <1>4, <1>6
  <2>2. rest[k + 1] = rest[k] \div 10 /\ rest[k] \in Nat
    BY <2>1, <1>2
  <2>3. P[w - k] = 10 * P[w - (k + 1)] /\ P[w - (k + 1)] \in Nat
    BY <2>1, <1>3
  <2>4. rest[k] < P[w - k]
    BY <1>6
  <2>5. \A a, b \in Nat : a < 10 * b => a \div 10 < b
    OBVIOUS
  <2>6. rest[k + 1] < P[w - (k + 1)]
    BY <2>2, <2>3, <2>4, <2>5
  <2> QED BY <2>1, <2>6
<1> HIDE DEF T
<1>7. w \in T
  BY <1>5, <1>6, BoundedInduction
<1>8. rest[w] < P[w - w] /\ w - w = 0 /\ rest[w] \in Nat
  BY <1>2, <1>4, <1>7 DEF T
<1>9. rest[w] = 0
  BY <1>3, <1>8
<1>10. ~(w \in w..len - 1)
  BY <1>2, <1>9
<1> QED BY <1>2, <1>4, <1>10

\* Quotient and remainder.
LEMMA Division ==
    \A a \in Nat, u \in Nat \ {0} :
        /\ a \div u \in Nat /\ a % u \in Nat /\ a % u < u
        /\ (a \div u) * u + (a % u) = a
OBVIOUS

\* The powers of ten up to the decimals there are.
LEMMA TenPowers == Powers(Ten, Places) /\ \A k \in 0..Places : Ten[k] \in Nat \ {0}
<1>1. Places \in Nat
  BY ItemAssumption
<1>2. PICK P : P = [k \in 0..Places |-> IF k = 0 THEN 1 ELSE 10 * P[k - 1]]
  BY <1>1, PowersExist
<1>3. Ten = [k \in 0..Places |-> IF k = 0 THEN 1 ELSE 10 * Ten[k - 1]]
  BY <1>2, Zenon DEF Ten
<1>4. \A k \in 0..Places : Ten[k] = IF k = 0 THEN 1 ELSE 10 * Ten[k - 1]
  BY <1>3, Zenon
<1>5. Ten[0] = 1 /\ \A k \in 1..Places : Ten[k] = 10 * Ten[k - 1]
  <2>1. 0 \in 0..Places /\ \A k \in 1..Places : k \in 0..Places /\ k # 0
    BY <1>1
  <2> QED BY <2>1, <1>4
<1>6. \A k \in 0..Places : Ten[k] \in Nat \ {0}
  <2> DEFINE Positive == Nat \ {0}
  <2>1. \A k \in 1..Places : Ten[k - 1] \in Positive => Ten[k] \in Positive
    <3> TAKE k \in 1..Places
    <3> HAVE Ten[k - 1] \in Positive
    <3>1. Ten[k] = 10 * Ten[k - 1]
      BY <1>5
    <3> QED BY <3>1
  <2>2. Ten[0] \in Positive
    BY <1>5
  <2> HIDE DEF Positive
  <2>3. \A k \in 0..Places : Ten[k] \in Positive
    BY <2>1, <2>2, <1>1, LoopInvariant
  <2> QED BY <2>3 DEF Positive
<1>7. Ten \in [0..Places -> Nat]
  <2>1. DOMAIN Ten = 0..Places /\ Ten = [k \in 0..Places |-> Ten[k]]
    BY <1>3
  <2> QED BY <2>1, <1>6
<1> QED BY <1>5, <1>6, <1>7 DEF Powers

\* A body that std::fixed gives for mag: digits A, a point and digits B, which name
\* q units, and q is near mag.
IsFixed(mag, precision, body, A, B, q) ==
    LET unit == Ten[Places - precision] IN
    /\ A \in Seq(Digits) /\ A # <<>> /\ B \in Seq(Digits) /\ Len(B) = precision
    /\ q \in Nat /\ Decimal(A) * Ten[precision] + Decimal(B) = q
    /\ 2 * (mag - q * unit) <= unit /\ -2 * (mag - q * unit) <= unit
    /\ body = A \o (IF precision = 0 THEN <<>> ELSE <<".">> \o B)

\* What std::fixed and setprecision write.
LEMMA FixedFacts ==
    ASSUME NEW mag \in Nat, NEW precision \in 0..Places, NEW body \in Fixed(mag, precision)
    PROVE  \E A, B, q : IsFixed(mag, precision, body, A, B, q)
<1> DEFINE unit == Ten[Places - precision]
           near == {q \in {mag \div unit, mag \div unit + 1} :
                       LET off == mag - q * unit IN 2 * off <= unit /\ -2 * off <= unit}
           point == IF precision = 0 THEN <<>> ELSE <<".">>
           Shows(q) == Shown(q \div Ten[precision], 1) \o point
                          \o (IF precision = 0 THEN <<>> ELSE Shown(q % Ten[precision], precision))
<1>1. body \in {Shows(q) : q \in near}
  BY Zenon DEF Fixed
<1>2. PICK q \in near : body = Shows(q)
  BY <1>1, Zenon
<1>3. unit \in Nat \ {0} /\ Ten[precision] \in Nat \ {0} /\ Places \in Nat /\ precision \in Nat
  <2>1. Places - precision \in 0..Places /\ Places \in Nat
    BY ItemAssumption
  <2> QED BY <2>1, TenPowers
<1> DEFINE u == Ten[precision]
<1>4. q \in Nat /\ 2 * (mag - q * unit) <= unit /\ -2 * (mag - q * unit) <= unit
  <2>1. mag \div unit \in Nat
    BY <1>3, Division
  <2>2. q \in {mag \div unit, mag \div unit + 1}
    BY <1>2
  <2>3. LET off == mag - q * unit IN 2 * off <= unit /\ -2 * off <= unit
    BY <1>2
  <2> HIDE DEF unit
  <2> QED BY <2>1, <2>2, <2>3
<1> HIDE DEF near
<1> DEFINE A == Shown(q \div u, 1)
           B == IF precision = 0 THEN <<>> ELSE Shown(q % u, precision)
<1>5. /\ q \div u \in Nat /\ q % u \in Nat /\ q % u < u
      /\ (q \div u) * u + (q % u) = q
  BY <1>3, <1>4, Division
<1>6. A \in Seq(Digits) /\ A # <<>> /\ Decimal(A) = q \div u
  <2>1. A \in Seq(Digits) /\ Len(A) >= 1 /\ Decimal(A) = q \div u
    <3>1. 1 \in Nat \ {0}
      OBVIOUS
    <3> HIDE DEF u
    <3> QED BY <3>1, <1>5, DecimalShown
  <2> QED BY <2>1, EmptySeq
<1>7. B \in Seq(Digits) /\ Len(B) = precision /\ Decimal(B) = q % u
  <2>1. CASE precision = 0
    <3>1. u = 1
      BY <2>1, TenPowers DEF Powers
    <3>2. q % u = 0
      BY <3>1, <1>5
    <3>3. <<>> \in Seq({"0"}) /\ <<>> \in Seq(Digits) /\ Len(<<>>) = 0
      BY EmptySeq
    <3>4. Decimal(<<>>) = 0
      BY <3>3, DecimalZeros
    <3> QED BY <2>1, <3>2, <3>3, <3>4
  <2>2. CASE precision # 0
    <3>1. precision \in Nat \ {0}
      BY <2>2, <1>3
    <3>2. Powers(Ten, precision)
      <4>2. \A k \in 0..precision : k \in 0..Places /\ (k # 0 => k \in 1..Places)
        BY <1>3
      <4> QED BY <4>2, TenPowers DEF Powers
    <3> HIDE DEF u
    <3>3. Shown(q % u, precision) \in Seq(Digits) /\ Decimal(Shown(q % u, precision)) = q % u
      BY <3>1, <1>5, DecimalShown
    <3>4. Len(Shown(q % u, precision)) = precision
      BY <3>1, <3>2, <1>5, ShownWidth DEF u
    <3> QED BY <2>2, <3>3, <3>4
  <2> QED BY <2>1, <2>2
<1>8. body = A \o (IF precision = 0 THEN <<>> ELSE <<".">> \o B)
  <2>0. body = (A \o point) \o B
    BY <1>2
  <2>1. CASE precision = 0
    <3>1. point = <<>> /\ B = <<>>
      BY <2>1
    <3> HIDE DEF A, B, point
    <3>2. A \o <<>> = A
      BY <1>6, ConcatEmptySeq
    <3> QED BY <2>0, <2>1, <3>1, <3>2
  <2>2. CASE precision # 0
    <3>1. point = <<".">>
      BY <2>2
    <3> HIDE DEF A, B, point
    <3> DEFINE S == Digits \cup {"."}
    <3>2. A \in Seq(S) /\ B \in Seq(S) /\ <<".">> \in Seq(S)
      <4>1. Digits \subseteq S /\ "." \in S
        OBVIOUS
      <4>2. A \in Seq(S) /\ B \in Seq(S)
        BY <4>1, <1>6, <1>7, SeqMonotonic
      <4> HIDE DEF S
      <4>3. <<".">> \in Seq(S)
        BY <4>1
      <4> QED BY <4>2, <4>3
    <3> HIDE DEF S
    <3>3. (A \o <<".">>) \o B = A \o (<<".">> \o B)
      BY <3>2, ConcatAssociative
    <3> QED BY <2>0, <2>2, <3>1, <3>3
  <2> QED BY <2>1, <2>2
<1> HIDE DEF A, B
<1>9. Decimal(A) * u + Decimal(B) = q
  BY <1>5, <1>6, <1>7
<1>10. IsFixed(mag, precision, body, A, B, q)
  BY <1>4, <1>6, <1>7, <1>8, <1>9 DEF IsFixed
<1> QED BY <1>10

-----------------------------------------------------------------------------
(* An item on its way.                                                     *)

\* Where the values and the frame come from.
ItemIInv ==
    /\ item \in Items /\ text \in Texts
    /\ value # None => \E tail \in Tails : value = FromStr(item, text \o <<NUL>> \o tail)
    /\ frame # <<>> => value # None /\ frame \in Data(item, value)
    /\ behind = <<>> \/ behind \in Tails
    /\ again # None => frame # <<>> /\ again = FromData(item, frame \o behind)

\* The values and the frame of an item come from the factories and from data(), in
\* every reachable state.
THEOREM ItemInvariant == ItemSpec => []ItemIInv
<1>1. ItemInit => ItemIInv
  BY DEF ItemInit, ItemIInv
<1>2. ItemIInv /\ [ItemNext]_itemVars => ItemIInv'
  <2> SUFFICES ASSUME ItemIInv, [ItemNext]_itemVars PROVE ItemIInv'
    OBVIOUS
  <2>1. CASE Make
    BY <2>1 DEF ItemIInv, Make
  <2>2. CASE Write
    BY <2>2 DEF ItemIInv, Write
  <2>3. CASE Read
    BY <2>3 DEF ItemIInv, Read
  <2>4. CASE UNCHANGED itemVars
    BY <2>4 DEF ItemIInv, itemVars
  <2> QED BY <2>1, <2>2, <2>3, <2>4 DEF ItemNext, ItemOver
<1> QED BY <1>1, <1>2, PTL DEF ItemSpec

\* What a cell of memory may hold.
Stored == UNION {Range(s) : s \in Texts \cup Tails}
Cell == Stored \cup Digits \cup {NUL, "-", ".", " "} \cup Int

\* Digits, signs, numbers and all texts are made of cells.
LEMMA CellFacts ==
    /\ Digits \subseteq Cell /\ {NUL, "-", ".", " ", "0"} \subseteq Cell /\ Int \subseteq Cell
    /\ \A s \in Texts \cup Tails : s \in Seq(Cell)
<1>1. Digits \subseteq Cell /\ {NUL, "-", ".", " "} \subseteq Cell /\ Int \subseteq Cell
  BY DEF Cell
<1>2. "0" \in Cell
  BY <1>1, DigitFacts
<1>3. \A s \in Texts \cup Tails : s \in Seq(Cell)
  <2> TAKE s \in Texts \cup Tails
  <2>1. s \in Seq(Range(s))
    BY ItemAssumption
  <2>2. Range(s) \subseteq Cell
    BY DEF Cell, Stored
  <2> QED BY <2>1, <2>2, SeqMonotonic
<1> QED BY <1>1, <1>2, <1>3

\* Cells may be put together in any order.
LEMMA CellsAssociative == \A a, b, c \in Seq(Cell) : (a \o b) \o c = a \o (b \o c)
  BY ConcatAssociative

\* What the constructors make of the characters p, by type.
IsMade(it, p, v) ==
    \/ ItemType(it) = "char" /\ v = [type |-> "char", c |-> p[1]]
    \/ ItemType(it) = "float" /\ v = [type |-> "float", f |-> ReadFloat(CString(p))]
    \/ ItemType(it) = "number" /\ v = [type |-> "number", i |-> ReadNumber(p, it.length)]
    \/ ItemType(it) = "string" /\ v = [type |-> "string", s |-> ReadString(p, it.length)]
    \/ ItemType(it) = "int" /\ v = [type |-> "int", i |-> ReadInt(CString(p), -IntMax - 1, IntMax)]
    \/ ItemType(it) = "word" /\ v = [type |-> "word", i |-> ReadInt(CString(p), 0, WordMax)]

\* get_ftd_item_type knows six types.
LEMMA ItemTypes ==
    ASSUME NEW it
    PROVE  ItemType(it) \in {"char", "float", "int", "number", "string", "word", "unknown"}
<1> DEFINE b == it.basetype
           has(name) == \E k \in 1..Len(b) : b[k] = name
<1>1. ItemType(it) = CASE b = <<"FTDCharType">> -> "char"
                       [] has("FTDFloatType") -> "float"
                       [] b = <<"FTDIntType">> -> "int"
                       [] has("FTDNumberType") -> "number"
                       [] has("FTDStringType") -> "string"
                       [] b = <<"FTDWordType">> -> "word"
                       [] OTHER -> "unknown"
  BY DEF ItemType, get_ftd_item_type
<1> HIDE DEF has, b
<1> QED BY <1>1

\* create_ftd_item_value_from_str makes a value, or nothing of an unknown type.
LEMMA FromStrMakes ==
    ASSUME NEW it, NEW p, FromStr(it, p) # None
    PROVE  IsMade(it, p, FromStr(it, p))
<1>1. ItemType(it) \in {"char", "float", "int", "number", "string", "word", "unknown"}
  BY ItemTypes
<1> DEFINE T == ItemType(it)
<1>2. FromStr(it, p) = CASE T = "int" -> [type |-> "int", i |-> ReadInt(CString(p), -IntMax - 1, IntMax)]
                         [] T = "word" -> [type |-> "word", i |-> ReadInt(CString(p), 0, WordMax)]
                         [] OTHER -> FromChars(it, p)
  BY Zenon DEF FromStr
<1>3. FromChars(it, p) = CASE T = "char" -> [type |-> "char", c |-> p[1]]
                           [] T = "float" -> [type |-> "float", f |-> ReadFloat(CString(p))]
                           [] T = "number" -> [type |-> "number", i |-> ReadNumber(p, it.length)]
                           [] T = "string" -> [type |-> "string", s |-> ReadString(p, it.length)]
                           [] OTHER -> None
  BY Zenon DEF FromChars
<1>4. IsMade(it, p, FromStr(it, p)) <=>
         \/ T = "char" /\ FromStr(it, p) = [type |-> "char", c |-> p[1]]
         \/ T = "float" /\ FromStr(it, p) = [type |-> "float", f |-> ReadFloat(CString(p))]
         \/ T = "number" /\ FromStr(it, p) = [type |-> "number", i |-> ReadNumber(p, it.length)]
         \/ T = "string" /\ FromStr(it, p) = [type |-> "string", s |-> ReadString(p, it.length)]
         \/ T = "int" /\ FromStr(it, p) = [type |-> "int", i |-> ReadInt(CString(p), -IntMax - 1, IntMax)]
         \/ T = "word" /\ FromStr(it, p) = [type |-> "word", i |-> ReadInt(CString(p), 0, WordMax)]
  BY DEF IsMade
<1> HIDE DEF T
<1>5. T = "unknown" => FromStr(it, p) = None
  BY <1>2, <1>3
<1>6. CASE T = "char"
  BY <1>2, <1>3, <1>4, <1>6
<1>7. CASE T = "float"
  BY <1>2, <1>3, <1>4, <1>7
<1>8. CASE T = "number"
  BY <1>2, <1>3, <1>4, <1>8
<1>9. CASE T = "string"
  BY <1>2, <1>3, <1>4, <1>9
<1>10. CASE T = "int"
  BY <1>2, <1>4, <1>10
<1>11. CASE T = "word"
  BY <1>2, <1>4, <1>11
<1> QED BY <1>1, <1>5, <1>6, <1>7, <1>8, <1>9, <1>10, <1>11 DEF T

\* Memory at the text of a column, and what was made of it.
LEMMA MadeOfText ==
    ASSUME ItemIInv, value # None
    PROVE  \E tail \in Tails :
              /\ text \o <<NUL>> \o tail \in Seq(Cell)
              /\ IsMade(item, text \o <<NUL>> \o tail, value)
              /\ (text \o <<NUL>> \o tail)[1] \in Cell
              /\ text \o <<NUL>> \o tail = text \o (<<NUL>> \o tail) /\ <<NUL>> \o tail \in Seq(Cell)
              /\ (<<NUL>> \o tail)[1] = NUL
<1>1. PICK tail \in Tails : value = FromStr(item, text \o <<NUL>> \o tail)
  BY DEF ItemIInv
<1>2. IsMade(item, text \o <<NUL>> \o tail, value)
  BY <1>1, FromStrMakes, Zenon
<1>3. text \in Seq(Cell) /\ tail \in Seq(Cell) /\ NUL \in Cell
  BY CellFacts DEF ItemIInv
<1> DEFINE n == <<NUL>>
           e == n \o tail
           p == text \o n \o tail
<1>4. n \in Seq(Cell) /\ Len(n) = 1 /\ n[1] = NUL
  BY <1>3
<1> HIDE DEF n
<1>5. e \in Seq(Cell) /\ e[1] = NUL /\ p = text \o e /\ Len(e) \in Nat /\ Len(e) >= 1
  <2>1. /\ e \in Seq(Cell) /\ Len(e) = Len(n) + Len(tail) /\ Len(tail) \in Nat
        /\ \A k \in 1..Len(n) + Len(tail) : e[k] = IF k <= Len(n) THEN n[k] ELSE tail[k - Len(n)]
    BY <1>3, <1>4, ConcatProperties, LenProperties
  <2>2. p = text \o e
    BY <1>3, <1>4, ConcatAssociative
  <2> HIDE DEF e, p
  <2>3. 1 \in 1..Len(n) + Len(tail) /\ 1 <= Len(n)
    BY <2>1, <1>4
  <2> QED BY <2>1, <2>2, <2>3, <1>4
<1> HIDE DEF e, p
<1>6. p \in Seq(Cell) /\ p[1] \in Cell
  <2>1. p \in Seq(Cell) /\ Len(p) = Len(text) + Len(e) /\ Len(text) \in Nat
    BY <1>3, <1>5, ConcatProperties, LenProperties
  <2>2. 1 \in 1..Len(p)
    BY <2>1, <1>5
  <2> QED BY <2>1, <2>2, ElementOfSeq
<1> QED BY <1>2, <1>5, <1>6 DEF e, p, n

\* An item's number has a sign and digits that fit in the item.
LEMMA NumberFits ==
    ASSUME NEW S, NEW p \in Seq(S), NEW length \in Nat, NEW n, n = ReadNumber(p, length)
    PROVE  /\ n \in -IntMax - 1..IntMax /\ Abs(n) \in Nat /\ (n < 0) \in BOOLEAN
           /\ length > 0 =>
                 Len(Sign(n < 0)) + Len(Shown(Abs(n), 1)) <= length
<1> DEFINE s == Chars(p, length)
           r == Parsed(s)
           D == Decimal(r.whole)
           m == IF r.neg THEN 0 - D ELSE D
<1>0. IntMax \in Nat
  BY ItemAssumption
<1>1. s \in Seq(S) /\ Len(s) \in Nat /\ Len(s) <= length
  <2>1. s \in Seq(S) /\ Len(s) = IF length < Len(p) THEN length ELSE Len(p)
    BY CharsFacts
  <2>2. Len(p) \in Nat
    BY LenProperties
  <2> HIDE DEF s
  <2> QED BY <2>1, <2>2
<1>2. n = Clamp(m, -IntMax - 1, IntMax)
  BY DEF ReadNumber, ReadInt
<1> HIDE DEF s
<1>3. /\ r.neg \in BOOLEAN /\ r.whole \in Seq(Digits) /\ Len(r.whole) \in Nat
      /\ (IF r.neg THEN 1 ELSE 0) + Len(r.whole) <= Len(s)
  BY <1>1, ParsedFacts
<1> HIDE DEF r
<1>3a. Len(r.whole) <= Len(s) /\ (r.neg => 1 + Len(r.whole) <= Len(s))
  <2>1. CASE r.neg
    BY <2>1, <1>1, <1>3
  <2>2. CASE ~r.neg
    BY <2>2, <1>1, <1>3
  <2> QED BY <2>1, <2>2
<1>4. D \in Nat
  BY <1>3, DecimalReads
<1> HIDE DEF D
<1>5. n \in -IntMax - 1..IntMax /\ Abs(n) \in Nat /\ Abs(n) <= D /\ (n < 0 => r.neg)
  <2>1. m \in Int /\ (m < 0 => r.neg) /\ m <= D /\ -m <= D
    BY <1>3, <1>4
  <2> HIDE DEF m
  <2> QED BY <2>1, <1>0, <1>2, <1>4 DEF Clamp, Abs
<1> DEFINE width == Len(Shown(Abs(n), 1))
<1>6. ASSUME length > 0 PROVE Len(Sign(n < 0)) + width <= length
  <2>0. 1 \in Nat \ {0}
    OBVIOUS
  <2>1. Len(Sign(n < 0)) = IF n < 0 THEN 1 ELSE 0
    BY DEF Sign
  <2>2. CASE r.whole = <<>>
    <3>1. D = 0
      <4>1. <<>> \in Seq({"0"})
        BY EmptySeq
      <4> QED BY <4>1, <2>2, DecimalZeros DEF D
    <3>2. Abs(n) = 0 /\ ~(n < 0)
      BY <3>1, <1>5 DEF Abs
    <3>3. \E E \in Seq(Digits) : Len(E) = 1
      <4>1. "0" \in Digits
        BY DigitFacts, Zenon
      <4>2. 1 \in Int /\ (IF 1 < 0 THEN 0 ELSE 1) = 1
        OBVIOUS
      <4>3. [k \in 1..1 |-> "0"] \in Seq(Digits)
            /\ Len([k \in 1..1 |-> "0"]) = IF 1 < 0 THEN 0 ELSE 1
        BY <4>1, <4>2, Fill, Zenon
      <4> QED BY <4>2, <4>3, Zenon
    <3>4. PICK E \in Seq(Digits) : Len(E) = 1
      BY <3>3
    <3>5. Decimal(E) \in Nat
      BY DecimalReads
    <3>6. width <= 1
      <4>1. 0 <= Decimal(E) /\ 1 <= Len(E)
        BY <3>4, <3>5
      <4>2. Len(Shown(0, 1)) <= Len(E)
        BY <4>1, <2>0, ShownFits
      <4> QED BY <4>2, <3>2, <3>4
    <3>7. width \in Nat
      BY <2>0, <1>5, DecimalShown
    <3> HIDE DEF width
    <3> QED BY <3>2, <3>6, <3>7, <2>1, <1>6
  <2>3. CASE r.whole # <<>>
    <3>1. Len(r.whole) >= 1
      BY <2>3, <1>3, EmptySeq
    <3>2. width <= Len(r.whole)
      BY <3>1, <2>0, <1>3, <1>5, ShownFits DEF D
    <3>3. width \in Nat
      BY <2>0, <1>5, DecimalShown
    <3> DEFINE a == Len(r.whole)
    <3>4. a \in Nat /\ width <= a /\ (n < 0 => 1 + a <= Len(s)) /\ a <= Len(s)
      BY <3>2, <1>3, <1>3a, <1>5
    <3> HIDE DEF width, a
    <3> QED BY <3>3, <3>4, <2>1, <1>1
  <2> QED BY <2>2, <2>3
<1>7. (n < 0) \in BOOLEAN
  BY <1>5
<1> QED BY <1>5, <1>6, <1>7

\* A sequence is over any set that holds its elements.
LEMMA SeqOver ==
    ASSUME NEW S, NEW s \in Seq(S), NEW T, \A k \in 1..Len(s) : s[k] \in T
    PROVE  s \in Seq(T)
<1>1. s \in [1..Len(s) -> T] /\ Len(s) \in Nat
  BY LenProperties
<1> QED BY <1>1, FunctionIsSequence

\* Where no blank is in front none is skipped.
LEMMA NoBlanks ==
    ASSUME NEW S, NEW s \in Seq(S), s = <<>> \/ s[1] # " "
    PROVE  SkipBlanks(s) = s
<1>1. <<>> \in Seq(S) /\ <<>> \in Seq({" "}) /\ Len(<<>>) = 0
  BY EmptySeq
<1>2. <<>> \o s = s
  BY ConcatEmptySeq
<1>3. s = <<>> \/ s[1] \notin {" "}
  OBVIOUS
<1>4. Leading(<<>> \o s, {" "}) = <<>>
  BY <1>1, <1>3, LeadingConcat
<1>5. Without(<<>> \o s, Len(<<>>)) = s
  BY <1>1, WithoutConcat
<1> QED BY <1>2, <1>4, <1>5, Zenon DEF SkipBlanks

\* strlen finds what is in front of the first NUL.
LEMMA CStringConcat ==
    ASSUME NEW S, NEW a \in Seq(S), NEW b \in Seq(S), \A k \in 1..Len(a) : a[k] # NUL
    PROVE  \E c \in Seq(S) :
              CString(a \o b) = a \o c /\ (c = <<>> \/ (b # <<>> /\ c[1] = b[1]))
<1>1. PICK d \in Seq(S) : /\ UpTo(b, {NUL}) \in Seq(S) /\ b = UpTo(b, {NUL}) \o d
                          /\ Ends(UpTo(b, {NUL}), d, {NUL})
  BY UpToSplits
<1> DEFINE c == UpTo(b, {NUL})
<1>2. c \in Seq(S) /\ b = c \o d /\ Ends(c, d, {NUL})
  BY <1>1
<1> HIDE DEF c
<1>3. /\ a \o c \in Seq(S) /\ Len(a \o c) = Len(a) + Len(c) /\ Len(a) \in Nat /\ Len(c) \in Nat
      /\ \A k \in 1..Len(a) + Len(c) : (a \o c)[k] = IF k <= Len(a) THEN a[k] ELSE c[k - Len(a)]
      /\ a \o b = (a \o c) \o d
  <2>1. a \o b = (a \o c) \o d
    <3>1. c \in Seq(S) /\ d \in Seq(S) /\ b = c \o d
      BY <1>2
    <3>2. (a \o c) \o d = a \o (c \o d)
      BY <3>1, ConcatAssociative
    <3> QED BY <3>1, <3>2
  <2>2. c \in Seq(S)
    BY <1>2
  <2> QED BY <2>1, <2>2, ConcatProperties, LenProperties
<1>4. Ends(a \o c, d, {NUL})
  <2>1. \A k \in 1..Len(a \o c) : (a \o c)[k] # NUL
    <3> TAKE k \in 1..Len(a \o c)
    <3>1. k \in 1..Len(a) + Len(c) /\ (k <= Len(a) => k \in 1..Len(a)) /\ (~(k <= Len(a)) => k - Len(a) \in 1..Len(c))
      BY <1>3
    <3> QED BY <3>1, <1>2, <1>3 DEF Ends
  <2> QED BY <2>1, <1>2 DEF Ends
<1>5. UpTo((a \o c) \o d, {NUL}) = a \o c
  BY <1>3, <1>4, UpToConcat
<1>6. CString(a \o b) = a \o c
  BY <1>3, <1>5 DEF CString
<1>7. c # <<>> => b # <<>> /\ c[1] = b[1]
  <2> SUFFICES ASSUME c # <<>> PROVE b # <<>> /\ c[1] = b[1]
    OBVIOUS
  <2>1. Len(c) \in Nat \ {0} /\ Len(d) \in Nat
    BY <1>2, EmptySeq, LenProperties
  <2>2. /\ Len(c \o d) = Len(c) + Len(d)
        /\ \A k \in 1..Len(c) + Len(d) : (c \o d)[k] = IF k <= Len(c) THEN c[k] ELSE d[k - Len(c)]
    BY <1>2, ConcatProperties
  <2>3. 1 \in 1..Len(c) + Len(d) /\ 1 <= Len(c) /\ Len(c \o d) # 0
    BY <2>1, <2>2
  <2>4. (c \o d)[1] = c[1] /\ c \o d # <<>>
    BY <2>2, <2>3, EmptySeq
  <2> QED BY <2>4, <1>2
<1> QED BY <1>2, <1>6, <1>7

\* A number that was written is the number that is read.
LEMMA ReadsNumber ==
    ASSUME NEW n \in -IntMax - 1..IntMax, NEW w \in Nat,
           NEW b \in Seq(Cell), b = <<>> \/ b[1] \notin Digits
    PROVE  ReadInt(Padded(n < 0, Shown(Abs(n), 1), w) \o b, -IntMax - 1, IntMax) = n
<1>0. IntMax \in Nat /\ 1 \in Nat \ {0}
  BY ItemAssumption
<1> DEFINE neg == n < 0
           D == Shown(Abs(n), 1)
           s == Padded(neg, D, w)
<1>1. neg \in BOOLEAN /\ Abs(n) \in Nat /\ n = (IF neg THEN 0 - Abs(n) ELSE Abs(n))
  BY <1>0 DEF Abs
<1>2. D \in Seq(Digits) /\ Len(D) \in Nat /\ Len(D) >= 1 /\ Decimal(D) = Abs(n)
  BY <1>0, <1>1, DecimalShown
<1>3. D \in Seq(Cell) /\ {"-", "0"} \subseteq Cell /\ {"-"} \cup Digits \subseteq Cell
  <2>1. Digits \subseteq Cell /\ {"-", "0"} \subseteq Cell
    BY CellFacts
  <2> QED BY <2>1, <1>2, SeqMonotonic
<1> HIDE DEF neg, D
<1>4. Sign(neg) \in Seq(Cell) /\ \E z : IsPadded(s, neg, D, w, z, Cell)
  BY <1>1, <1>3, PaddedFacts
<1>5. PICK z : z \in Seq({"0"}) /\ z \in Seq(Cell) /\ s = Sign(neg) \o (z \o D)
  <2>1. PICK z : IsPadded(s, neg, D, w, z, Cell)
    BY <1>4
  <2> HIDE DEF s
  <2> QED BY <2>1 DEF IsPadded
<1> DEFINE E == z \o D
<1>6. z \in Seq(Digits) /\ Decimal(z) = 0
  BY <1>5, DecimalZeros
<1>7. E \in Seq(Digits) /\ E \in Seq(Cell) /\ E # <<>>
  <2>1. E \in Seq(Digits) /\ E \in Seq(Cell) /\ Len(E) = Len(z) + Len(D) /\ Len(z) \in Nat
    BY <1>2, <1>3, <1>5, <1>6, ConcatProperties, LenProperties
  <2> HIDE DEF E
  <2>2. Len(E) # 0
    BY <2>1, <1>2
  <2> QED BY <2>1, <2>2, EmptySeq
<1>8. Decimal(E) = Abs(n)
  <2>1. PICK P : Powers(P, Len(D))
    BY <1>2, PowersExist
  <2>2. P[Len(D)] \in Nat
    BY <2>1, <1>2 DEF Powers
  <2>3. Decimal(E) = Decimal(z) * P[Len(D)] + Decimal(D)
    BY <2>1, <1>2, <1>6, DecimalConcat
  <2> HIDE DEF E
  <2> QED BY <2>2, <2>3, <1>1, <1>2, <1>6
<1>9. s \o b = Sign(neg) \o (E \o b)
  <2>1. s = Sign(neg) \o E
    BY <1>5
  <2> HIDE DEF s, E
  <2>2. (Sign(neg) \o E) \o b = Sign(neg) \o (E \o b)
    BY <1>4, <1>7, CellsAssociative, Zenon
  <2> QED BY <2>1, <2>2
<1> HIDE DEF E, s
<1> DEFINE r == Parsed(s \o b)
<1>10. r.neg = neg /\ r.whole = E
  <2>1. r = [neg |-> neg, whole |-> E,
             part |-> IF b # <<>> /\ b[1] = "." THEN Leading(Tail(b), Digits) ELSE <<>>,
             rest |-> PointRest(b)]
    BY <1>1, <1>3, <1>7, <1>9, ParsedOf
  <2> HIDE DEF r
  <2> QED BY <2>1
<1>11. ReadInt(s \o b, -IntMax - 1, IntMax) =
          Clamp(IF r.neg THEN 0 - Decimal(r.whole) ELSE Decimal(r.whole), -IntMax - 1, IntMax)
  BY Zenon DEF ReadInt
<1> HIDE DEF r
<1>12. ReadInt(s \o b, -IntMax - 1, IntMax) = Clamp(n, -IntMax - 1, IntMax)
  BY <1>1, <1>8, <1>10, <1>11, Zenon
<1>13. Clamp(n, -IntMax - 1, IntMax) = n
  BY <1>0 DEF Clamp
<1> QED BY <1>12, <1>13 DEF s, neg, D

\* A number, a float or a string that is written fills its place.
LEMMA NumberWritten ==
    ASSUME NEW n \in -IntMax - 1..IntMax, NEW length \in Nat, length > 0,
           Len(Sign(n < 0)) + Len(Shown(Abs(n), 1)) <= length
    PROVE  LET s == Padded(n < 0, Shown(Abs(n), 1), length) IN
           /\ s \in Seq(Cell) /\ Len(s) = length /\ Chars(s, length) = s
<1>0. IntMax \in Nat /\ 1 \in Nat \ {0}
  BY ItemAssumption
<1> DEFINE neg == n < 0
           D == Shown(Abs(n), 1)
           s == Padded(neg, D, length)
<1>1. neg \in BOOLEAN /\ Abs(n) \in Nat
  BY <1>0 DEF Abs
<1>2. D \in Seq(Digits) /\ {"-", "0"} \subseteq Cell /\ Digits \subseteq Cell
  BY <1>0, <1>1, DecimalShown, CellFacts
<1>3. D \in Seq(Cell)
  BY <1>2, SeqMonotonic
<1>4. Len(Sign(neg)) + Len(D) <= length
  OBVIOUS
<1> HIDE DEF neg, D
<1>5. s \in Seq(Cell) /\ Len(s) = IF Len(Sign(neg)) + Len(D) < length THEN length ELSE Len(Sign(neg)) + Len(D)
  <2>1. PICK z : IsPadded(s, neg, D, length, z, Cell)
    BY <1>1, <1>2, <1>3, PaddedFacts
  <2> HIDE DEF s
  <2> QED BY <2>1 DEF IsPadded
<1>6. Len(Sign(neg)) \in Nat /\ Len(D) \in Nat
  BY <1>1, <1>2, <1>3, PaddedFacts, LenProperties
<1> HIDE DEF s
<1>7. Len(s) = length
  BY <1>4, <1>5, <1>6
<1>8. Chars(s, length) = s
  <2>1. <<>> \in Seq(Cell) /\ s \o <<>> = s
    BY <1>5, EmptySeq, ConcatEmptySeq
  <2>2. Chars(s \o <<>>, Len(s)) = s
    BY <2>1, <1>5, CharsFirst
  <2> QED BY <2>1, <2>2, <1>7
<1> QED BY <1>5, <1>7, <1>8 DEF s, neg, D

\* A string item's characters.
IsWord(s) == \A k \in 1..Len(s) : s[k] # NUL /\ s[k] # " "

\* A string has no blanks and no NUL, and is not longer than its item.
LEMMA StringMade ==
    ASSUME NEW p \in Seq(Cell), NEW length \in Nat, NEW s, s = ReadString(p, length)
    PROVE  /\ s \in Seq(Cell) /\ Len(s) \in Nat /\ Len(s) <= length
           /\ IsWord(s)
<1> DEFINE S == Cell \ {NUL}
           c == CString(p)
           d == Chars(c, length)
           t == SkipBlanks(d)
<1>1. s = UpTo(t, {" "})
  BY Zenon DEF ReadString
<1>2. c \in Seq(S)
  <2>1. PICK e \in Seq(Cell) : /\ UpTo(p, {NUL}) \in Seq(Cell)
                               /\ Ends(UpTo(p, {NUL}), e, {NUL})
    BY UpToSplits
  <2>2. c \in Seq(Cell) /\ \A k \in 1..Len(c) : c[k] \notin {NUL}
    BY <2>1 DEF CString, Ends
  <2>3. \A k \in 1..Len(c) : c[k] \in Cell
    BY <2>2, ElementOfSeq
  <2> HIDE DEF c
  <2>4. \A k \in 1..Len(c) : c[k] \in S
    BY <2>2, <2>3
  <2> HIDE DEF S
  <2> QED BY <2>2, <2>4, SeqOver
<1> HIDE DEF S, c
<1>3. d \in Seq(S) /\ Len(d) \in Nat /\ Len(d) <= length
  <2>1. d \in Seq(S) /\ Len(d) = (IF length < Len(c) THEN length ELSE Len(c)) /\ Len(c) \in Nat
    BY <1>2, CharsFacts, LenProperties
  <2> HIDE DEF d
  <2> QED BY <2>1
<1> HIDE DEF d
<1>4. t \in Seq(S) /\ Len(t) \in Nat /\ Len(t) <= length
  <2> DEFINE a == Leading(d, {" "})
  <2>1. \E b \in Seq(S) : /\ Leading(d, {" "}) \in Seq(S) /\ Leading(d, {" "}) \in Seq({" "})
                          /\ d = Leading(d, {" "}) \o b
                          /\ b = <<>> \/ b[1] \notin {" "}
    BY <1>3, LeadingSplits
  <2>2. PICK b \in Seq(S) : a \in Seq(S) /\ d = a \o b
    BY <2>1, Zenon
  <2>3. t = Without(d, Len(a))
    BY Zenon DEF SkipBlanks
  <2> HIDE DEF a
  <2>4. Without(a \o b, Len(a)) = b /\ Len(a \o b) = Len(a) + Len(b) /\ Len(a) \in Nat /\ Len(b) \in Nat
    BY <2>2, WithoutConcat, ConcatProperties, LenProperties
  <2>5. t = b
    BY <2>2, <2>3, <2>4
  <2> HIDE DEF t
  <2> QED BY <2>2, <2>4, <2>5, <1>3
<1> HIDE DEF t
<1>5. PICK f \in Seq(S) : /\ UpTo(t, {" "}) \in Seq(S)
                          /\ t = UpTo(t, {" "}) \o f
                          /\ Ends(UpTo(t, {" "}), f, {" "})
  BY <1>4, UpToSplits
<1>6. s \in Seq(S) /\ t = s \o f /\ \A k \in 1..Len(s) : s[k] \notin {" "}
  BY <1>1, <1>5 DEF Ends
<1>7. Len(t) = Len(s) + Len(f) /\ Len(s) \in Nat /\ Len(f) \in Nat
  BY <1>6, ConcatProperties, LenProperties
<1>8. \A k \in 1..Len(s) : s[k] \in S
  BY <1>6, ElementOfSeq
<1>9. s \in Seq(Cell)
  <2>1. S \subseteq Cell
    BY DEF S
  <2> QED BY <2>1, <1>6, SeqMonotonic
<1>10. Len(s) \in Nat /\ Len(s) <= length
  BY <1>4, <1>7
<1>11. \A k \in 1..Len(s) : s[k] # NUL /\ s[k] # " "
  <2> TAKE k \in 1..Len(s)
  <2>1. s[k] \in Cell \ {NUL} /\ s[k] \notin {" "}
    BY <1>6, <1>8 DEF S
  <2> QED BY <2>1
<1> QED BY <1>9, <1>10, <1>11 DEF IsWord

\* It is filled with blanks.
LEMMA StringWritten ==
    ASSUME NEW s \in Seq(Cell), NEW length \in Nat, Len(s) <= length
    PROVE  LET blanks == [n \in 1..length - Len(s) |-> " "] IN
           /\ blanks \in Seq({" "}) /\ blanks \in Seq(Cell)
           /\ s \o blanks \in Seq(Cell) /\ Len(s \o blanks) = length
<1> DEFINE m == length - Len(s)
           blanks == [n \in 1..m |-> " "]
<1>1. Len(s) \in Nat /\ m \in Int /\ ~(m < 0) /\ Len(s) + m = length
  BY LenProperties
<1> HIDE DEF m
<1>2. " " \in Cell
  BY CellFacts
<1>3. blanks \in Seq({" "}) /\ blanks \in Seq(Cell) /\ Len(blanks) = IF m < 0 THEN 0 ELSE m
  BY <1>1, <1>2, Fill
<1> HIDE DEF blanks
<1>4. s \o blanks \in Seq(Cell) /\ Len(s \o blanks) = Len(s) + Len(blanks)
  BY <1>3, ConcatProperties
<1>5. Len(s \o blanks) = length
  BY <1>1, <1>3, <1>4
<1> QED BY <1>3, <1>4, <1>5 DEF blanks, m

\* A float fills its place, and is written whole if it fits.
LEMMA FloatWritten ==
    ASSUME NEW neg \in BOOLEAN, NEW mag \in Nat, NEW precision \in 0..Places,
           NEW body \in Fixed(mag, precision), NEW length \in Nat
    PROVE  LET s == Padded(neg, body, length) IN
           /\ body \in Seq(Cell) /\ s \in Seq(Cell) /\ Len(Chars(s, length)) = length
           /\ Len(Sign(neg) \o body) <= length => Len(s) = length /\ Chars(s, length) = s
<1> DEFINE s == Padded(neg, body, length)
<1>1. PICK A, B, q : IsFixed(mag, precision, body, A, B, q)
  BY FixedFacts
<1>2. A \in Seq(Digits) /\ B \in Seq(Digits) /\ body = A \o (IF precision = 0 THEN <<>> ELSE <<".">> \o B)
  BY <1>1, Zenon DEF IsFixed
<1>3. {"-", "0"} \subseteq Cell /\ Digits \subseteq Cell /\ "." \in Cell
  BY CellFacts
<1>4. body \in Seq(Cell)
  <2>1. A \in Seq(Cell) /\ B \in Seq(Cell)
    BY <1>2, <1>3, SeqMonotonic
  <2>2. <<".">> \in Seq(Cell) /\ <<>> \in Seq(Cell)
    BY <1>3
  <2>3. <<".">> \o B \in Seq(Cell)
    BY <2>1, <2>2, ConcatProperties
  <2> DEFINE C == IF precision = 0 THEN <<>> ELSE <<".">> \o B
  <2>4. C \in Seq(Cell)
    BY <2>2, <2>3
  <2> HIDE DEF C
  <2>5. A \o C \in Seq(Cell)
    BY <2>1, <2>4, ConcatProperties
  <2> QED BY <1>2, <2>5 DEF C
<1>5. s \in Seq(Cell) /\ Len(s) = IF Len(Sign(neg)) + Len(body) < length THEN length ELSE Len(Sign(neg)) + Len(body)
  <2>1. PICK z : IsPadded(s, neg, body, length, z, Cell)
    BY <1>3, <1>4, PaddedFacts
  <2> HIDE DEF s
  <2> QED BY <2>1 DEF IsPadded
<1>6. Sign(neg) \in Seq(Cell)
  BY <1>3, <1>4, PaddedFacts
<1>7. Len(Sign(neg)) \in Nat /\ Len(body) \in Nat /\ Len(Sign(neg) \o body) = Len(Sign(neg)) + Len(body)
  BY <1>4, <1>6, LenProperties, ConcatProperties
<1> HIDE DEF s
<1>8. Len(Chars(s, length)) = length
  <2>1. Len(Chars(s, length)) = IF length < Len(s) THEN length ELSE Len(s)
    BY <1>5, CharsFacts
  <2> QED BY <2>1, <1>5, <1>7
<1>9. ASSUME Len(Sign(neg) \o body) <= length PROVE Len(s) = length /\ Chars(s, length) = s
  <2>1. Len(s) = length
    BY <1>5, <1>7, <1>9
  <2>2. <<>> \in Seq(Cell) /\ s \o <<>> = s
    BY <1>5, EmptySeq, ConcatEmptySeq
  <2>3. Chars(s \o <<>>, Len(s)) = s
    BY <2>2, <1>5, CharsFirst
  <2> QED BY <2>1, <2>2, <2>3
<1> QED BY <1>4, <1>5, <1>8, <1>9 DEF s

\* The digits of an exponent are digits.
LEMMA ExponentFacts ==
    ASSUME NEW rest \in Seq(Cell)
    PROVE  Exponent(rest).digits \in Seq(Digits)
<1> DEFINE t == Tail(rest)
           d == IF Signed(t) THEN Tail(t) ELSE t
           marked == rest # <<>> /\ rest[1] \in {"e", "E"}
<1>1. Exponent(rest) = IF marked THEN [neg |-> Signed(t) /\ t[1] = "-", digits |-> Leading(d, Digits)]
                       ELSE [neg |-> FALSE, digits |-> <<"0">>]
  BY Zenon DEF Exponent
<1>2. CASE marked
  <2>1. t \in Seq(Cell)
    BY <1>2, HeadTailProperties
  <2>2. d \in Seq(Cell)
    <3>1. Signed(t) => t # <<>>
      BY DEF Signed
    <3> HIDE DEF t
    <3> QED BY <2>1, <3>1, HeadTailProperties
  <2> HIDE DEF d
  <2>3. Leading(d, Digits) \in Seq(Digits)
    BY <2>2, LeadingSplits
  <2> HIDE DEF t, marked
  <2> QED BY <1>1, <1>2, <2>3
<1>3. CASE ~marked
  <2>1. "0" \in Digits
    BY DigitFacts
  <2>2. <<"0">> \in Seq(Digits)
    BY <2>1
  <2> HIDE DEF t, d, marked
  <2> QED BY <1>1, <1>3, <2>2
<1> QED BY <1>2, <1>3

\* Digits that are cut off or go on with zeros are digits.
LEMMA FirstDigitsFacts ==
    ASSUME NEW d \in Seq(Digits), NEW m \in Int
    PROVE  FirstDigits(d, m) \in Seq(Digits)
<1> DEFINE k == IF m < 0 THEN 0 ELSE m
           F(n) == IF n <= Len(d) THEN d[n] ELSE "0"
<1>1. k \in Nat /\ 1..m = 1..k
  OBVIOUS
<1>2. \A n \in 1..k : F(n) \in Digits
  <2> TAKE n \in 1..k
  <2>1. CASE n <= Len(d)
    <3>1. n \in 1..Len(d)
      BY <2>1, <1>1, LenProperties
    <3> QED BY <2>1, <3>1, ElementOfSeq
  <2>2. CASE ~(n <= Len(d))
    BY <2>2, DigitFacts
  <2> QED BY <2>1, <2>2
<1> HIDE DEF F, k
<1>3. [n \in 1..k |-> F(n)] \in Seq(Digits)
  BY <1>1, <1>2
<1>4. FirstDigits(d, m) = [n \in 1..m |-> F(n)]
  BY DEF FirstDigits, F
<1>5. [n \in 1..m |-> F(n)] = [n \in 1..k |-> F(n)]
  BY <1>1
<1> QED BY <1>3, <1>4, <1>5, Zenon

\* A float that was read is a decimal number.
LEMMA FloatRead ==
    ASSUME NEW p \in Seq(Cell)
    PROVE  LET v == ReadFloat(CString(p)) IN v.neg \in BOOLEAN /\ v.mag \in Nat
<1> DEFINE s == CString(p)
           r == Parsed(s)
           digits == r.whole \o r.part
           e == Exponent(r.rest)
           shift == IF e.neg THEN 0 - Decimal(e.digits) ELSE Decimal(e.digits)
           point == Len(r.whole) + shift + Places
           kept == FirstDigits(digits, point)
<1>1. s \in Seq(Cell)
  <2>1. UpTo(p, {NUL}) \in Seq(Cell)
    BY UpToSplits
  <2> QED BY <2>1 DEF CString
<1> HIDE DEF s
<1>2. /\ r.neg \in BOOLEAN /\ r.whole \in Seq(Digits) /\ r.part \in Seq(Digits)
      /\ r.rest \in Seq(Cell) /\ Len(r.whole) \in Nat
  BY <1>1, ParsedFacts
<1>3. ReadFloat(s) =
         IF digits = <<>> \/ e.digits = <<>> THEN [neg |-> FALSE, mag |-> 0]
         ELSE [neg |-> r.neg,
               mag |-> IF shift > MaxExp /\ Decimal(digits) # 0 THEN FloatMax ELSE Decimal(kept)]
  BY Zenon DEF ReadFloat
<1> HIDE DEF r
<1>4. e.digits \in Seq(Digits)
  BY <1>2, ExponentFacts
<1> HIDE DEF e
<1>5. shift \in Int
  <2>1. Decimal(e.digits) \in Nat
    BY <1>4, DecimalReads
  <2> QED BY <2>1
<1> HIDE DEF shift
<1>6. digits \in Seq(Digits)
  BY <1>2, ConcatProperties
<1> HIDE DEF digits
<1>7. point \in Int /\ FloatMax \in Nat
  BY <1>2, <1>5, ItemAssumption
<1> HIDE DEF point
<1>8. kept \in Seq(Digits)
  BY <1>6, <1>7, FirstDigitsFacts
<1> HIDE DEF kept
<1>9. Decimal(kept) \in Nat
  BY <1>8, DecimalReads
<1> DEFINE low == digits = <<>> \/ e.digits = <<>>
           neg == r.neg
           mag == IF shift > MaxExp /\ Decimal(digits) # 0 THEN FloatMax ELSE Decimal(kept)
<1>10. ReadFloat(s) = IF low THEN [neg |-> FALSE, mag |-> 0] ELSE [neg |-> neg, mag |-> mag]
  BY <1>3
<1>11. neg \in BOOLEAN /\ mag \in Nat
  BY <1>2, <1>7, <1>9
<1> HIDE DEF low, neg, mag
<1>12. ReadFloat(s).neg \in BOOLEAN /\ ReadFloat(s).mag \in Nat
  <2>1. CASE low
    <3>1. ReadFloat(s) = [neg |-> FALSE, mag |-> 0]
      BY <2>1, <1>10
    <3> QED BY <3>1
  <2>2. CASE ~low
    <3>1. ReadFloat(s) = [neg |-> neg, mag |-> mag]
      BY <2>2, <1>10, Zenon
    <3> QED BY <3>1, <1>11
  <2> QED BY <2>1, <2>2
<1> QED BY <1>12 DEF s

\* What data() gives for each type, and how it is read again.
LEMMA DataOf ==
    ASSUME NEW it, NEW v
    PROVE  /\ v.type = "char" => Data(it, v) = {<<v.c>>}
           /\ v.type \in {"int", "word"} => Data(it, v) = {<<v.i>>}
           /\ v.type = "number" =>
                 Data(it, v) = {Chars(Padded(v.i < 0, Shown(Abs(v.i), 1), it.length), it.length)}
           /\ v.type = "float" =>
                 Data(it, v) = {Chars(Padded(v.f.neg, body, it.length), it.length) :
                                   body \in Fixed(v.f.mag, it.precision)}
           /\ v.type = "string" => Data(it, v) = {v.s \o [n \in 1..it.length - Len(v.s) |-> " "]}
<1> DEFINE D == Data(it, v)
           W == {<<v.i>>}
           N == {Chars(Padded(v.i < 0, Shown(Abs(v.i), 1), it.length), it.length)}
           F == {Chars(Padded(v.f.neg, body, it.length), it.length) : body \in Fixed(v.f.mag, it.precision)}
           S == {v.s \o [n \in 1..it.length - Len(v.s) |-> " "]}
           T == v.type
<1>1. D = CASE T = "char" -> {<<v.c>>}
            [] T \in {"int", "word"} -> W
            [] T = "number" -> N
            [] T = "float" -> F
            [] T = "string" -> S
  BY Zenon DEF Data
<1> HIDE DEF D, W, N, F, S, T
<1>2. /\ T = "char" => D = {<<v.c>>}
      /\ T \in {"int", "word"} => D = W
      /\ T = "number" => D = N
      /\ T = "float" => D = F
      /\ T = "string" => D = S
  BY <1>1
<1> QED BY <1>2, Zenon DEF D, W, N, F, S, T

\* How create_ftd_item_value_from_data reads each type.
LEMMA FromDataOf ==
    ASSUME NEW it, NEW p
    PROVE  /\ ItemType(it) = "char" => FromData(it, p) = [type |-> "char", c |-> p[1]]
           /\ ItemType(it) \in {"int", "word"} => FromData(it, p) = [type |-> ItemType(it), i |-> p[1]]
           /\ ItemType(it) = "number" => FromData(it, p) = [type |-> "number", i |-> ReadNumber(p, it.length)]
           /\ ItemType(it) = "float" => FromData(it, p) = [type |-> "float", f |-> ReadFloat(CString(p))]
           /\ ItemType(it) = "string" => FromData(it, p) = [type |-> "string", s |-> ReadString(p, it.length)]
<1> DEFINE T == ItemType(it)
           N == [type |-> "number", i |-> ReadNumber(p, it.length)]
           F == [type |-> "float", f |-> ReadFloat(CString(p))]
           S == [type |-> "string", s |-> ReadString(p, it.length)]
           C == [type |-> "char", c |-> p[1]]
           W == [type |-> T, i |-> p[1]]
<1>1. FromData(it, p) = IF T \in {"int", "word"} THEN W ELSE FromChars(it, p)
  BY Zenon DEF FromData
<1>2. FromChars(it, p) = CASE T = "char" -> C [] T = "float" -> F [] T = "number" -> N
                           [] T = "string" -> S [] OTHER -> None
  BY Zenon DEF FromChars
<1> HIDE DEF T, N, F, S, C, W
<1>3. /\ T = "char" => FromData(it, p) = C
      /\ T \in {"int", "word"} => FromData(it, p) = W
      /\ T = "number" => FromData(it, p) = N
      /\ T = "float" => FromData(it, p) = F
      /\ T = "string" => FromData(it, p) = S
  BY <1>1, <1>2
<1> QED BY <1>3, Zenon DEF T, N, F, S, C, W

-----------------------------------------------------------------------------

\* A number that was read fits in a cell.
LEMMA ReadIntCell ==
    ASSUME NEW p \in Seq(Cell), NEW lo \in Int, NEW hi \in Int
    PROVE  ReadInt(CString(p), lo, hi) \in Cell
<1> DEFINE r == Parsed(CString(p))
           D == Decimal(r.whole)
           m == IF r.neg THEN 0 - D ELSE D
<1>1. UpTo(p, {NUL}) \in Seq(Cell)
  BY UpToSplits
<1>2. CString(p) \in Seq(Cell)
  BY <1>1 DEF CString
<1>3. r.whole \in Seq(Digits)
  BY <1>2, ParsedFacts
<1>4. m \in Int
  BY <1>3, DecimalReads
<1>5. ReadInt(CString(p), lo, hi) = Clamp(m, lo, hi)
  BY DEF ReadInt
<1> HIDE DEF m
<1>6. Clamp(m, lo, hi) \in Int
  BY <1>4 DEF Clamp
<1> QED BY <1>5, <1>6, CellFacts

\* What an item's frame is, by its type.
LEMMA FrameOf ==
    ASSUME ItemIInv, frame # <<>>
    PROVE  /\ frame \in Seq(Cell) /\ Len(frame) = size(item)
           /\ value.type = ItemType(item)
           /\ ItemType(item) \in {"char", "float", "number", "string", "int", "word"}
           /\ ItemType(item) = "char" => value = [type |-> "char", c |-> frame[1]]
           /\ ItemType(item) \in {"int", "word"} => value = [type |-> ItemType(item), i |-> frame[1]]
           /\ ItemType(item) = "number" =>
                 /\ item.length > 0 /\ value.i \in -IntMax - 1..IntMax
                 /\ frame = Padded(value.i < 0, Shown(Abs(value.i), 1), item.length)
                 /\ value = [type |-> "number", i |-> value.i]
           /\ ItemType(item) = "float" =>
                 /\ value.f.neg \in BOOLEAN /\ value.f.mag \in Nat
                 /\ \E body \in Fixed(value.f.mag, item.precision) :
                       frame = Chars(Padded(value.f.neg, body, item.length), item.length)
           /\ ItemType(item) = "string" =>
                 /\ value = [type |-> "string", s |-> value.s]
                 /\ value.s \in Seq(Cell) /\ Len(value.s) <= item.length
                 /\ IsWord(value.s)
                 /\ frame = value.s \o [n \in 1..item.length - Len(value.s) |-> " "]
<1>1. value # None /\ frame \in Data(item, value) /\ item \in Items
  BY DEF ItemIInv
<1>2. item.length \in Nat /\ item.precision \in 0..Places /\ IntMax \in Nat
  BY <1>1, ItemAssumption
<1>3. PICK p : p \in Seq(Cell) /\ IsMade(item, p, value) /\ p[1] \in Cell
  BY <1>1, MadeOfText
<1> DEFINE T == ItemType(item)
           L == item.length
<1>4. /\ value.type = "char" => Data(item, value) = {<<value.c>>}
      /\ value.type \in {"int", "word"} => Data(item, value) = {<<value.i>>}
      /\ value.type = "number" =>
            Data(item, value) = {Chars(Padded(value.i < 0, Shown(Abs(value.i), 1), L), L)}
      /\ value.type = "float" =>
            Data(item, value) = {Chars(Padded(value.f.neg, body, L), L) :
                                   body \in Fixed(value.f.mag, item.precision)}
      /\ value.type = "string" =>
            Data(item, value) = {value.s \o [n \in 1..L - Len(value.s) |-> " "]}
  BY DataOf
<1>5. size(item) = IF T \in {"char", "int", "word"} THEN 1 ELSE L
  BY DEF size
<1> HIDE DEF T, L
<1>6. CASE T = "char" /\ value = [type |-> "char", c |-> p[1]]
  <2>1. frame = <<p[1]>>
    BY <1>1, <1>4, <1>6
  <2>2. frame \in Seq(Cell) /\ Len(frame) = 1 /\ frame[1] = p[1]
    BY <2>1, <1>3
  <2> QED BY <2>2, <1>5, <1>6 DEF T
<1>7. CASE T = "int" /\ value = [type |-> "int", i |-> ReadInt(CString(p), -IntMax - 1, IntMax)]
  <2> DEFINE n == ReadInt(CString(p), -IntMax - 1, IntMax)
  <2>1. n \in Cell
    <3>1. p \in Seq(Cell) /\ -IntMax - 1 \in Int /\ IntMax \in Int
      BY <1>2, <1>3, ItemAssumption
    <3> QED BY <3>1, ReadIntCell
  <2> HIDE DEF n
  <2>2. frame = <<n>> /\ value.i = n
    BY <1>1, <1>4, <1>7 DEF n
  <2>3. frame \in Seq(Cell) /\ Len(frame) = 1 /\ frame[1] = n
    BY <2>1, <2>2
  <2> QED BY <2>3, <1>5, <1>7 DEF T, n
<1>8. CASE T = "word" /\ value = [type |-> "word", i |-> ReadInt(CString(p), 0, WordMax)]
  <2> DEFINE n == ReadInt(CString(p), 0, WordMax)
  <2>1. n \in Cell
    <3>1. p \in Seq(Cell) /\ 0 \in Int /\ WordMax \in Int
      BY <1>2, <1>3, ItemAssumption
    <3> QED BY <3>1, ReadIntCell
  <2> HIDE DEF n
  <2>2. frame = <<n>> /\ value.i = n
    BY <1>1, <1>4, <1>8 DEF n
  <2>3. frame \in Seq(Cell) /\ Len(frame) = 1 /\ frame[1] = n
    BY <2>1, <2>2
  <2> QED BY <2>3, <1>5, <1>8 DEF T, n
<1>9. CASE T = "number" /\ value = [type |-> "number", i |-> ReadNumber(p, item.length)]
  <2> DEFINE n == ReadNumber(p, item.length)
             s == Padded(n < 0, Shown(Abs(n), 1), L)
  <2>1. L \in Nat /\ value.i = n /\ value.type = "number"
    BY <1>2, <1>9 DEF L
  <2>2. n \in -IntMax - 1..IntMax /\ (L > 0 => Len(Sign(n < 0)) + Len(Shown(Abs(n), 1)) <= L)
    BY <1>2, <1>3, NumberFits DEF L
  <2>3. frame = Chars(s, L)
    BY <2>1, <1>1, <1>4
  <2>4. L > 0
    <3> SUFFICES ASSUME L = 0 PROVE FALSE
      BY <2>1
    <3>1. (n < 0) \in BOOLEAN /\ Abs(n) \in Nat
      BY <1>2, <2>2 DEF Abs
    <3>2. Shown(Abs(n), 1) \in Seq(Digits)
      <4>1. 1 \in Nat \ {0}
        OBVIOUS
      <4> QED BY <4>1, <3>1, DecimalShown
    <3>3. Shown(Abs(n), 1) \in Seq(Cell) /\ {"-", "0"} \subseteq Cell
      BY <3>2, CellFacts, SeqMonotonic
    <3> DEFINE neg == n < 0
               D == Shown(Abs(n), 1)
    <3>4. neg \in BOOLEAN /\ D \in Seq(Cell)
      BY <3>1, <3>3
    <3> HIDE DEF neg, D
    <3>5. PICK z : IsPadded(Padded(neg, D, L), neg, D, L, z, Cell)
      BY <3>3, <3>4, <2>1, PaddedFacts
    <3>6. Padded(neg, D, L) \in Seq(Cell)
      BY <3>5 DEF IsPadded
    <3>7. s \in Seq(Cell)
      BY <3>6 DEF neg, D
    <3> HIDE DEF s
    <3>8. Len(Chars(s, 0)) = IF 0 < Len(s) THEN 0 ELSE Len(s)
      BY <3>7, CharsFacts
    <3>9. Len(frame) = 0 /\ frame \in Seq(Cell)
      BY <2>3, <3>7, <3>8, LenProperties, CharsFacts
    <3> QED BY <3>9, EmptySeq
  <2> HIDE DEF n
  <2>5. s \in Seq(Cell) /\ Len(s) = L /\ Chars(s, L) = s
    BY <2>1, <2>2, <2>4, NumberWritten
  <2> QED BY <2>1, <2>2, <2>3, <2>4, <2>5, <1>5, <1>9 DEF T, L
<1>10. CASE T = "float" /\ value = [type |-> "float", f |-> ReadFloat(CString(p))]
  <2>1. value.f.neg \in BOOLEAN /\ value.f.mag \in Nat /\ value.type = "float"
    BY <1>3, <1>10, FloatRead
  <2>2. PICK body \in Fixed(value.f.mag, item.precision) :
           frame = Chars(Padded(value.f.neg, body, L), L)
    BY <2>1, <1>1, <1>4
  <2> DEFINE s == Padded(value.f.neg, body, L)
  <2>3. L \in Nat
    BY <1>2 DEF L
  <2>4. s \in Seq(Cell) /\ Len(Chars(s, L)) = L
    BY <2>1, <2>3, <1>2, FloatWritten
  <2> HIDE DEF s
  <2>5. frame = Chars(s, L) /\ frame \in Seq(Cell) /\ Len(frame) = L
    BY <2>2, <2>3, <2>4, CharsFacts DEF s
  <2> QED BY <2>1, <2>2, <2>5, <1>5, <1>10 DEF T, L
<1>11. CASE T = "string" /\ value = [type |-> "string", s |-> ReadString(p, item.length)]
  <2> DEFINE s == ReadString(p, item.length)
             b == [n \in 1..L - Len(s) |-> " "]
  <2>1. L \in Nat /\ value.s = s /\ value.type = "string"
    BY <1>2, <1>11 DEF L
  <2>2. /\ s \in Seq(Cell) /\ Len(s) <= L /\ IsWord(s)
    BY <1>2, <1>3, StringMade DEF L
  <2>3. frame = s \o b
    BY <2>1, <1>1, <1>4
  <2> HIDE DEF s
  <2>4. s \o b \in Seq(Cell) /\ Len(s \o b) = L
    BY <2>1, <2>2, StringWritten
  <2> QED BY <2>1, <2>2, <2>3, <2>4, <1>5, <1>11 DEF T, L, s
<1> QED BY <1>3, <1>6, <1>7, <1>8, <1>9, <1>10, <1>11 DEF IsMade, T

\* An item fills its place in the frame exactly.
THEOREM FillsItsPlaceCorrect == ItemSpec => []FillsItsPlace
<1>1. ItemIInv => FillsItsPlace
  BY FrameOf DEF FillsItsPlace
<1> QED BY <1>1, ItemInvariant, PTL

\* A word that was written is read.
LEMMA ReadsString ==
    ASSUME NEW s \in Seq(Cell), NEW length \in Nat, Len(s) <= length,
           IsWord(s),
           NEW b \in Seq(Cell)
    PROVE  ReadString((s \o [n \in 1..length - Len(s) |-> " "]) \o b, length) = s
<1> DEFINE blanks == [n \in 1..length - Len(s) |-> " "]
           a == s \o blanks
<1>1. /\ blanks \in Seq({" "}) /\ blanks \in Seq(Cell)
      /\ a \in Seq(Cell) /\ Len(a) = length
  BY StringWritten
<1> HIDE DEF blanks
<1>2. Len(s) \in Nat /\ Len(blanks) \in Nat /\ \A k \in 1..Len(blanks) : blanks[k] = " "
  <2>1. \A k \in 1..Len(blanks) : blanks[k] \in {" "}
    BY <1>1, ElementOfSeq
  <2>2. Len(s) \in Nat /\ Len(blanks) \in Nat
    BY <1>1, LenProperties
  <2> QED BY <2>1, <2>2
<1>2a. Len(s) \in Nat /\ Len(blanks) \in Nat
  BY <1>2
<1>3. \A k \in 1..Len(s) + Len(blanks) : a[k] = IF k <= Len(s) THEN s[k] ELSE blanks[k - Len(s)]
  BY <1>1, ConcatProperties
<1>4. Len(a) = Len(s) + Len(blanks)
  BY <1>1, ConcatProperties
<1>5. \A k \in 1..Len(a) : a[k] # NUL
  <2> HIDE DEF a
  <2> TAKE k \in 1..Len(a)
  <2>1. k \in 1..Len(s) + Len(blanks) /\ (k <= Len(s) => k \in 1..Len(s))
        /\ (~(k <= Len(s)) => k - Len(s) \in 1..Len(blanks))
    BY <1>2a, <1>4
  <2>2. " " # NUL
    BY DEF NUL
  <2> QED BY <2>1, <2>2, <1>2, <1>3 DEF IsWord
<1>6. (s # <<>> => a[1] = s[1] /\ s[1] # " ") /\ (s = <<>> => a = blanks)
  <2>1. ASSUME s # <<>> PROVE a[1] = s[1] /\ s[1] # " "
    <3>0. Len(s) \in Nat \ {0}
      BY <2>1, EmptySeq
    <3>1. 1 \in 1..Len(s) /\ 1 \in 1..Len(s) + Len(blanks) /\ 1 <= Len(s)
      BY <3>0, <1>2a
    <3> QED BY <3>1, <1>3 DEF IsWord
  <2>2. ASSUME s = <<>> PROVE a = blanks
    BY <2>2, <1>1, ConcatEmptySeq
  <2> QED BY <2>1, <2>2
<1>7. SkipBlanks(a) = IF s = <<>> THEN <<>> ELSE a
  <2>1. CASE s # <<>>
    <3>1. a[1] # " "
      BY <2>1, <1>6
    <3> HIDE DEF a
    <3>2. SkipBlanks(a) = a
      BY <3>1, <1>1, NoBlanks
    <3> QED BY <2>1, <3>2
  <2>2. CASE s = <<>>
    <3>1. a = blanks /\ <<>> \in Seq(Cell) /\ blanks \o <<>> = blanks
      BY <2>2, <1>1, <1>6, EmptySeq, ConcatEmptySeq
    <3>2. Leading(blanks \o <<>>, {" "}) = blanks
      BY <3>1, <1>1, LeadingConcat
    <3>3. Without(blanks \o <<>>, Len(blanks)) = <<>>
      BY <3>1, <1>1, WithoutConcat
    <3>4. SkipBlanks(blanks) = Without(blanks, Len(Leading(blanks, {" "})))
      BY DEF SkipBlanks
    <3> HIDE DEF a
    <3> QED BY <2>2, <3>1, <3>2, <3>3, <3>4
  <2> QED BY <2>1, <2>2
<1>8. UpTo(SkipBlanks(a), {" "}) = s
  <2>1. CASE s # <<>>
    <3>1. blanks = <<>> \/ blanks[1] \in {" "}
      <4> SUFFICES ASSUME blanks # <<>> PROVE blanks[1] = " "
        OBVIOUS
      <4>0. Len(blanks) \in Nat \ {0}
        BY <1>1, EmptySeq
      <4>1. 1 \in 1..Len(blanks)
        BY <4>0
      <4> QED BY <4>1, <1>2
    <3>2. Ends(s, blanks, {" "})
      BY <3>1 DEF Ends, IsWord
    <3>3. UpTo(a, {" "}) = s
      BY <3>2, <1>1, UpToConcat
    <3> QED BY <2>1, <3>3, <1>7
  <2>2. CASE s = <<>>
    <3>1. /\ <<>> \in Seq(Cell) /\ Len(<<>>) = 0 /\ <<>> \o <<>> = <<>>
      BY EmptySeq, ConcatEmptySeq
    <3>2. Ends(<<>>, <<>>, {" "})
      <4>1. 1..Len(<<>>) = {}
        OBVIOUS
      <4> QED BY <4>1, Zenon DEF Ends
    <3>3. UpTo(<<>> \o <<>>, {" "}) = <<>>
      BY <3>1, <3>2, UpToConcat
    <3> QED BY <2>2, <3>1, <3>3, <1>7
  <2> QED BY <2>1, <2>2
<1> HIDE DEF a
<1>9. PICK c \in Seq(Cell) : CString(a \o b) = a \o c
  BY <1>1, <1>5, CStringConcat
<1>10. Chars(a \o c, length) = a
  BY <1>1, <1>9, CharsFirst
<1>11. ReadString(a \o b, length) = s
  BY <1>8, <1>9, <1>10 DEF ReadString
<1> QED BY <1>11 DEF a, blanks

\* What is read from the frame is what was written.
THEOREM ReadAsWrittenCorrect == ItemSpec => []ReadAsWritten
<1>1. ASSUME ItemIInv PROVE ReadAsWritten
  <2> SUFFICES ASSUME again # None, ItemType(item) # "float" PROVE again = value
    BY DEF ReadAsWritten
  <2>1. frame # <<>> /\ again = FromData(item, frame \o behind) /\ behind \in Seq(Cell)
        /\ item.length \in Nat /\ IntMax \in Nat
    <3>1. <<>> \in Seq(Cell)
      BY EmptySeq
    <3> QED BY <1>1, <3>1, CellFacts, ItemAssumption DEF ItemIInv
  <2>2. frame \in Seq(Cell) /\ Len(frame) = size(item)
    BY <1>1, <2>1, FrameOf
  <2> DEFINE p == frame \o behind
             T == ItemType(item)
  <2>3. /\ T = "char" => FromData(item, p) = [type |-> "char", c |-> p[1]]
        /\ T \in {"int", "word"} => FromData(item, p) = [type |-> T, i |-> p[1]]
        /\ T = "number" => FromData(item, p) = [type |-> "number", i |-> ReadNumber(p, item.length)]
        /\ T = "string" => FromData(item, p) = [type |-> "string", s |-> ReadString(p, item.length)]
    BY FromDataOf
  <2>4. p[1] = frame[1]
    <3>1. /\ Len(frame) \in Nat \ {0} /\ Len(behind) \in Nat
          /\ \A k \in 1..Len(frame) + Len(behind) : p[k] = IF k <= Len(frame) THEN frame[k] ELSE behind[k - Len(frame)]
      BY <2>1, <2>2, ConcatProperties, LenProperties, EmptySeq
    <3>2. 1 \in 1..Len(frame) + Len(behind) /\ 1 <= Len(frame)
      BY <3>1
    <3> HIDE DEF p
    <3> QED BY <3>1, <3>2
  <2>5. T \in {"char", "number", "string", "int", "word"}
    BY <1>1, <2>1, FrameOf
  <2>6. CASE T = "char"
    <3>1. value = [type |-> "char", c |-> frame[1]]
      BY <1>1, <2>1, <2>6, FrameOf
    <3> QED BY <3>1, <2>1, <2>3, <2>4, <2>6
  <2>7. CASE T \in {"int", "word"}
    <3>1. value = [type |-> T, i |-> frame[1]]
      BY <1>1, <2>1, <2>7, FrameOf
    <3> QED BY <3>1, <2>1, <2>3, <2>4, <2>7
  <2>8. CASE T = "number"
    <3>1. /\ item.length > 0 /\ value.i \in -IntMax - 1..IntMax
          /\ frame = Padded(value.i < 0, Shown(Abs(value.i), 1), item.length)
          /\ value = [type |-> "number", i |-> value.i]
      BY <1>1, <2>1, <2>8, FrameOf
    <3>2. Len(frame) = item.length
      BY <2>2, <2>8 DEF size
    <3>3. Chars(p, item.length) = frame
      BY <2>1, <2>2, <3>2, CharsFirst
    <3>4. <<>> \in Seq(Cell) /\ frame \o <<>> = frame
      BY <2>2, EmptySeq, ConcatEmptySeq
    <3>5. ReadInt(frame \o <<>>, -IntMax - 1, IntMax) = value.i
      <4> DEFINE n == value.i
      <4>1. n \in -IntMax - 1..IntMax /\ frame = Padded(n < 0, Shown(Abs(n), 1), item.length)
        BY <3>1
      <4> HIDE DEF n
      <4>2. ReadInt(Padded(n < 0, Shown(Abs(n), 1), item.length) \o <<>>, -IntMax - 1, IntMax) = n
        BY <4>1, <3>4, <2>1, ReadsNumber
      <4> QED BY <4>1, <4>2 DEF n
    <3>6. ReadNumber(p, item.length) = value.i
      BY <3>3, <3>4, <3>5 DEF ReadNumber
    <3> QED BY <3>1, <3>6, <2>1, <2>3, <2>8
  <2>9. CASE T = "string"
    <3>1. /\ value = [type |-> "string", s |-> value.s]
          /\ value.s \in Seq(Cell) /\ Len(value.s) <= item.length
          /\ IsWord(value.s)
          /\ frame = value.s \o [n \in 1..item.length - Len(value.s) |-> " "]
      BY <1>1, <2>1, <2>9, FrameOf
    <3>2. ReadString(p, item.length) = value.s
      BY <2>1, <3>1, ReadsString
    <3> QED BY <3>1, <3>2, <2>1, <2>3, <2>9
  <2> QED BY <2>5, <2>6, <2>7, <2>8, <2>9
<1> QED BY <1>1, ItemInvariant, PTL

\* A number that fits in the item is the number that its text names.
THEOREM NumberAsNamedCorrect == ItemSpec => []NumberAsNamed
<1>1. ASSUME ItemIInv PROVE NumberAsNamed
  <2> SUFFICES ASSUME value # None, value.type = "number", Len(text) <= item.length,
                      NEW n \in -IntMax - 1..IntMax,
                      text = Padded(n < 0, Shown(Abs(n), 1), Len(text))
               PROVE  value.i = n
    BY DEF NumberAsNamed
  <2>1. text \in Seq(Cell) /\ item.length \in Nat
    BY <1>1, CellFacts, ItemAssumption DEF ItemIInv
  <2>2. PICK tail \in Tails :
              /\ IsMade(item, text \o <<NUL>> \o tail, value)
              /\ text \o <<NUL>> \o tail = text \o (<<NUL>> \o tail) /\ <<NUL>> \o tail \in Seq(Cell)
              /\ (<<NUL>> \o tail)[1] = NUL
    BY <1>1, MadeOfText
  <2> DEFINE e == <<NUL>> \o tail
             p == text \o e
  <2>3. e \in Seq(Cell) /\ e[1] = NUL /\ IsMade(item, p, value)
    BY <2>2
  <2> HIDE DEF e
  <2>4. value.i = ReadNumber(p, item.length)
    BY <2>3 DEF IsMade
  <2> DEFINE m == item.length - Len(text)
             b == Chars(e, m)
  <2>5. m \in Nat /\ Len(text) \in Nat
    BY <2>1, LenProperties
  <2>6. Chars(p, item.length) = text \o b
    BY <2>1, <2>3, CharsConcat
  <2> HIDE DEF m
  <2>7. b \in Seq(Cell) /\ (b = <<>> \/ b[1] \notin Digits)
    <3>1. b \in Seq(Cell) /\ \A k \in 1..Len(b) : b[k] = e[k]
      BY <2>3, <2>5, CharsFacts
    <3> HIDE DEF b
    <3>2. ASSUME b # <<>> PROVE b[1] = NUL
      <4>1. Len(b) \in Nat \ {0}
        BY <3>1, <3>2, EmptySeq
      <4>2. 1 \in 1..Len(b)
        BY <4>1
      <4> QED BY <4>2, <3>1, <2>3
    <3> QED BY <3>1, <3>2, DigitFacts
  <2> HIDE DEF b
  <2>8. ReadInt(Padded(n < 0, Shown(Abs(n), 1), Len(text)) \o b, -IntMax - 1, IntMax) = n
    BY <2>5, <2>7, ReadsNumber
  <2>9. ReadInt(text \o b, -IntMax - 1, IntMax) = n
    BY <2>8
  <2> QED BY <2>4, <2>6, <2>9 DEF ReadNumber
<1> QED BY <1>1, ItemInvariant, PTL

\* One cell in front of others.
LEMMA CellInFront ==
    ASSUME NEW x \in Cell, NEW c \in Seq(Cell)
    PROVE  LET s == <<x>> \o c IN s \in Seq(Cell) /\ s # <<>> /\ s[1] = x /\ Tail(s) = c
<1> DEFINE a == <<x>>
           s == a \o c
<1>1. a \in Seq(Cell) /\ Len(a) = 1 /\ a[1] = x
  OBVIOUS
<1> HIDE DEF a
<1>2. /\ s \in Seq(Cell) /\ Len(s) = 1 + Len(c) /\ Len(c) \in Nat
      /\ \A k \in 1..1 + Len(c) : s[k] = IF k <= 1 THEN a[k] ELSE c[k - 1]
  <2>1. /\ s \in Seq(Cell) /\ Len(s) = Len(a) + Len(c) /\ Len(c) \in Nat
        /\ \A k \in 1..Len(a) + Len(c) : s[k] = IF k <= Len(a) THEN a[k] ELSE c[k - Len(a)]
    BY <1>1, ConcatProperties, LenProperties
  <2> QED BY <2>1, <1>1, Zenon
<1> HIDE DEF s
<1>3. s # <<>> /\ s[1] = x
  <2>1. Len(s) # 0 /\ 1 \in 1..1 + Len(c)
    BY <1>2
  <2> QED BY <2>1, <1>1, <1>2, EmptySeq
<1>4. Tail(s) \in Seq(Cell) /\ Len(Tail(s)) = Len(s) - 1 /\ \A k \in 1..Len(s) - 1 : Tail(s)[k] = s[k + 1]
  BY <1>2, <1>3, HeadTailProperties
<1>5. \A k \in 1..Len(Tail(s)) : Tail(s)[k] = c[k]
  <2> TAKE k \in 1..Len(Tail(s))
  <2>1. k \in 1..Len(s) - 1 /\ k + 1 \in 1..1 + Len(c) /\ ~(k + 1 <= 1) /\ (k + 1) - 1 = k
    BY <1>2, <1>4
  <2> QED BY <2>1, <1>2, <1>4
<1>6. Len(Tail(s)) = Len(c)
  BY <1>2, <1>4
<1>7. Tail(s) = c
  <2> DEFINE d == Tail(s)
  <2>1. d \in Seq(Cell) /\ Len(d) = Len(c) /\ \A k \in 1..Len(d) : d[k] = c[k]
    BY <1>4, <1>5, <1>6
  <2> HIDE DEF d
  <2>2. d = c
    BY <2>1, SeqEqual
  <2> QED BY <2>2 DEF d
<1> QED BY <1>2, <1>3, <1>7 DEF s, a

\* Digits, and a point with digits, are read when what follows is neither.
LEMMA PointRead ==
    ASSUME NEW neg \in BOOLEAN, NEW E \in Seq(Digits), E # <<>>, NEW B \in Seq(Digits),
           NEW point \in BOOLEAN, ~point => B = <<>>,
           NEW u \in Seq(Cell), u = <<>> \/ u[1] \notin Digits \cup {"."}
    PROVE  Parsed(Sign(neg) \o (E \o ((IF point THEN <<".">> \o B ELSE <<>>) \o u))) =
              [neg |-> neg, whole |-> E, part |-> B, rest |-> u]
<1> DEFINE b == (IF point THEN <<".">> \o B ELSE <<>>) \o u
           part == IF b # <<>> /\ b[1] = "." THEN Leading(Tail(b), Digits) ELSE <<>>
<1>1. Digits \subseteq Cell /\ {"-"} \cup Digits \subseteq Cell /\ "." \in Cell /\ "." \notin Digits
  <2>1. Digits \subseteq Cell /\ {"-", "."} \subseteq Cell
    BY CellFacts
  <2>2. "." \notin Digits
    BY DigitFacts
  <2> QED BY <2>1, <2>2
<1>2. B \in Seq(Cell)
  BY <1>1, SeqMonotonic
<1>3. b \in Seq(Cell) /\ (b = <<>> \/ b[1] \notin Digits) /\ part = B /\ PointRest(b) = u
  <2>1. CASE ~point
    <3>1. b = u /\ B = <<>>
      BY <2>1, ConcatEmptySeq
    <3> HIDE DEF b
    <3>2. ~(b # <<>> /\ b[1] = ".")
      BY <3>1
    <3>3. PointRest(b) = b
      BY <3>2 DEF PointRest
    <3> QED BY <3>1, <3>2, <3>3
  <2>2. CASE point
    <3> DEFINE c == B \o u
    <3>1. c \in Seq(Cell)
      BY <1>2, ConcatProperties
    <3>2. Leading(c, Digits) = B
      BY <1>2, LeadingConcat
    <3>3. <<".">> \in Seq(Cell)
      BY <1>1
    <3>4. (<<".">> \o B) \o u = <<".">> \o c
      BY <3>3, <1>2, ConcatAssociative
    <3>5. b = <<".">> \o c
      BY <2>2, <3>4
    <3> HIDE DEF b, c
    <3>6. b \in Seq(Cell) /\ b # <<>> /\ b[1] = "." /\ Tail(b) = c
      BY <3>1, <1>1, <3>5, CellInFront
    <3>7. Without(B \o u, Len(B)) = u
      BY <1>2, WithoutConcat
    <3>8. PointRest(b) = Without(Tail(b), Len(Leading(Tail(b), Digits)))
      BY <3>6 DEF PointRest
    <3>9. PointRest(b) = u
      BY <3>2, <3>6, <3>7, <3>8 DEF c
    <3> QED BY <3>2, <3>6, <3>9, <1>1
  <2> QED BY <2>1, <2>2
<1> HIDE DEF b, part
<1>4. Parsed(Sign(neg) \o (E \o b)) = [neg |-> neg, whole |-> E, part |-> part, rest |-> PointRest(b)]
  BY <1>1, <1>3, ParsedOf DEF part
<1> QED BY <1>3, <1>4 DEF b

\* Digits in front of the point and a few behind it make a decimal number.
LEMMA FloatOf ==
    ASSUME NEW s, NEW neg \in BOOLEAN, NEW E \in Seq(Digits), E # <<>>, NEW B \in Seq(Digits),
           NEW precision \in 0..Places, Len(B) = precision,
           NEW u, u = <<>> \/ u[1] \notin {"e", "E"},
           Parsed(s) = [neg |-> neg, whole |-> E, part |-> B, rest |-> u]
    PROVE  ReadFloat(s) =
              [neg |-> neg,
               mag |-> (Decimal(E) * Ten[precision] + Decimal(B)) * Ten[Places - precision]]
<1> DEFINE r == Parsed(s)
           all == E \o B
           e == Exponent(r.rest)
           shift == IF e.neg THEN 0 - Decimal(e.digits) ELSE Decimal(e.digits)
           m == Places - precision
           zeros == [n \in 1..m |-> "0"]
           kept == FirstDigits(r.whole \o r.part, Len(r.whole) + shift + Places)
<1>1. r.neg = neg /\ r.whole = E /\ r.part = B /\ r.rest = u
  OBVIOUS
<1>2. ReadFloat(s) =
         IF r.whole \o r.part = <<>> \/ e.digits = <<>> THEN [neg |-> FALSE, mag |-> 0]
         ELSE [neg |-> r.neg,
               mag |-> IF shift > MaxExp /\ Decimal(r.whole \o r.part) # 0 THEN FloatMax ELSE Decimal(kept)]
  BY Zenon DEF ReadFloat
<1> HIDE DEF r
<1>3. /\ Places \in Nat /\ precision \in Nat /\ m \in Nat /\ precision <= Places /\ m <= Places
      /\ MaxExp \in Nat /\ FloatMax \in Nat
  BY ItemAssumption
<1>4. /\ all \in Seq(Digits) /\ all # <<>> /\ Len(all) = Len(E) + precision
      /\ Len(E) \in Nat
  <2>1. all \in Seq(Digits) /\ Len(all) = Len(E) + Len(B) /\ Len(E) \in Nat \ {0} /\ Len(B) \in Nat
    BY ConcatProperties, LenProperties, EmptySeq
  <2>2. Len(all) # 0
    BY <2>1
  <2> QED BY <2>1, <2>2, EmptySeq
<1>5. e.digits # <<>> /\ shift = 0
  <2>1. e = [neg |-> FALSE, digits |-> <<"0">>]
    BY <1>1 DEF Exponent
  <2>2. <<"0">> \in Seq({"0"}) /\ <<"0">> # <<>>
    OBVIOUS
  <2> HIDE DEF e
  <2>3. Decimal(<<"0">>) = 0
    BY <2>2, DecimalZeros
  <2> QED BY <2>1, <2>2, <2>3
<1> HIDE DEF e, shift
<1>6. zeros \in Seq({"0"}) /\ Len(zeros) = m
  <2>2. m \in Int /\ ~(m < 0) /\ "0" \in {"0"}
    BY <1>3
  <2> HIDE DEF m
  <2>3. [n \in 1..m |-> "0"] \in Seq({"0"}) /\ Len([n \in 1..m |-> "0"]) = IF m < 0 THEN 0 ELSE m
    BY <2>2, Fill
  <2> QED BY <2>2, <2>3
<1>6a. \A n \in 1..m : zeros[n] = "0"
  OBVIOUS
<1> HIDE DEF zeros
<1>7. zeros \in Seq(Digits) /\ Decimal(zeros) = 0
  BY <1>6, DecimalZeros
<1>8. Powers(Ten, Places) /\ Ten[precision] \in Nat /\ Ten[m] \in Nat
  <2>1. precision \in 0..Places /\ m \in 0..Places
    BY <1>3
  <2> QED BY <2>1, TenPowers
<1>9. Decimal(E \o B) = Decimal(E) * Ten[precision] + Decimal(B)
  BY <1>3, <1>8, DecimalConcat
<1>10. Decimal(all \o zeros) = Decimal(all) * Ten[Len(zeros)] + Decimal(zeros)
  <2>1. /\ all \in Seq(Digits) /\ zeros \in Seq(Digits) /\ Places \in Nat
        /\ Len(zeros) <= Places /\ Powers(Ten, Places)
    BY <1>3, <1>4, <1>6, <1>7, <1>8
  <2> HIDE DEF all
  <2> QED BY <2>1, DecimalConcat
<1> HIDE DEF all
<1>11. kept = all \o zeros
  <2> DEFINE c == all \o zeros
             N == Len(E) + Places
  <2>1. kept = [n \in 1..N |-> IF n <= Len(all) THEN all[n] ELSE "0"]
    <3>1. Len(r.whole) + shift + Places = N
      BY <1>1, <1>3, <1>4, <1>5
    <3>2. r.whole \o r.part = all
      BY <1>1 DEF all
    <3> QED BY <3>1, <3>2 DEF FirstDigits
  <2>2. /\ c \in Seq(Digits) /\ Len(c) = N
        /\ \A n \in 1..N : c[n] = IF n <= Len(all) THEN all[n] ELSE zeros[n - Len(all)]
    <3>1. /\ c \in Seq(Digits) /\ Len(c) = Len(all) + Len(zeros)
          /\ \A n \in 1..Len(all) + Len(zeros) : c[n] = IF n <= Len(all) THEN all[n] ELSE zeros[n - Len(all)]
      BY <1>4, <1>7, ConcatProperties
    <3>2. Len(all) + Len(zeros) = N
      BY <1>3, <1>4, <1>6
    <3> QED BY <3>1, <3>2
  <2> HIDE DEF c
  <2>3. \A n \in 1..N : ~(n <= Len(all)) => zeros[n - Len(all)] = "0"
    <3> SUFFICES ASSUME NEW n \in 1..N, ~(n <= Len(all)) PROVE zeros[n - Len(all)] = "0"
      OBVIOUS
    <3>1. n - Len(all) \in 1..m
      BY <1>3, <1>4
    <3> QED BY <3>1, <1>6a
  <2>4. \A n \in 1..N : c[n] = IF n <= Len(all) THEN all[n] ELSE "0"
    BY <2>2, <2>3
  <2>5. c = [n \in 1..N |-> c[n]]
    BY <2>2
  <2> HIDE DEF N
  <2>6. kept = c
    BY <2>1, <2>4, <2>5
  <2> QED BY <2>6 DEF c
<1> HIDE DEF kept
<1>12. Decimal(kept) = Decimal(all) * Ten[m]
  <2> DEFINE D == Decimal(all)
             t == Ten[m]
  <2>1. D \in Nat /\ t \in Nat
    BY <1>4, <1>8, DecimalReads
  <2>2. Decimal(kept) = D * t + 0
    BY <1>6, <1>7, <1>10, <1>11
  <2> HIDE DEF D, t
  <2>3. D * t + 0 = D * t
    BY <2>1
  <2> QED BY <2>2, <2>3 DEF D, t
<1>13. r.whole \o r.part = all /\ ~(shift > MaxExp)
  BY <1>1, <1>3, <1>5 DEF all
<1>14. ReadFloat(s) = [neg |-> neg, mag |-> Decimal(kept)]
  BY <1>1, <1>2, <1>4, <1>5, <1>13
<1> QED BY <1>9, <1>12, <1>14, Zenon DEF m, all

\* q units of the precision are near mag.
IsNear(q, mag, precision) ==
    LET unit == Ten[Places - precision] IN
    2 * (mag - q * unit) <= unit /\ -2 * (mag - q * unit) <= unit

\* A float that was written is read, rounded.
LEMMA ReadsFloat ==
    ASSUME NEW neg \in BOOLEAN, NEW mag \in Nat, NEW precision \in 0..Places,
           NEW body \in Fixed(mag, precision), NEW length \in Nat,
           NEW b \in Seq(Cell), b = <<>> \/ b[1] \notin Digits \cup {".", "e", "E"}
    PROVE  \E q \in Nat :
              /\ IsNear(q, mag, precision)
              /\ ReadFloat(CString(Padded(neg, body, length) \o b)) =
                    [neg |-> neg, mag |-> q * Ten[Places - precision]]
<1> DEFINE s == Padded(neg, body, length)
           point == precision # 0
<1>1. PICK A, B, q : IsFixed(mag, precision, body, A, B, q)
  BY FixedFacts
<1> DEFINE C == IF point THEN <<".">> \o B ELSE <<>>
<1>2. /\ A \in Seq(Digits) /\ A # <<>> /\ B \in Seq(Digits) /\ Len(B) = precision
      /\ q \in Nat /\ Decimal(A) * Ten[precision] + Decimal(B) = q
      /\ IsNear(q, mag, precision) /\ body = A \o C
  BY <1>1 DEF IsFixed, IsNear
<1>3. /\ {"-", "0"} \subseteq Cell /\ Digits \subseteq Cell /\ "." \in Cell
      /\ point \in BOOLEAN /\ (~point => B = <<>>)
  <2>1. ~point => B = <<>>
    BY <1>2, EmptySeq
  <2> QED BY <2>1, CellFacts
<1> HIDE DEF point
<1> DEFINE Others == Digits \cup {"-", "."}
<1>4. C \in Seq(Others) /\ C \in Seq(Cell) /\ A \in Seq(Others) /\ A \in Seq(Cell)
  <2>1. Others \subseteq Cell
    BY <1>3
  <2>2. "." \in Others /\ Digits \subseteq Others
    OBVIOUS
  <2> HIDE DEF Others
  <2>3. A \in Seq(Others) /\ B \in Seq(Others) /\ <<".">> \in Seq(Others) /\ <<>> \in Seq(Others)
    BY <1>2, <2>2, SeqMonotonic
  <2>4. <<".">> \o B \in Seq(Others)
    BY <2>3, ConcatProperties
  <2>5. C \in Seq(Others)
    BY <2>3, <2>4
  <2> HIDE DEF C
  <2> QED BY <2>1, <2>3, <2>5, SeqMonotonic
<1> HIDE DEF C
<1>5. body \in Seq(Cell) /\ body \in Seq(Others)
  BY <1>2, <1>4, ConcatProperties
<1>6. Sign(neg) \in Seq(Cell) /\ \E z : IsPadded(s, neg, body, length, z, Cell)
  BY <1>3, <1>5, PaddedFacts
<1> HIDE DEF s
<1>7. PICK z : z \in Seq({"0"}) /\ z \in Seq(Cell) /\ s = Sign(neg) \o (z \o body) /\ s \in Seq(Cell)
  BY <1>6 DEF IsPadded
<1> DEFINE E == z \o A
<1>8. z \in Seq(Digits) /\ Decimal(z) = 0
  BY <1>7, DecimalZeros
<1>9. E \in Seq(Digits) /\ E \in Seq(Cell) /\ E # <<>>
  <2>1. E \in Seq(Digits) /\ E \in Seq(Cell) /\ Len(E) = Len(z) + Len(A) /\ Len(z) \in Nat /\ Len(A) \in Nat \ {0}
    BY <1>2, <1>4, <1>7, <1>8, ConcatProperties, LenProperties, EmptySeq
  <2> HIDE DEF E
  <2>2. Len(E) # 0
    BY <2>1
  <2> QED BY <2>1, <2>2, EmptySeq
<1>10. Decimal(E) = Decimal(A)
  <2>0. A \in Seq(Digits) /\ Len(A) \in Nat /\ Decimal(A) \in Nat /\ Len(A) <= Len(A)
    BY <1>2, LenProperties, DecimalReads
  <2>1. PICK P : Powers(P, Len(A))
    BY <2>0, PowersExist
  <2>2. P[Len(A)] \in Nat
    BY <2>0, <2>1 DEF Powers
  <2>3. Decimal(E) = Decimal(z) * P[Len(A)] + Decimal(A)
    BY <2>0, <2>1, <1>8, DecimalConcat
  <2> HIDE DEF E
  <2> QED BY <2>0, <2>2, <2>3, <1>8
<1>11. s = Sign(neg) \o (E \o C)
  <2>1. z \in Seq(Cell) /\ A \in Seq(Cell) /\ C \in Seq(Cell)
    BY <1>4, <1>7
  <2>2. (z \o A) \o C = z \o (A \o C)
    BY <2>1, CellsAssociative, Zenon
  <2> QED BY <2>2, <1>2, <1>7, Zenon
<1>12. \A k \in 1..Len(s) : s[k] # NUL
  <2>1. Sign(neg) \in Seq(Others)
    <3>1. "-" \in Others
      OBVIOUS
    <3> HIDE DEF Others
    <3> QED BY <3>1 DEF Sign
  <2>2. E \in Seq(Others)
    <3>1. Digits \subseteq Others
      OBVIOUS
    <3> HIDE DEF E, Others
    <3> QED BY <3>1, <1>9, SeqMonotonic
  <2>3. NUL \notin Others
    BY DigitFacts DEF NUL
  <2> HIDE DEF Others, E
  <2>4. E \o C \in Seq(Others)
    BY <2>2, <1>4, ConcatProperties
  <2>5. s \in Seq(Others)
    BY <2>1, <2>4, <1>11, ConcatProperties
  <2>6. \A k \in 1..Len(s) : s[k] \in Others
    BY <2>5, ElementOfSeq
  <2> QED BY <2>3, <2>6
<1>13. PICK u \in Seq(Cell) : CString(s \o b) = s \o u /\ (u = <<>> \/ (b # <<>> /\ u[1] = b[1]))
  BY <1>7, <1>12, CStringConcat
<1>14. s \o u = Sign(neg) \o (E \o (C \o u))
  <2> HIDE DEF E
  <2>0. /\ Sign(neg) \in Seq(Cell) /\ E \in Seq(Cell) /\ C \in Seq(Cell) /\ u \in Seq(Cell)
    BY <1>4, <1>6, <1>9
  <2> DEFINE D == E \o C
  <2>1. D \in Seq(Cell)
    BY <2>0, ConcatProperties
  <2> HIDE DEF D
  <2>2. (Sign(neg) \o D) \o u = Sign(neg) \o (D \o u)
    <3> DEFINE g == Sign(neg)
    <3>1. g \in Seq(Cell) /\ D \in Seq(Cell) /\ u \in Seq(Cell)
      BY <2>0, <2>1
    <3> HIDE DEF g
    <3>2. (g \o D) \o u = g \o (D \o u)
      BY <3>1, CellsAssociative
    <3> QED BY <3>2 DEF g
  <2>3. (E \o C) \o u = E \o (C \o u)
    BY <2>0, CellsAssociative, Zenon
  <2> QED BY <2>2, <2>3, <1>11, Zenon DEF D
<1> HIDE DEF E
<1>15. Parsed(s \o u) = [neg |-> neg, whole |-> E, part |-> B, rest |-> u]
  <2>1. u = <<>> \/ u[1] \notin Digits \cup {"."}
    BY <1>13
  <2>2. Parsed(Sign(neg) \o (E \o ((IF point THEN <<".">> \o B ELSE <<>>) \o u))) =
           [neg |-> neg, whole |-> E, part |-> B, rest |-> u]
    BY <2>1, <1>2, <1>3, <1>9, PointRead
  <2> QED BY <2>2, <1>14 DEF C
<1>16. ReadFloat(s \o u) =
          [neg |-> neg,
           mag |-> (Decimal(E) * Ten[precision] + Decimal(B)) * Ten[Places - precision]]
  <2>1. u = <<>> \/ u[1] \notin {"e", "E"}
    BY <1>13
  <2> QED BY <2>1, <1>2, <1>9, <1>15, FloatOf
<1>17. ReadFloat(CString(s \o b)) = [neg |-> neg, mag |-> q * Ten[Places - precision]]
  BY <1>2, <1>10, <1>13, <1>16, Zenon
<1> QED BY <1>2, <1>17 DEF s

\* A float that fits is read as it was written, rounded to its precision.
THEOREM FloatAsWrittenCorrect == ItemSpec => []FloatAsWritten
<1>1. ASSUME ItemIInv PROVE FloatAsWritten
  <2> SUFFICES ASSUME again # None, again.type = "float",
                      behind = <<>> \/ Head(behind) \notin Digits \cup {".", "e", "E"},
                      \A body \in Fixed(value.f.mag, item.precision) :
                         Len(Sign(value.f.neg) \o body) <= item.length
               PROVE  LET unit == Ten[Places - item.precision]
                          off == again.f.mag - value.f.mag
                      IN  /\ 2 * off <= unit /\ -2 * off <= unit
                          /\ again.f.mag # 0 => again.f.neg = value.f.neg
    BY Zenon DEF FloatAsWritten
  <2> DEFINE p == frame \o behind
             neg == value.f.neg
             mag == value.f.mag
             L == item.length
             precision == item.precision
  <2>1. /\ frame # <<>> /\ again = FromData(item, p) /\ behind \in Seq(Cell)
        /\ L \in Nat /\ precision \in 0..Places /\ Places \in Nat
        /\ behind = <<>> \/ behind[1] \notin Digits \cup {".", "e", "E"}
    <3>1. <<>> \in Seq(Cell)
      BY EmptySeq
    <3>2. behind # <<>> => Head(behind) = behind[1]
      OBVIOUS
    <3> QED BY <1>1, <3>1, <3>2, CellFacts, ItemAssumption DEF ItemIInv
  <2>2. ItemType(item) = "float"
    <3>1. ItemType(item) \in {"char", "float", "number", "string", "int", "word"}
      BY <1>1, <2>1, FrameOf
    <3>2. /\ ItemType(item) = "char" => again = [type |-> "char", c |-> p[1]]
          /\ ItemType(item) \in {"int", "word"} => again = [type |-> ItemType(item), i |-> p[1]]
          /\ ItemType(item) = "number" => again = [type |-> "number", i |-> ReadNumber(p, item.length)]
          /\ ItemType(item) = "string" => again = [type |-> "string", s |-> ReadString(p, item.length)]
      BY <2>1, FromDataOf
    <3> QED BY <3>1, <3>2
  <2>3. again = [type |-> "float", f |-> ReadFloat(CString(p))]
    BY <2>1, <2>2, FromDataOf
  <2>4. neg \in BOOLEAN /\ mag \in Nat
        /\ \E body \in Fixed(mag, precision) : frame = Chars(Padded(neg, body, L), L)
    BY <1>1, <2>1, <2>2, FrameOf
  <2>5. PICK body \in Fixed(mag, precision) : frame = Chars(Padded(neg, body, L), L)
    BY <2>4
  <2>6. Len(Sign(neg) \o body) <= L
    BY <2>5
  <2> HIDE DEF neg, mag, L, precision
  <2>7. frame = Padded(neg, body, L)
    BY <2>1, <2>4, <2>5, <2>6, FloatWritten
  <2>8. PICK q \in Nat :
           /\ IsNear(q, mag, precision)
           /\ ReadFloat(CString(Padded(neg, body, L) \o behind)) =
                 [neg |-> neg, mag |-> q * Ten[Places - precision]]
    BY <2>1, <2>4, <2>5, ReadsFloat
  <2>9. again.f = [neg |-> neg, mag |-> q * Ten[Places - precision]]
    BY <2>3, <2>7, <2>8
  <2>10. again.f.neg = neg /\ again.f.mag = q * Ten[Places - precision]
    BY <2>9
  <2> DEFINE unit == Ten[Places - precision]
             near == q * unit
  <2>11. unit \in Nat
    <3>1. Places - precision \in 0..Places
      BY <2>1
    <3> QED BY <3>1, TenPowers
  <2>12. 2 * (mag - near) <= unit /\ -2 * (mag - near) <= unit
    BY <2>8 DEF IsNear
  <2>13. near \in Nat
    <3> HIDE DEF unit
    <3> QED BY <2>11
  <2> HIDE DEF near, unit
  <2>14. 2 * (near - mag) <= unit /\ -2 * (near - mag) <= unit
    BY <2>4, <2>11, <2>12, <2>13
  <2> QED BY <2>10, <2>14 DEF near, unit, neg, mag, precision
<1> QED BY <1>1, ItemInvariant, PTL
=============================================================================
