--------------------------- MODULE FtdcSerialize ---------------------------
(***************************************************************************)
(* serialize_ftdc_content (ftdc_content.cpp): the fields of an ftdc        *)
(* variable are put, in the order of the package's field list, into as     *)
(* many ftdc buffers (ftdc_buffer.hpp) as they need.                       *)
(*                                                                         *)
(* A field is known by its place: which entry of the field list it is of,  *)
(* and its index among the occurrences of that field.  Its bytes are left  *)
(* out, the place in the buffer they are copied to is not.                 *)
(***************************************************************************)
EXTENDS Integers, Sequences

CONSTANTS
    FTDC_CONTENT_MAX_LENGTH,   \* capacity of a buffer's content
    FieldHeader,               \* bytes of a field before its items: fid, length
    Packages,                  \* field lists the protocol defines
    Counts                     \* bound: how often a field may occur

\* An entry: how often the field may occur, whether the field table defines it,
\* and the size of its items.
Pfi == [maxoccur : Nat, minoccur : Nat, defined : BOOLEAN, fidsize : Nat]

\* ftdc_field_entity_size, for a field of list entry f.
ftdc_field_entity_size(f) == FieldHeader + f.fidsize

\* A single field fits: the shipped protocol's largest has about a quarter of
\* the capacity, and fieldbuf has room for no more.
ASSUME PackagesAssumption ==
    /\ FTDC_CONTENT_MAX_LENGTH \in Nat /\ FieldHeader \in Nat \ {0}
    /\ Packages \subseteq Seq(Pfi)
    /\ \A p \in Packages : \A i \in 1..Len(p) :
          ftdc_field_entity_size(p[i]) <= FTDC_CONTENT_MAX_LENGTH
    /\ Counts \subseteq Nat

VARIABLES
    pfis,       \* the field list of the response package
    count,      \* ftdc_var.field_count of each of its entries
    missing,    \* the fields of ftdc_var that lack an item
    pc,         \* "checking" the occurrences, "adding" fields, or how it ended
    i,          \* the entry of pfis the outer loop is at
    fieldidx,   \* the occurrence the inner loop is at
    buffer,     \* the buffer being filled
    output      \* the buffers that are full

input == <<pfis, count, missing>>
vars == <<input, pc, i, fieldidx, buffer, output>>

\* A field in a buffer: where it comes from and the offset it was copied to.
Placed == [pfi : Nat, idx : Nat, at : Nat]

Buffer == [request : BOOLEAN, fields : Seq(Placed), field_count : Nat,
           content_length : Nat]

\* The states a call can be in: looping, returned, an exception, a crash.
Looping == {"checking", "adding"}
Ended == {"returned", "threw", "crashed"}

\* One type invariant for the module.
TypeOK ==
    /\ pfis \in Packages
    /\ count \in [1..Len(pfis) -> Counts]
    /\ missing \subseteq (1..Len(pfis)) \X Nat
    /\ pc \in Looping \cup Ended
    /\ i \in 1..Len(pfis) + 1
    /\ fieldidx \in Nat
    /\ buffer \in Buffer
    /\ output \in Seq(Buffer)

-----------------------------------------------------------------------------
(* class ftdc_buffer.                                                      *)

\* Zeroed by the constructor and by reset(); "request" says that the header
\* holds the seqno, seris, tid and version of the request.
EmptyBuffer == [request |-> FALSE, fields |-> <<>>, field_count |-> 0,
                content_length |-> 0]

Fits(b, size) == b.content_length + size <= FTDC_CONTENT_MAX_LENGTH

\* add_field: the field is copied behind the others, if there is room for it.
\* Both counters are unsigned short and stay far below 2^16.
add_field(b, f, j, size) ==
    IF Fits(b, size)
    THEN [b EXCEPT !.fields = Append(@, [pfi |-> f, idx |-> j, at |-> b.content_length]),
                   !.field_count = @ + 1,
                   !.content_length = @ + size]
    ELSE b

\* Mutant: the walk stops one field short.
get_fieldShort(b, index) ==
    LET FieldAt(pos) == CHOOSE e \in {b.fields[n] : n \in 1..Len(b.fields)} : e.at = pos
        walk[n \in 0..index] ==
            IF n <= 1 THEN 0
            ELSE walk[n - 1] + ftdc_field_entity_size(pfis[FieldAt(walk[n - 1]).pfi])
    IN  FieldAt(walk[index])

\* get_field: walks over index fields by their lengths.  field_count bounds it.
get_field(b, index) ==
    LET FieldAt(pos) == CHOOSE e \in {b.fields[n] : n \in 1..Len(b.fields)} : e.at = pos
        walk[n \in 0..index] ==
            IF n = 0 THEN 0
            ELSE walk[n - 1] + ftdc_field_entity_size(pfis[FieldAt(walk[n - 1]).pfi])
    IN  FieldAt(walk[index])

-----------------------------------------------------------------------------
(* serialize_ftdc_content.                                                 *)

\* The request's seqno, seris, tid and version are copied into a zeroed buffer.
StampedBuffer == [request |-> TRUE, fields |-> <<>>, field_count |-> 0,
                  content_length |-> 0]

Init ==
    /\ pfis \in Packages
    /\ count \in [1..Len(pfis) -> Counts]
    /\ missing \in SUBSET UNION {{f} \X (0..count[f] - 1) : f \in 1..Len(pfis)}
    /\ pc = "checking"
    /\ i = 1
    /\ fieldidx = 0
    /\ buffer = StampedBuffer
    /\ output = <<>>

Occurs == count[i] >= pfis[i].minoccur /\ count[i] <= pfis[i].maxoccur

\* Mutant: only the upper bound is checked.
CheckOccursMaxOnly ==
    /\ pc = "checking" /\ i <= Len(pfis)
    /\ pc' = IF count[i] <= pfis[i].maxoccur /\ pfis[i].defined THEN "adding" ELSE "threw"
    /\ UNCHANGED <<input, i, fieldidx, buffer, output>>

\* The outer loop: does the field occur as often as the protocol wants it?  Then
\* its number and size are looked up, which throws if it is not defined.
CheckOccurs ==
    /\ pc = "checking" /\ i <= Len(pfis)
    /\ pc' = IF Occurs /\ pfis[i].defined THEN "adding" ELSE "threw"
    /\ UNCHANGED <<input, i, fieldidx, buffer, output>>

\* Mutant: the inner loop counts the wrong way.
AddFieldDown ==
    /\ pc = "adding" /\ fieldidx < count[i] /\ <<i, fieldidx>> \notin missing
    /\ LET size == ftdc_field_entity_size(pfis[i]) IN
          \/ /\ Fits(buffer, size)
             /\ buffer' = add_field(buffer, i, fieldidx, size)
             /\ UNCHANGED output
          \/ /\ ~Fits(buffer, size)
             /\ output' = Append(output, buffer)
             /\ buffer' = add_field(StampedBuffer, i, fieldidx, size)
    /\ fieldidx' = fieldidx - 1
    /\ UNCHANGED <<input, pc, i>>

\* Mutant: the field that did not fit is not added to the new buffer.
AddFieldNoRetry ==
    /\ pc = "adding" /\ fieldidx < count[i] /\ <<i, fieldidx>> \notin missing
    /\ LET size == ftdc_field_entity_size(pfis[i]) IN
          \/ /\ Fits(buffer, size)
             /\ buffer' = add_field(buffer, i, fieldidx, size)
             /\ UNCHANGED output
          \/ /\ ~Fits(buffer, size)
             /\ output' = Append(output, buffer)
             /\ buffer' = StampedBuffer
    /\ fieldidx' = fieldidx + 1
    /\ UNCHANGED <<input, pc, i>>

\* Mutant: a full buffer goes to the front of the output.
AddFieldFront ==
    /\ pc = "adding" /\ fieldidx < count[i] /\ <<i, fieldidx>> \notin missing
    /\ LET size == ftdc_field_entity_size(pfis[i]) IN
          \/ /\ Fits(buffer, size)
             /\ buffer' = add_field(buffer, i, fieldidx, size)
             /\ UNCHANGED output
          \/ /\ ~Fits(buffer, size)
             /\ output' = <<buffer>> \o output
             /\ buffer' = add_field(StampedBuffer, i, fieldidx, size)
    /\ fieldidx' = fieldidx + 1
    /\ UNCHANGED <<input, pc, i>>

\* Mutant: the header is not filled in again after reset.
AddFieldNoStamp ==
    /\ pc = "adding" /\ fieldidx < count[i] /\ <<i, fieldidx>> \notin missing
    /\ LET size == ftdc_field_entity_size(pfis[i]) IN
          \/ /\ Fits(buffer, size)
             /\ buffer' = add_field(buffer, i, fieldidx, size)
             /\ UNCHANGED output
          \/ /\ ~Fits(buffer, size)
             /\ output' = Append(output, buffer)
             /\ buffer' = add_field(EmptyBuffer, i, fieldidx, size)
    /\ fieldidx' = fieldidx + 1
    /\ UNCHANGED <<input, pc, i>>

\* Mutant: the field's header is counted twice.
AddFieldEarly ==
    /\ pc = "adding" /\ fieldidx < count[i] /\ <<i, fieldidx>> \notin missing
    /\ LET size == ftdc_field_entity_size(pfis[i]) IN
          \/ /\ Fits(buffer, size + FieldHeader)
             /\ buffer' = add_field(buffer, i, fieldidx, size)
             /\ UNCHANGED output
          \/ /\ ~Fits(buffer, size + FieldHeader)
             /\ output' = Append(output, buffer)
             /\ buffer' = add_field(StampedBuffer, i, fieldidx, size)
    /\ fieldidx' = fieldidx + 1
    /\ UNCHANGED <<input, pc, i>>

\* The inner loop: the next occurrence goes into the buffer, or, when that is
\* full, the buffer to the output and the field into a new one.
AddField ==
    /\ pc = "adding" /\ fieldidx < count[i] /\ <<i, fieldidx>> \notin missing
    /\ LET size == ftdc_field_entity_size(pfis[i]) IN
          \/ /\ Fits(buffer, size)
             /\ buffer' = add_field(buffer, i, fieldidx, size)
             /\ UNCHANGED output
          \/ /\ ~Fits(buffer, size)
             /\ output' = Append(output, buffer)
             /\ buffer' = add_field(StampedBuffer, i, fieldidx, size)
    /\ fieldidx' = fieldidx + 1
    /\ UNCHANGED <<input, pc, i>>

\* get_field_item gives a null pointer for an item that was never set.
AddMissing ==
    /\ pc = "adding" /\ fieldidx < count[i] /\ <<i, fieldidx>> \in missing
    /\ pc' = "crashed"
    /\ UNCHANGED <<input, i, fieldidx, buffer, output>>

NextEntry ==
    /\ pc = "adding" /\ fieldidx = count[i]
    /\ pc' = "checking"
    /\ i' = i + 1
    /\ fieldidx' = 0
    /\ UNCHANGED <<input, buffer, output>>

\* return output.
Return ==
    /\ pc = "checking" /\ i = Len(pfis) + 1
    /\ pc' = "returned"
    /\ UNCHANGED <<input, i, fieldidx, buffer, output>>

Over == pc \in Ended /\ UNCHANGED vars

Next == CheckOccurs \/ AddField \/ AddMissing \/ NextEntry \/ Return \/ Over

Spec == Init /\ [][Next]_vars

-----------------------------------------------------------------------------
(* Properties.                                                             *)

\* The buffers in the order they were filled, the current one last.
BufferNos == 1..Len(output) + 1
BufferNo(k) == IF k <= Len(output) THEN output[k] ELSE buffer

FieldNos(k) == 1..Len(BufferNo(k).fields)
FieldNo(k, n) == BufferNo(k).fields[n]

\* <<a, b>> comes before <<c, d>>.
Before(a, b, c, d) == a < c \/ (a = c /\ b < d)

\* Splitting loses nothing: a field is in one of the buffers exactly if the
\* loops have been past it.
NothingLost ==
    \A f \in 1..Len(pfis) : \A j \in 0..count[f] - 1 :
        Before(f, j, i, fieldidx) <=>
            \E k \in BufferNos : \E n \in FieldNos(k) :
                FieldNo(k, n).pfi = f /\ FieldNo(k, n).idx = j

\* Nothing is sent twice or out of order: the fields stand in the order of the
\* field list and of their occurrences, within a buffer and across buffers.
InOrder ==
    \A k, l \in BufferNos : \A n \in FieldNos(k), m \in FieldNos(l) :
        Before(k, n, l, m) =>
            Before(FieldNo(k, n).pfi, FieldNo(k, n).idx,
                   FieldNo(l, m).pfi, FieldNo(l, m).idx)

\* The fields of b lie one behind the other from offset 0 to content_length.
WellFormed(b) ==
    LET Size(n) == ftdc_field_entity_size(pfis[b.fields[n].pfi])
        Fields == 1..Len(b.fields) IN
    /\ b.request
    /\ b.field_count = Len(b.fields)
    /\ b.content_length <= FTDC_CONTENT_MAX_LENGTH
    /\ \A n \in Fields : b.fields[n].at = IF n = 1 THEN 0 ELSE b.fields[n - 1].at + Size(n - 1)
    /\ b.content_length = IF b.fields = <<>> THEN 0
                          ELSE b.fields[Len(b.fields)].at + Size(Len(b.fields))

\* Every buffer belongs to the request and is one a receiver can take apart:
\* its fields lie one behind the other, within the capacity, and its header
\* has their number and their length.
BuffersWellFormed == \A k \in BufferNos : WellFormed(BufferNo(k))

\* get_field finds every field that add_field put there.
GetFieldFinds ==
    \A k \in BufferNos : \A n \in FieldNos(k) :
        get_field(BufferNo(k), n - 1) = FieldNo(k, n)

\* A buffer is only closed when the next field did not fit in it, and that
\* field opens the next one: no buffer of the chain is empty.
SplitOnlyWhenFull ==
    \A k \in 1..Len(output) :
        /\ Len(output[k].fields) > 0 /\ Len(BufferNo(k + 1).fields) > 0
        /\ ~Fits(output[k], ftdc_field_entity_size(pfis[FieldNo(k + 1, 1).pfi]))

\* A response is only returned if every field is defined, occurs as often as
\* the protocol says and is complete.
ReturnsOnlyConforming ==
    pc = "returned" =>
        \A f \in 1..Len(pfis) :
            /\ count[f] >= pfis[f].minoccur /\ count[f] <= pfis[f].maxoccur
            /\ pfis[f].defined
            /\ \A j \in 0..count[f] - 1 : <<f, j>> \notin missing

\* The returned buffers hold every field of the response, so a package has the
\* fields that the protocol says occur in it.
AllFieldsReturned ==
    pc = "returned" =>
        \A f \in 1..Len(pfis) : \A j \in 0..count[f] - 1 :
            \E k \in 1..Len(output) : \E n \in 1..Len(output[k].fields) :
                output[k].fields[n].pfi = f /\ output[k].fields[n].idx = j
=============================================================================
