---------------------------- MODULE ParseContent ----------------------------
(***************************************************************************)
(* parse_ftdc_content (ftdc_content.cpp): the fields of a request's buffer *)
(* become the occurrences of an ftdc_variable.  The buffer is memory that  *)
(* the peer filled as it liked, its field_count and field_lengths too.     *)
(* What ftd_protocalif looks up is constant here; StmtLookup has the       *)
(* lookups themselves.                                                     *)
(*                                                                         *)
(* Memory is a sequence of cells; a fid and a field_length are one cell.   *)
(* A value is the bytes it was made of; ItemValue has the conversion.  A   *)
(* read outside of the buffer is undefined: "strayed" ends the model.      *)
(***************************************************************************)
EXTENDS FtdcVariable, FiniteSets, SequencesExt

CONSTANTS
    Packages,   \* by tid: the names of the fields of its response
    Fields,     \* by fid: the field's name and the list of its items
    Items,      \* by item that the protocol knows: its length, the kind of its base
                \* type ("fixed", "string", "float" or "unknown") and its enumeration
    Requests    \* the buffers that arrive: tid, field_count, and the memory behind

ASSUME ProtocolAssumption ==
    /\ \A i \in DOMAIN Items : Items[i].length \in Nat
    /\ \A f \in DOMAIN Fields : IsVector(Fields[f].items)
    /\ \A f, g \in DOMAIN Fields : Fields[f].name = Fields[g].name => f = g
    /\ \A f \in DOMAIN Fields : \A m, n \in 1..Len(Fields[f].items) :
          Fields[f].items[m] = Fields[f].items[n] => m = n
    /\ \A r \in Requests : r.field_count \in Nat /\ r.content \in Seq(Int)

VARIABLES
    request,    \* the buffer
    pc,         \* "start", "fields", "returned", "threw" or "strayed"
    index,      \* the field the loop is at
    fid_index,  \* how often a fid was seen
    ftdc_var    \* what is returned

vars == <<request, pc, index, fid_index, ftdc_var>>

Init ==
    /\ request \in Requests
    /\ pc = "start"
    /\ index = 0
    /\ fid_index = Empty
    /\ ftdc_var = Empty

\* get_tidname and get_rsp_package_field_list, which throw for what they do not
\* find.
Begin ==
    /\ pc = "start"
    /\ pc' = IF request.tid \in DOMAIN Packages THEN "fields" ELSE "threw"
    /\ UNCHANGED <<request, index, fid_index, ftdc_var>>

-----------------------------------------------------------------------------
(* Memory.                                                                 *)

NUL == 0

\* The cells of an ftdc_field_st in front of its dataitem.
FieldHeader == 2

\* The header of a field that begins behind p cells is inside the buffer.
Held(p) == 0 <= p /\ p + FieldHeader <= Len(request.content)

Fid(p) == request.content[p + 1]
field_length(p) == request.content[p + 2]

\* get_field: how many cells are in front of field n, by the lengths of the fields
\* before it; nothing compares them with the buffer.  Outside of it the walk is
\* lost, and where to does not matter.
get_field(n) ==
    LET walk[k \in 0..n] ==
            IF k = 0 THEN 0
            ELSE IF Held(walk[k - 1]) THEN walk[k - 1] + FieldHeader + field_length(walk[k - 1])
            ELSE walk[k - 1]
    IN  walk[n]

\* item_pos, which stays at the first byte of the field: all that lies behind it.
Behind(p) == SubSeq(request.content, p + FieldHeader + 1, Len(request.content))

\* string(d, n)
Chars(d, n) == SubSeq(d, 1, IF n < Len(d) THEN n ELSE Len(d))

\* The C string at d.
CString(d) ==
    LET end == SelectInSeq(d, LAMBDA c : c = NUL)
    IN  IF end = 0 THEN d ELSE SubSeq(d, 1, end - 1)

\* create_ftd_item_value_from_data, as the bytes a value is made of.  A string has
\* at most its length, a float has no end but the terminator, and a base type that
\* is unknown gives a null pointer.
ValueOf(info, d) ==
    CASE info.kind = "fixed" -> [made |-> TRUE, bytes |-> Chars(d, info.length)]
      [] info.kind = "string" -> [made |-> TRUE, bytes |-> CString(Chars(d, info.length))]
      [] info.kind = "float" -> [made |-> TRUE, bytes |-> CString(d)]
      [] OTHER -> [made |-> FALSE, bytes |-> <<>>]

\* What is read of d lies in it: strlen and istringstream look for a terminator,
\* and an enumeration is compared with string(d, length).
Readable(info, d) ==
    /\ info.kind \in {"string", "float"} => \E n \in 1..Len(d) : d[n] = NUL
    /\ info.kind = "fixed" \/ info.enumvals # {} => info.length <= Len(d)

InEnumeration(info, d) == info.enumvals # {} => Chars(d, info.length) \in info.enumvals

-----------------------------------------------------------------------------
(* The loop.                                                               *)

\* The bytes of the first n items of field f.
SizeOfFirst(f, n) ==
    LET size[k \in 0..n] == IF k = 0 THEN 0 ELSE size[k - 1] + Items[Fields[f].items[k]].length
    IN  size[n]

get_field_size(f) == SizeOfFirst(f, Len(Fields[f].items))

\* The items of the field behind p cells, and what get_itemtypeinfo says of one.
ItemList(p) == Fields[Fid(p)].items
Info(p, n) == Items[ItemList(p)[n]]

\* Mutant: the length of a field is not compared.
AcceptedAnyLength(p) ==
    /\ Fid(p) \in DOMAIN Fields
    /\ Fields[Fid(p)].name \in Packages[request.tid]
    /\ \A n \in 1..Len(ItemList(p)) : ItemList(p)[n] \in DOMAIN Items

\* No exception before the items: the fid is known, the field is one of the
\* response's (the list that is looked up, though this is a request), its items
\* are known, and it has their length.
Accepted(p) ==
    /\ Fid(p) \in DOMAIN Fields
    /\ Fields[Fid(p)].name \in Packages[request.tid]
    /\ \A n \in 1..Len(ItemList(p)) : ItemList(p)[n] \in DOMAIN Items
    /\ field_length(p) = get_field_size(Fid(p))

\* Mutant: the index of the field in the buffer is taken for its occurrence.
SeenInBuffer(fid) == index

\* The occurrence that the next field of this fid is.
Seen(fid) == IF fid \in DOMAIN fid_index THEN fid_index[fid] ELSE 0

\* One turn of the loop: the field becomes the next occurrence of its fid.
ParseField(p) ==
    /\ Held(p) /\ Accepted(p)
    /\ \A n \in 1..Len(ItemList(p)) :
          Readable(Info(p, n), Behind(p)) /\ InEnumeration(Info(p, n), Behind(p))
    /\ LET set[n \in 0..Len(ItemList(p))] ==
               IF n = 0 THEN ftdc_var
               ELSE set_field_item(set[n - 1], Fields[Fid(p)].name, Seen(Fid(p)), ItemList(p)[n],
                                   ValueOf(Info(p, n), Behind(p)))
       IN  ftdc_var' = set[Len(ItemList(p))]
    /\ fid_index' = Put(fid_index, Fid(p), Seen(Fid(p)) + 1)
    /\ index' = index + 1
    /\ UNCHANGED <<request, pc>>

\* An exception, at the header or at an enumeration: the variable is local and is
\* lost.
RefuseField(p) ==
    /\ Held(p)
    /\ Accepted(p) => \E n \in 1..Len(ItemList(p)) :
          /\ \A m \in 1..n : Readable(Info(p, m), Behind(p))
          /\ ~InEnumeration(Info(p, n), Behind(p))
    /\ pc' = "threw"
    /\ UNCHANGED <<request, index, fid_index, ftdc_var>>

\* Undefined: field_count promises more than the buffer holds, or the first item
\* that does not throw reads past its end.
Stray(p) ==
    /\ Held(p) => /\ Accepted(p)
                  /\ \E n \in 1..Len(ItemList(p)) :
                        /\ ~Readable(Info(p, n), Behind(p))
                        /\ \A m \in 1..n - 1 : InEnumeration(Info(p, m), Behind(p))
    /\ pc' = "strayed"
    /\ UNCHANGED <<request, index, fid_index, ftdc_var>>

AtField ==
    /\ pc = "fields" /\ index < request.field_count
    /\ LET p == get_field(index) IN ParseField(p) \/ RefuseField(p) \/ Stray(p)

Return ==
    /\ pc = "fields" /\ index = request.field_count
    /\ pc' = "returned"
    /\ UNCHANGED <<request, index, fid_index, ftdc_var>>

Over == pc \in {"returned", "threw", "strayed"} /\ UNCHANGED vars

Next == Begin \/ AtField \/ Return \/ Over

Spec == Init /\ [][Next]_vars

-----------------------------------------------------------------------------
(* Properties.                                                             *)

\* The places of the fields of fid f among the first n.
Places(f, n) == {k \in 1..n : Fid(get_field(k - 1)) = f}

\* k is the place of the j-th of them, counting from 0.
IsPlace(f, n, j, k) ==
    k \in Places(f, n) /\ Cardinality({m \in Places(f, n) : m < k}) = j

\* However the fields of a request are mixed, the j-th occurrence of a field in
\* the variable is made of the j-th field of that fid in the buffer: all of its
\* items are there and the first is right, and there are no other occurrences.
OccurrencesKept ==
    pc = "returned" =>
        \A f \in DOMAIN Fields :
            LET name == Fields[f].name
                list == Fields[f].items
                n == request.field_count IN
            list # <<>> =>
            /\ \A k \in Places(f, n) : \E j \in 0..field_count(ftdc_var, name) - 1 :
                  IsPlace(f, n, j, k)
            /\ \A j \in 0..field_count(ftdc_var, name) - 1 : \E k \in Places(f, n) :
                  /\ IsPlace(f, n, j, k)
                  /\ \A m \in 1..Len(list) : HasItem(ftdc_var, name, j, list[m])
                  /\ get_field_item(ftdc_var, name, j, list[1])
                        = ValueOf(Items[list[1]], Behind(get_field(k - 1)))

\* The data of the field behind p cells, as far as its field_length says.
FieldData(p) == Chars(Behind(p), field_length(p))

\* v is what an item may be after the field behind p cells was read for it.
SoundValue(v, item, name, p) ==
    LET info == Items[item] IN
    /\ Fields[Fid(p)].name = name
    /\ info.kind # "float" => v = ValueOf(info, FieldData(p))
    /\ info.kind = "float" => v = ValueOf(info, Behind(p))
    /\ info.kind = "fixed" => Len(v.bytes) = info.length
    /\ info.enumvals # {} => Chars(FieldData(p), info.length) \in info.enumvals

\* Whatever was sent, its counts and lengths too, what dbconnpool::invoke takes out
\* of the variable comes from a field of its name.  No byte behind that field has a
\* part in it, except in a float, which has no end but a terminator; char, int,
\* number and word have all of their bytes; and what an enumeration describes is in
\* the enumeration.
ValuesSound ==
    \A name \in DOMAIN ftdc_var : \A j \in 1..Len(ftdc_var[name]) :
        \A item \in DOMAIN ftdc_var[name][j] : \E k \in 0..index - 1 :
            SoundValue(ftdc_var[name][j][item], item, name, get_field(k))
=============================================================================
