---------------------------- MODULE FtdcVariable ----------------------------
(***************************************************************************)
(* class ftdc_variable (ftdc_variable.hpp): for every field name the       *)
(* vector of its occurrences, each a map from item names to values.  The   *)
(* vectors count from 0, their sequences from 1.                           *)
(***************************************************************************)
EXTENDS Integers, Sequences

Empty == [x \in {} |-> {}]

IsVector(s) == s \in Seq({s[j] : j \in DOMAIN s})

\* The value of every field name is a vector.
IsVariable(val) == \A f \in DOMAIN val : IsVector(val[f])

\* f with x mapped to v, as operator[] of a std::map leaves it.
Put(f, x, v) == [y \in DOMAIN f \cup {x} |-> IF y = x THEN v ELSE f[y]]

Occurrences(val, fid) == IF fid \in DOMAIN val THEN val[fid] ELSE <<>>

field_count(val, fid) == Len(Occurrences(val, fid))

\* The vector with empty maps pushed back until it has an element idx.
Extended(fv, idx) == fv \o [j \in 1..(idx + 1) - Len(fv) |-> Empty]

set_field_item(val, fid, idx, item, v) ==
    Put(val, fid, [Extended(Occurrences(val, fid), idx) EXCEPT ![idx + 1] = Put(@, item, v)])

\* get_field_item gives a value; if not, a null pointer or, for a field that
\* never occurred, whatever the end of the map holds.
HasItem(val, fid, idx, item) ==
    idx < field_count(val, fid) /\ item \in DOMAIN val[fid][idx + 1]

get_field_item(val, fid, idx, item) == val[fid][idx + 1][item]
=============================================================================
