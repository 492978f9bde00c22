-------------------------- MODULE MCFtdcSerialize --------------------------
(* FtdcSerialize with all field lists of at most two entries, fields of     *)
(* three sizes, one of which fills a buffer, an entry that the field table  *)
(* does not define, and a capacity of five bytes.                           *)
EXTENDS FtdcSerialize

Entries ==
    [maxoccur : {1, 3}, minoccur : {0, 1}, defined : {TRUE}, fidsize : {1, 2, 4}]
        \cup {[maxoccur |-> 3, minoccur |-> 0, defined |-> FALSE, fidsize |-> 1]}

MCPackages == UNION {[1..n -> Entries] : n \in 0..2}
=============================================================================
