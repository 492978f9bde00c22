--------------------------- MODULE MCParseContent ---------------------------
(* ParseContent with every memory of a few cells: up to three fields, mixed,*)
(* of known and unknown fids, with lengths that are right and wrong, values *)
(* in and out of the enumeration, floats and strings with and without a     *)
(* terminator, and counts of more fields than there are.  There are three   *)
(* tids: one whose response has one of the fields only, as TID_UserLogin of *)
(* the shipped protocol, one whose response has all, and an unknown one.    *)
EXTENDS ParseContent

MCItems ==
    [i \in {"flag", "user", "price", "odd"} |->
        CASE i = "flag" -> [length |-> 1, kind |-> "fixed", enumvals |-> {<<1>>}]
          [] i = "user" -> [length |-> 1, kind |-> "string", enumvals |-> {}]
          [] i = "price" -> [length |-> 1, kind |-> "float", enumvals |-> {}]
          [] i = "odd" -> [length |-> 0, kind |-> "unknown", enumvals |-> {}]]

\* The third field has an item that the protocol does not know.
MCFields ==
    [f \in 1..3 |-> CASE f = 1 -> [name |-> "Login", items |-> <<"flag", "user">>]
                      [] f = 2 -> [name |-> "Market", items |-> <<"price", "odd">>]
                      [] f = 3 -> [name |-> "Broken", items |-> <<"lost">>]]

MCPackages == [t \in {1, 2} |-> IF t = 1 THEN {"Market"} ELSE {"Login", "Market", "Broken"}]

MCRequests ==
    [tid : 1..2, field_count : 0..3, content : [1..10 -> 0..2]]
    \cup [tid : 2..3, field_count : 0..2, content : [1..5 -> -1..3]]
=============================================================================
