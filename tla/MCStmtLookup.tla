---------------------------- MODULE MCStmtLookup ----------------------------
(* StmtLookup over small tables, with every shape a lookup can meet: no    *)
(* row, one row, several rows, a type that is looked up in turn.           *)
EXTENDS StmtLookup, TLC

CONSTANTS k1, k2, k3, v1, v2

\* Keys k1 and k2 have rows, k3 has none.  Tid k2 has two packages (request and
\* response), the lists of k1 have two items, item k1 has a base type, item k2
\* the type k1 and item k3 a type that is not defined.
MCRows ==
    [st \in Stmts |->
        CASE st \in {"stmt1_", "stmt2_", "stmt3_"} ->
                (k1 :> <<<<v1>>, <<v2>>>>) @@ (k2 :> <<<<v2>>>>) @@ (k3 :> <<>>)
          [] st = "stmt_field_list_" ->
                (k1 :> <<<<v1>>>>) @@ (k2 :> <<<<v2>>, <<v1>>>>) @@ (k3 :> <<>>)
          [] st = "stmt_item_" ->
                (k1 :> <<<<v1>>>>) @@ (k2 :> <<<<k1>>>>) @@ (k3 :> <<<<v2>>>>)
          [] st = "stmt_type_" ->
                (k1 :> <<<<v1, v2, 0, v2>>>>) @@ (k2 :> <<<<v2, 0, v2, v1>>>>) @@ (k3 :> <<>>)
          [] OTHER ->
                (k1 :> <<<<v1>>>>) @@ (k2 :> <<<<v2>>>>) @@ (k3 :> <<>>)]

\* All member functions.
AllLookups == Operations

\* The threads are interchangeable.
Symmetry == Permutations(Workers)
=============================================================================
