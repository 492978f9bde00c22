----------------------------- MODULE Dictionary -----------------------------
(***************************************************************************)
(* What the server may rely on when it opens a database that make_protocal *)
(* or make_function writes, whenever that is, during a run, after one, or  *)
(* after one that failed: there is nothing it can open, or it sees one     *)
(* document as far as that has been stored.  Never parts of two, and never *)
(* a second document in place of the first without a time when there is    *)
(* none to be seen.                                                        *)
(***************************************************************************)
EXTENDS Integers, Sequences

CONSTANTS
    Histories,  \* for each document, the contents from the first to the last
    Closed      \* no content: the database cannot be opened

VARIABLE view   \* what a reader sees

Init == view = Closed

\* The tables are all there.
Open ==
    /\ view = Closed /\ view' # Closed
    /\ \E h \in Histories : view' = h[1]

\* One more definition of the document that is seen.
Add ==
    /\ view # Closed /\ view' # Closed
    /\ \E h \in Histories : \E n \in 1..Len(h) - 1 : view = h[n] /\ view' = h[n + 1]

\* The database is removed, or a table is.
Close == view # Closed /\ view' = Closed

Next == Close \/ Open \/ Add

Spec == Init /\ [][Next]_view
=============================================================================
