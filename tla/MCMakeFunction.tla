--------------------------- MODULE MCMakeFunction ---------------------------
(* MakeFunction with documents of at most two tid nodes: one or two tids,   *)
(* sections of different lengths, one that is missing (as in the shipped    *)
(* function.xml, which misspells result_items), a node without a name and a *)
(* text with a quote.                                                       *)
EXTENDS MakeFunction

MCBroken == {"q'"}

Node(name, sp, ins, outs, results) ==
    [name |-> name, sp |-> sp, complete |-> TRUE,
     items |-> [t \in TableNames \ {"tid_sp"} |->
                   CASE t = "in_item" -> ins [] t = "out_item" -> outs [] t = "result_item" -> results]]

A1 == Node("A", "p", <<"x", "y">>, <<"z", "z">>, <<"r">>)
A2 == Node("A", "s", <<>>, <<"x">>, <<"r">>)
B1 == Node("B", "p", <<"y">>, <<>>, <<"r", "x">>)
Quote == Node("B", "p", <<"x", "q'">>, <<"x">>, <<"r">>)
Misspelt == [B1 EXCEPT !.items = [t \in {"in_item", "out_item"} |-> <<"x">>]]
Nameless == [B1 EXCEPT !.complete = FALSE]

MCDocs ==
    {<<>>, <<A1>>, <<A1, B1>>, <<B1, A2>>, <<A1, A2>>, <<A2, Quote>>, <<A2, Misspelt>>,
     <<Nameless>>, <<A1, Nameless>>}
=============================================================================
