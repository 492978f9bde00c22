-------------------------- MODULE MCRequestHandler --------------------------
(* RequestHandler with a query of one result item, whose request holds the  *)
(* response's field already, a login with two result items and an out item,  *)
(* and descriptions with gaps: an in item and a result item of an unknown    *)
(* base type, a result literal that is no path, a package field without a    *)
(* row, a tid without a function; result sets of no, one and two rows, with  *)
(* a column too few or too many for one of the functions, and with a NULL.   *)
EXTENDS RequestHandler

Rsp(items) == [name |-> "R", minoccur |-> 0, maxoccur |-> 2, defined |-> TRUE, items |-> items]
Err == [name |-> "E", minoccur |-> 0, maxoccur |-> 1, defined |-> TRUE, items |-> {"code"}]
Gone == [name |-> "G", minoccur |-> 0, maxoccur |-> 1, defined |-> FALSE, items |-> {}]

MCResponse ==
    [t \in {"query", "login", "odd", "none"} |->
        CASE t = "login" -> {Rsp({"a", "b"}), Err}
          [] t = "odd" -> {Rsp({"x"}), Gone}
          [] OTHER -> {Rsp({"a"})}]

MCFunctions ==
    [t \in {"query", "login", "odd"} |->
        CASE t = "query" -> [ins |-> <<<<"R", "[", 0, "]", ".", "b">>>>, outs |-> <<>>,
                             results |-> <<<<"R", ".", "a">>>>]
          [] t = "login" -> [ins |-> <<>>, outs |-> <<<<"E", ".", "code">>>>,
                             results |-> <<<<"R", ".", "a">>, <<"R", ".", "b">>>>]
          [] t = "odd" -> [ins |-> <<>>, outs |-> <<>>, results |-> <<<<"R", ".", "x">>, <<"R">>>>]]

MCItems == {"a", "b", "code", "x"}
MCTyped == {"a", "b", "code"}

Held(a, b) == [f \in {"R"} |-> <<[i \in {"a", "b"} |-> IF i = "a" THEN a ELSE b]>>]

MCRequests ==
    {[tid |-> "query", var |-> Held(3, 3)], [tid |-> "query", var |-> Held(3, NoValue)]}
    \cup [tid : {"login", "odd", "none"}, var : {Empty}]

Result(c, rs) == [columns |-> c, rows |-> rs]

MCTables ==
    {Result(2, <<>>), Result(1, <<<<2>>, <<1>>>>), Result(2, <<<<1, 2>>>>),
     Result(1, <<<<Null>>>>)}
=============================================================================
