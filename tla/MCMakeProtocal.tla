--------------------------- MODULE MCMakeProtocal ---------------------------
(* MakeProtocal with documents of a few definitions per section: names        *)
(* and numbers that clash, the same number in three notations, a package     *)
(* without its tid or its field, tids of two models, an attribute or a       *)
(* section that is missing.                                                  *)
EXTENDS MakeProtocal

\* At most two of S, of which the first is one of R.
UpTo2(R, S) == {<<>>} \cup {<<x>> : x \in S} \cup (R \X S)

Hex(d) == [prefix |-> "0x", digits |-> d]
Oct(d) == [prefix |-> "0", digits |-> d]
Dec(d) == [prefix |-> "", digits |-> d]

\* 0x10, 020 and 16 are the same number, 10 is another; 018 ends at its 8; 0x99
\* and 99 are too large for MCIntMax.
MCIntMax == 63
Numbers == {Hex(<<1, 0>>), Oct(<<2, 0>>), Dec(<<1, 6>>), Dec(<<1, 0>>), Oct(<<1, 8>>),
            Hex(<<9, 9>>), Dec(<<9, 9>>)}

Type(name) ==
    [name |-> name, baseType |-> "FTDWordType", length |-> 1, precision |-> 0,
     enumValues |-> <<"a", "b">>, complete |-> TRUE]
Item(name) == [name |-> name, type |-> "T", complete |-> TRUE]

FieldDefs ==
    {[name |-> f, fid |-> f, fidValue |-> v, items |-> <<"I">>, complete |-> TRUE] :
        f \in {"F", "G"}, v \in Numbers}
TidDefs ==
    {[name |-> t, value |-> v, complete |-> TRUE] :
        t \in {"X", "Y"}, v \in {Hex(<<1>>), Dec(<<1>>), Dec(<<2>>)}}
        \cup {[name |-> "Y", value |-> Dec(<<3>>), complete |-> FALSE]}
Once(f) == [name |-> f, maxOccur |-> 1, minOccur |-> 1]
PackageDefs ==
    {[name |-> p, tid |-> t, model |-> m, fields |-> <<Once(f)>>, complete |-> TRUE] :
        p \in {"P", "Q"}, t \in {"X", "Y"}, m \in {"dialog", "query"}, f \in {"F", "G"}}

Doc(types, items, fields, tids, packages) ==
    [t \in TableNames |->
        CASE t = "type" -> types [] t = "item" -> items [] t = "field" -> fields
          [] t = "tid" -> tids [] t = "package" -> packages]

F == CHOOSE f \in FieldDefs : f.name = "F" /\ f.fidValue = Dec(<<1, 0>>)
X == CHOOSE t \in TidDefs : t.name = "X" /\ t.value = Dec(<<1>>)
P == CHOOSE p \in PackageDefs :
        p.name = "P" /\ p.tid = "X" /\ p.model = "dialog" /\ p.fields = <<Once("F")>>

MCDocs ==
    LET Whole(fs, ts, ps) == Doc(<<Type("T")>>, <<Item("I")>>, fs, ts, ps)
        Q == [P EXCEPT !.name = "Q"]
        R == [P EXCEPT !.name = "R"]
    IN  {Whole(fs, <<X>>, <<P>>) : fs \in UpTo2({f \in FieldDefs : f.name = "F"}, FieldDefs)}
        \cup {Whole(<<F>>, ts, <<P>>) : ts \in UpTo2({t \in TidDefs : t.name = "X"}, TidDefs)}
        \cup {Whole(<<F>>, <<X>>, ps) :
                 ps \in UpTo2({p \in PackageDefs : p.name = "P" /\ p.tid = "X"}, PackageDefs)
                        \cup {<<P, Q, R>>, <<Q, P>>, <<P, P, R>>}}
        \cup {Doc(<<Type("T"), Type("T")>>, is, <<F>>, <<X>>, <<>>) :
                 is \in UpTo2({Item("I")}, {Item("I"), Item("J")})}
        \cup {[t \in TableNames \ {s} |-> Whole(<<F>>, <<X>>, <<P>>)[t]] : s \in TableNames}
=============================================================================
