---------------------------- MODULE MCItemValue ----------------------------
(* ItemValue over all short texts of a few characters.                     *)
EXTENDS ItemValue

CONSTANTS MaxText, MaxLength

\* 0 and 9 for padding and overflow, 5 for rounding, and a letter, which makes an exponent.
MCTexts == UNION {[1..n -> {"0", "5", "9", "-", " ", ".", "e"}] : n \in 0..MaxText}

Described(b, lengths, precisions) == [basetype : b, length : lengths, precision : precisions]

MCItems ==
    Described({<<"FTDCharType">>, <<"FTDIntType">>, <<"FTDWordType">>, <<"FTDIntType", "4">>}, {1}, {0})
    \cup Described({<<"FTDNumberType", "n">>, <<"FTDStringType", "n">>}, 1..MaxLength, {0})
    \cup Described({<<"FTDFloatType", "n">>}, 1..MaxLength, 0..1)

\* Behind an item: nothing, a digit, an exponent, and what is no part of a number.
MCTails == {<<>>, <<"9">>, <<"e", "1">>, <<"a", "9">>}
=============================================================================
