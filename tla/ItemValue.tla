----------------------------- MODULE ItemValue -----------------------------
(***************************************************************************)
(* ftd_item_value.hpp: an item of a response is made from the text of a    *)
(* database column, and written into the frame; an item of a request is    *)
(* made from the bytes of a frame.  Here one item goes the whole way: from *)
(* text, into a frame, and out of the frame again.                         *)
(*                                                                         *)
(* Memory is a sequence of characters, and what lies behind the text or the*)
(* item is arbitrary.  The four and two bytes of an int and a word are one *)
(* cell.  A float is a decimal number: at most Places decimals, and so few *)
(* digits in all that it prints as it was read; only an exponent takes it  *)
(* out of range.  The streams of the standard library are external,        *)
(* modelled by what they do.                                               *)
(***************************************************************************)
EXTENDS Integers, Sequences, SequencesExt

CONSTANTS
    Items,      \* the items: basetype (its tokens), length, precision
    Texts,      \* what a database column may hold
    Tails,      \* what may lie behind a text or an item
    IntMax,     \* the largest int; the smallest is -IntMax - 1
    WordMax,    \* the largest unsigned short
    Places,     \* decimals of a float that are told apart
    MaxExp,     \* the largest exponent; a float with a larger one is out of range
    FloatMax    \* the largest float, in units of the last of its Places decimals

\* Memory is made of sequences; an item has a length and so many decimals.
ASSUME ItemAssumption ==
    /\ IntMax \in Nat /\ WordMax \in Nat /\ Places \in Nat /\ MaxExp \in Nat /\ FloatMax \in Nat
    /\ \A it \in Items : it.length \in Nat /\ it.precision \in 0..Places
    /\ \A s \in Texts \cup Tails : s \in Seq(Range(s))

VARIABLES
    item,       \* the item's description
    text,       \* the column
    value,      \* the ftd_item_value made from it
    frame,      \* what data() gave
    behind,     \* what follows it in the frame
    again       \* the ftd_item_value made from the frame

itemVars == <<item, text, value, frame, behind, again>>

NUL == "\\0"

None == [type |-> "none"]

-----------------------------------------------------------------------------
(* Streams.                                                                *)

DigitChars == <<"0", "1", "2", "3", "4", "5", "6", "7", "8", "9">>
DigitValue == [c \in Range(DigitChars) |-> (CHOOSE i \in 1..10 : DigitChars[i] = c) - 1]
Digits == DOMAIN DigitValue

\* The beginning of s before the first character in Stops.
UpTo(s, Stops) ==
    LET first == SelectInSeq(s, LAMBDA c : c \in Stops)
    IN  IF first = 0 THEN s ELSE SubSeq(s, 1, first - 1)

\* The longest beginning of s that is made of characters in C.
Leading(s, C) == UpTo(s, Range(s) \ C)

Without(s, n) == SubSeq(s, n + 1, Len(s))

SkipBlanks(s) == Without(s, Len(Leading(s, {" "})))

\* strlen(p), and the C string at p.
CString(p) == UpTo(p, {NUL})

\* std::string(p, n)
Chars(p, n) == SubSeq(p, 1, IF n < Len(p) THEN n ELSE Len(p))

\* Mutant: the base is taken from the text, so that a leading zero is octal.
DecimalOctal(digits) ==
    LET base == IF Len(digits) > 1 /\ digits[1] = "0" THEN 8 ELSE 10
        read[n \in 0..Len(digits)] ==
            IF n = 0 THEN 0 ELSE base * read[n - 1] + DigitValue[digits[n]]
    IN  read[Len(digits)]

\* The number that the digits name, read one after the other.
Decimal(digits) ==
    LET read[n \in 0..Len(digits)] ==
            IF n = 0 THEN 0 ELSE 10 * read[n - 1] + DigitValue[digits[n]]
    IN  read[Len(digits)]

Signed(s) == s # <<>> /\ s[1] \in {"-", "+"}

\* iss >> number, as its sign, its digits before and behind the point, and what
\* follows them.
Parsed(s) ==
    LET t == SkipBlanks(s)
        body == IF Signed(t) THEN Tail(t) ELSE t
        whole == Leading(body, Digits)
        rest == Without(body, Len(whole))
        part == IF rest # <<>> /\ rest[1] = "." THEN Leading(Tail(rest), Digits) ELSE <<>>
    IN  [neg |-> Signed(t) /\ t[1] = "-",
         whole |-> whole,
         part |-> part,
         rest |-> IF rest # <<>> /\ rest[1] = "." THEN Without(Tail(rest), Len(part)) ELSE rest]

\* The sign and the digits of the exponent that follows the digits of a float.
Exponent(rest) ==
    IF rest # <<>> /\ rest[1] \in {"e", "E"}
    THEN LET t == Tail(rest)
         IN  [neg |-> Signed(t) /\ t[1] = "-",
              digits |-> Leading(IF Signed(t) THEN Tail(t) ELSE t, Digits)]
    ELSE [neg |-> FALSE, digits |-> <<"0">>]

\* Out of range gives the nearest value, no digits give 0.
Clamp(n, lo, hi) == IF n < lo THEN lo ELSE IF n > hi THEN hi ELSE n

ReadInt(s, lo, hi) ==
    LET r == Parsed(s)
        n == Decimal(r.whole)
    IN  Clamp(IF r.neg THEN 0 - n ELSE n, lo, hi)

\* The first n digits, with zeros behind them.
FirstDigits(digits, n) == [m \in 1..n |-> IF m <= Len(digits) THEN digits[m] ELSE "0"]

\* The exponent moves the point; one that has no digits spoils the whole number.
ReadFloat(s) ==
    LET r == Parsed(s)
        digits == r.whole \o r.part
        e == Exponent(r.rest)
        shift == IF e.neg THEN 0 - Decimal(e.digits) ELSE Decimal(e.digits)
    IN  IF digits = <<>> \/ e.digits = <<>>
        THEN [neg |-> FALSE, mag |-> 0]
        ELSE [neg |-> r.neg,
              mag |-> IF shift > MaxExp /\ Decimal(digits) # 0 THEN FloatMax
                      ELSE Decimal(FirstDigits(digits, Len(r.whole) + shift + Places))]

\* The decimal text of n, of at least w digits.
Shown(n, w) ==
    LET rest[k \in 0..n + w] == IF k = 0 THEN n ELSE rest[k - 1] \div 10
        width == CHOOSE k \in w..n + w : rest[k] = 0 /\ \A m \in w..k - 1 : rest[m] # 0
    IN  [k \in 1..width |-> DigitChars[(rest[width - k] % 10) + 1]]

Sign(neg) == IF neg THEN <<"-">> ELSE <<>>

\* std::internal, setfill('0'), setw(w): zeros between the sign and the rest.
Padded(neg, body, w) ==
    Sign(neg) \o [i \in 1..w - Len(Sign(neg) \o body) |-> "0"] \o body

Ten[k \in 0..Places] == IF k = 0 THEN 1 ELSE 10 * Ten[k - 1]

\* Mutant: digits behind the precision are dropped.
FixedCut(mag, precision) ==
    LET q == mag \div Ten[Places - precision]
        point == IF precision = 0 THEN <<>> ELSE <<".">>
    IN  {Shown(q \div Ten[precision], 1) \o point
            \o (IF precision = 0 THEN <<>> ELSE Shown(q % Ten[precision], precision))}

\* std::fixed and setprecision: rounded, and either way where it is half way.
Fixed(mag, precision) ==
    LET unit == Ten[Places - precision]
        near == {q \in {mag \div unit, mag \div unit + 1} :
                    LET off == mag - q * unit IN 2 * off <= unit /\ -2 * off <= unit}
        point == IF precision = 0 THEN <<>> ELSE <<".">>
    IN  {Shown(q \div Ten[precision], 1) \o point
            \o (IF precision = 0 THEN <<>> ELSE Shown(q % Ten[precision], precision)) : q \in near}

-----------------------------------------------------------------------------
(* The classes.                                                            *)

Abs(n) == IF n < 0 THEN 0 - n ELSE n

\* A base type with a size is a template; the others are compared whole.
get_ftd_item_type(basetype) ==
    LET has(name) == \E i \in 1..Len(basetype) : basetype[i] = name IN
    CASE basetype = <<"FTDCharType">> -> "char"
      [] has("FTDFloatType") -> "float"
      [] basetype = <<"FTDIntType">> -> "int"
      [] has("FTDNumberType") -> "number"
      [] has("FTDStringType") -> "string"
      [] basetype = <<"FTDWordType">> -> "word"
      [] OTHER -> "unknown"

ItemType(it) == get_ftd_item_type(it.basetype)

\* Mutant: the C string is read, not length characters.
ReadNumberToNul(p, length) == ReadInt(CString(p), -IntMax - 1, IntMax)

\* ftd_item_number_value: length characters, whatever they are.
ReadNumber(p, length) == ReadInt(Chars(p, length), -IntMax - 1, IntMax)

\* ftd_item_string_value: the first word of at most length characters.
ReadString(p, length) ==
    UpTo(SkipBlanks(Chars(CString(p), length)), {" "})

\* The types whose constructor is the same for a text and for a frame.
FromChars(it, p) ==
    CASE ItemType(it) = "char" -> [type |-> "char", c |-> p[1]]
      [] ItemType(it) = "float" -> [type |-> "float", f |-> ReadFloat(CString(p))]
      [] ItemType(it) = "number" -> [type |-> "number", i |-> ReadNumber(p, it.length)]
      [] ItemType(it) = "string" -> [type |-> "string", s |-> ReadString(p, it.length)]
      [] OTHER -> None

\* create_ftd_item_value_from_str
FromStr(it, p) ==
    CASE ItemType(it) = "int" -> [type |-> "int", i |-> ReadInt(CString(p), -IntMax - 1, IntMax)]
      [] ItemType(it) = "word" -> [type |-> "word", i |-> ReadInt(CString(p), 0, WordMax)]
      [] OTHER -> FromChars(it, p)

\* create_ftd_item_value_from_data
FromData(it, p) ==
    IF ItemType(it) \in {"int", "word"} THEN [type |-> ItemType(it), i |-> p[1]] ELSE FromChars(it, p)

\* Mutant: the string is not padded.
DataUnpadded(it, v) ==
    CASE v.type = "char" -> {<<v.c>>}
      [] v.type \in {"int", "word"} -> {<<v.i>>}
      [] v.type = "number" -> {Chars(Padded(v.i < 0, Shown(Abs(v.i), 1), it.length), it.length)}
      [] v.type = "float" -> {Chars(Padded(v.f.neg, body, it.length), it.length) :
                                body \in Fixed(v.f.mag, it.precision)}
      [] v.type = "string" -> {Chars(v.s, it.length)}

\* data(), one of the possible results.
Data(it, v) ==
    CASE v.type = "char" -> {<<v.c>>}
      [] v.type \in {"int", "word"} -> {<<v.i>>}
      [] v.type = "number" -> {Chars(Padded(v.i < 0, Shown(Abs(v.i), 1), it.length), it.length)}
      [] v.type = "float" -> {Chars(Padded(v.f.neg, body, it.length), it.length) :
                                body \in Fixed(v.f.mag, it.precision)}
      [] v.type = "string" -> {v.s \o [n \in 1..it.length - Len(v.s) |-> " "]}

\* size() in cells.
size(it) == IF ItemType(it) \in {"char", "int", "word"} THEN 1 ELSE it.length

-----------------------------------------------------------------------------

\* A database has no negative words.
ItemInit ==
    /\ item \in Items /\ text \in Texts
    /\ (ItemType(item) = "word" => ~Parsed(text).neg)
    /\ value = None /\ frame = <<>> /\ behind = <<>> /\ again = None

\* dbconnpool: the column becomes an item.
Make ==
    /\ value = None
    /\ \E tail \in Tails : value' = FromStr(item, text \o <<NUL>> \o tail)
    /\ value' # None
    /\ UNCHANGED <<item, text, frame, behind, again>>

\* serialize_ftdc_content: the item becomes part of a frame.
Write ==
    /\ value # None /\ frame = <<>>
    /\ frame' \in Data(item, value)
    /\ UNCHANGED <<item, text, value, behind, again>>

\* parse_ftdc_content: an item of a frame is read.
Read ==
    /\ frame # <<>> /\ again = None
    /\ behind' \in Tails
    /\ again' = FromData(item, frame \o behind')
    /\ UNCHANGED <<item, text, value, frame>>

\* It was read, or its type is unknown and the factory gave a null pointer.
ItemOver == (again # None \/ ItemType(item) = "unknown") /\ UNCHANGED itemVars

ItemNext == Make \/ Write \/ Read \/ ItemOver

ItemSpec == ItemInit /\ [][ItemNext]_itemVars

-----------------------------------------------------------------------------
(* Properties.                                                             *)

\* An item fills its place in the frame exactly, however long its text was, so
\* that the items after it are where the reader expects them.
FillsItsPlace == frame # <<>> => Len(frame) = size(item)

\* What is read from the frame is what was written, whatever lies behind the
\* item: numbers keep sign and value although they are padded and cut, and a
\* string does not grow.  (A float is rounded, see below.)
ReadAsWritten == again # None /\ ItemType(item) # "float" => again = value

\* A number that fits in the item is the number that its text names, with or
\* without sign and zeros, whatever lies behind the text.
NumberAsNamed ==
    value # None /\ value.type = "number" /\ Len(text) <= item.length =>
        \A n \in -IntMax - 1..IntMax :
            text = Padded(n < 0, Shown(Abs(n), 1), Len(text)) => value.i = n

\* A float that fits in the item, sign, point and all, is read from the frame as
\* it was written, rounded to the item's precision.  This needs that the item
\* behind it does not begin like the rest of a number, its exponent included: the
\* constructor is given the length and does not use it.
FloatAsWritten ==
    /\ again # None /\ again.type = "float"
    /\ behind = <<>> \/ Head(behind) \notin Digits \cup {".", "e", "E"}
    /\ \A body \in Fixed(value.f.mag, item.precision) :
          Len(Sign(value.f.neg) \o body) <= item.length
    => LET unit == Ten[Places - item.precision]
           off == again.f.mag - value.f.mag
       IN  /\ 2 * off <= unit /\ -2 * off <= unit
           /\ again.f.mag # 0 => again.f.neg = value.f.neg
=============================================================================
