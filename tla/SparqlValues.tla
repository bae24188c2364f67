---------------------------- MODULE SparqlValues ----------------------------
(***************************************************************************)
(* The value layer of the query engine (graphy-engine/src/value.rs): what  *)
(* a term's concise bytes decode to, effective boolean values, the two     *)
(* comparisons (the `<` family and RDFterm-equal), the order of ORDER BY,  *)
(* exact decimal arithmetic and xsd casts.                                 *)
(*                                                                         *)
(* A term is a 4-tuple <<kind, n, tag, m>>.  Its lexical form is abstract: *)
(* two spellings of one value are two terms ("int0" is 01, "alt" is the    *)
(* boolean spelled 1), so term identity and value equality differ exactly  *)
(* where they do in the code.  A value is the canonical term it re-encodes *)
(* to.  Doubles are kept only as far as comparison sees them ("dbl" over   *)
(* the integers and "nan"); a dateTime is a local hour n with a timezone.  *)
(***************************************************************************)
EXTENDS Integers, Sequences, FiniteSets

CONSTANTS IntMax,     \* i64::MAX, scaled down (i64::MIN is -IntMax - 1)
          DecMax,     \* i128::MAX, scaled down
          DivScale    \* DIV_SCALE, the fraction digits a division keeps

\* A type error: None of the value functions, Err(()) of the expressions.
Err == <<"err", 0, "-", 0>>
Iri(n) == <<"iri", n, "-", 0>>
Blank(n) == <<"blank", n, "-", 0>>
Str(n) == <<"str", n, "-", 0>>
Lang(n, tag) == <<"str", n, tag, 0>>
IntV(i) == <<"num", i, "int", 0>>
IntSub(i) == <<"num", i, "sub", 0>>
Dec(u, s) == <<"num", u, "dec", s>>
Bool(b) == <<"bool", IF b THEN 1 ELSE 0, "-", 0>>
True == Bool(TRUE)
Typed(n, dt) == <<"typed", n, dt, 0>>
DateTime(hour, tz) == <<"dt", hour, tz, 0>>
Triple(s, p, o) == <<"tri", s, p, o>>

IsNum(v) == v[1] = "num"
IsExact(v) == IsNum(v) /\ v[3] \in {"int", "sub", "dec"}

is_literal(v) == v[1] \in {"str", "num", "bool", "dt", "typed"}

\* decode_value: every spelling of a value becomes the one value, an
\* out-of-range subtype lexical ("badsub") an uninterpreted typed literal.
decode_value(t) ==
    CASE t[1] = "num" /\ t[3] = "int0" -> IntV(t[2])
      [] t[1] = "num" /\ t[3] = "badsub" -> Typed(t[2], "sub")
      [] t[1] = "bool" /\ t[3] = "alt" -> Bool(t[2] = 1)
      [] OTHER -> t

-----------------------------------------------------------------------------
(* Exact decimals: an unscaled integer and a count of fraction digits.     *)

MinOf(S) == CHOOSE x \in S : \A y \in S : x <= y
MaxOf(S) == CHOOSE x \in S : \A y \in S : x >= y
Abs(x) == IF x < 0 THEN -x ELSE x
Sign(x) == IF x < 0 THEN -1 ELSE IF x > 0 THEN 1 ELSE 0

\* Rust's integer division truncates toward zero, its remainder follows.
Quot(a, b) == Sign(a) * Sign(b) * (Abs(a) \div Abs(b))
Rem(a, b) == a - b * Quot(a, b)

DecFits(u) == Abs(u) <= DecMax

\* Strip trailing fraction zeros.
normal(u, s) ==
    LET k == MaxOf({i \in 0..s : u % (10^i) = 0}) IN Dec(Quot(u, 10^k), s - k)

as_dec(v) == IF v[3] = "dec" THEN v ELSE Dec(v[2], 0)

\* Both unscaled values at the larger scale (None when one overflows).
Aligned(a, b) ==
    LET s == MaxOf({a[4], b[4]})
        x == a[2] * 10^(s - a[4])
        y == b[2] * 10^(s - b[4])
    IN [ok |-> DecFits(x) /\ DecFits(y), x |-> x, y |-> y, s |-> s]

DecResult(u, s) == IF DecFits(u) THEN normal(u, s) ELSE Err

DecArith(op, a, b) ==
    LET al == Aligned(a, b)
        scale == MaxOf({DivScale, a[4]})
        num == a[2] * 10^(scale + b[4] - a[4])
    IN CASE op = "add" -> IF al.ok THEN DecResult(al.x + al.y, al.s) ELSE Err
         [] op = "sub" -> IF al.ok THEN DecResult(al.x - al.y, al.s) ELSE Err
         [] op = "mul" -> DecResult(a[2] * b[2], a[4] + b[4])
         [] op = "div" -> IF b[2] = 0 \/ ~DecFits(num) THEN Err
                          ELSE normal(Quot(num, b[2]), scale)

\* The rounding builtins over decimals: ceil, floor and half-up round.
DecExact(d) == d[2] % (10^d[4]) = 0
Trunc(d) == Quot(d[2], 10^d[4])
ceil(d) == Dec(IF ~DecExact(d) /\ d[2] > 0 THEN Trunc(d) + 1 ELSE Trunc(d), 0)
floor(d) == Dec(IF ~DecExact(d) /\ d[2] < 0 THEN Trunc(d) - 1 ELSE Trunc(d), 0)
round(d) ==
    LET p == 10^d[4]
        rem == Abs(Rem(d[2], p))
        away == rem > p \div 2 \/ (rem = p \div 2 /\ d[2] > 0)
    IN Dec(IF away THEN Trunc(d) + Sign(d[2]) ELSE Trunc(d), 0)

\* Arithmetic with XSD promotion over the exact kinds.
arith(op, a, b) ==
    IF ~IsExact(a) \/ ~IsExact(b) THEN Err
    ELSE IF op # "div" /\ a[3] # "dec" /\ b[3] # "dec"
         THEN LET r == CASE op = "add" -> a[2] + b[2]
                         [] op = "sub" -> a[2] - b[2]
                         [] op = "mul" -> a[2] * b[2]
              IN IF r \in -(IntMax + 1)..IntMax THEN IntV(r) ELSE Err
         ELSE DecArith(op, as_dec(a), as_dec(b))

-----------------------------------------------------------------------------
(* Comparison: "lt", "eq", "gt", or "none" for a type error.               *)

Compare(x, y) == IF x < y THEN "lt" ELSE IF x > y THEN "gt" ELSE "eq"
Reversed(o) == CASE o = "lt" -> "gt" [] o = "gt" -> "lt" [] OTHER -> o

DecCompare(a, b) == LET al == Aligned(a, b) IN Compare(al.x, al.y)

\* Timezones: none, Z and two offsets in hours east.  A missing timezone
\* spans the XML Schema interval of 14 hours either way.
TzOffset == [none |-> 0, Z |-> 0, E12 |-> 12, W12 |-> -12]
temporal_cmp(a, b) ==
    LET x == a[2] - TzOffset[a[3]]
        y == b[2] - TzOffset[b[3]]
    IN CASE (a[3] = "none") = (b[3] = "none") -> Compare(x, y)
         [] b[3] = "none" -> IF x < y - 14 THEN "lt"
                             ELSE IF x > y + 14 THEN "gt" ELSE "none"
         [] OTHER -> IF x + 14 < y THEN "lt"
                     ELSE IF x - 14 > y THEN "gt" ELSE "none"

cmp_values(a, b) ==
    CASE IsExact(a) /\ IsExact(b) -> DecCompare(as_dec(a), as_dec(b))
      [] IsNum(a) /\ IsNum(b) -> IF "nan" \in {a[3], b[3]} THEN "none"
                                 ELSE DecCompare(Dec(a[2], a[4]), Dec(b[2], b[4]))
      [] a[1] = "str" /\ b[1] = "str" /\ a[3] = b[3] -> Compare(a[2], b[2])
      [] a[1] = "bool" /\ b[1] = "bool" -> Compare(a[2], b[2])
      [] a[1] = "dt" /\ b[1] = "dt" -> temporal_cmp(a, b)
      [] OTHER -> "none"

\* RDFterm-equal: "yes", "no", or "none" for a type error.
YesNo(b) == IF b THEN "yes" ELSE "no"
RECURSIVE eq_values(_, _)
eq_values(a, b) ==
    CASE a[1] = b[1] /\ a[1] \in {"num", "bool", "dt"} ->
            LET o == cmp_values(a, b) IN IF o = "none" THEN "none" ELSE YesNo(o = "eq")
      [] a[1] = "str" /\ b[1] = "str" -> YesNo(a = b)
      [] a[1] = b[1] /\ a[1] \in {"iri", "blank"} -> YesNo(a = b)
      [] a[1] = "tri" /\ b[1] = "tri" ->
            LET parts == {eq_values(decode_value(a[i]), decode_value(b[i])) : i \in 2..4}
            IN IF "no" \in parts THEN "no" ELSE IF "none" \in parts THEN "none" ELSE "yes"
      [] a[1] = "typed" /\ b[1] = "typed" -> IF a = b THEN "yes" ELSE "none"
      [] {a[1], b[1]} = {"typed", "str"} ->
            LET s == IF a[1] = "str" THEN a ELSE b IN IF s[3] # "-" THEN "no" ELSE "none"
      [] is_literal(a) /\ is_literal(b) -> "none"
      [] OTHER -> "no"

\* Effective boolean value: "yes", "no", or "none" for a type error.
ebv(v) ==
    CASE v[1] = "bool" -> YesNo(v[2] = 1)
      [] v[1] = "num" -> YesNo(v[2] # 0 /\ v[3] # "nan")
      [] v[1] = "str" /\ v[3] = "-" -> YesNo(v[2] # 0)
      [] OTHER -> "none"

\* The deterministic fallback of ORDER BY between literals no operator
\* compares: the kind, then the tag or datatype, then the lexical form (the
\* local hour decides between dateTime spellings before the zone suffix).
KindRank == [num |-> 0, str |-> 1, bool |-> 3, dt |-> 4, typed |-> 5]
TagRank == [t \in {"-", "en", "fr", "none", "E12", "W12", "Z", "int", "sub", "dec",
                   "dbl", "nan", "d1", "d2"} |->
              CASE t = "none" -> 0 [] t = "E12" -> 1 [] t = "W12" -> 2 [] t = "Z" -> 3
                [] t = "en" -> 2 [] t = "fr" -> 3 [] t = "d2" -> 1 [] OTHER -> 0]
sort_key(v) ==
    LET kind == IF v[1] = "str" /\ v[3] # "-" THEN 2 ELSE KindRank[v[1]]
    IN IF v[1] = "dt" THEN <<kind, v[2], TagRank[v[3]]>>
       ELSE IF v[1] = "num" THEN <<kind, 0, v[2]>>
       ELSE <<kind, TagRank[v[3]], v[2]>>

LexCompare(x, y) ==
    LET d == {i \in 1..3 : x[i] # y[i]}
    IN IF d = {} THEN "eq" ELSE Compare(x[MinOf(d)], y[MinOf(d)])

OrderRank(v) == CASE v[1] = "blank" -> 0 [] v[1] = "iri" -> 1 [] v[1] = "tri" -> 3 [] OTHER -> 2

\* order_cmp: the order of ORDER BY, MIN and MAX.
RECURSIVE order_cmp(_, _)
order_cmp(a, b) ==
    CASE OrderRank(a) # OrderRank(b) -> Compare(OrderRank(a), OrderRank(b))
      [] a[1] \in {"blank", "iri"} -> Compare(a[2], b[2])
      [] a[1] = "tri" ->
            LET o == [i \in 2..4 |-> order_cmp(decode_value(a[i]), decode_value(b[i]))]
                d == {i \in 2..4 : o[i] # "eq"}
            IN IF d = {} THEN "eq" ELSE o[MinOf(d)]
      [] OTHER -> LET o == cmp_values(a, b)
                  IN IF o \in {"lt", "gt"} THEN o ELSE LexCompare(sort_key(a), sort_key(b))

\* STR(): the lexical form; blank nodes and triple terms have none.  The
\* form of a number or boolean is a string of its own, 100 + n.
str_of(v) ==
    CASE v[1] \in {"iri", "str", "typed"} -> Str(v[2])
      [] v[1] \in {"num", "bool", "dt"} -> Str(100 + v[2])
      [] OTHER -> Err
=============================================================================
