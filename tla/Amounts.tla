------------------------------ MODULE Amounts ------------------------------
(***************************************************************************)
(* The amount functions of the expressions (funcs/purefuncs/amt): sums and *)
(* differences (amt.go), formats (amt-fmt.go, util.go) and conversions     *)
(* between implied decimals (amt-fmt-conv.go).                             *)
(*                                                                         *)
(* They work on texts, and where they go wrong is in the texts: a text is  *)
(* a sequence of digits and of the marks, which are numbers below zero in  *)
(* the order of the characters.  Blanks, "+" and exponents are left out.   *)
(***************************************************************************)
EXTENDS Integers, SequencesExt

Comma == -3
Minus == -2
Point == -1
Marks == {Comma, Minus, Point}
Digits == 0..9
Texts == Seq(Marks \cup Digits)
Results == [err : BOOLEAN, text : Texts]
Parsed == [err : BOOLEAN, neg : BOOLEAN, digits : Texts, scale : Nat]

\* Units of amt.go and amt-fmt.go, formats of amt-fmt-conv.go.
Units == {"cent", "mill", "micro", "decimal", "decimal-2", "decimal-3"}
Decimals == [int2 |-> 2, int3 |-> 3, int4 |-> 4, int5 |-> 5, int6 |-> 6]
Formats == DOMAIN Decimals \cup {"decimal"}

Failed == [err |-> TRUE, text |-> <<>>]
Ok(t) == [err |-> FALSE, text |-> t]

-----------------------------------------------------------------------------
(***************************************************************************)
(* strconv and fmt, on the texts of the alphabet.                          *)
(***************************************************************************)
Number(ds) == FoldLeft(LAMBDA n, d : 10 * n + d, 0, ds)
AllDigits(t) == \A i \in 1..Len(t) : t[i] \in Digits
Zeros(n) == [i \in 1..n |-> 0]

Unsigned(n) ==
  LET len == CHOOSE k \in 1..10 : n < 10^k /\ (k = 1 \/ n >= 10^(k - 1))
  IN [i \in 1..len |-> (n \div 10^(len - i)) % 10]
Printed(n) == IF n < 0 THEN <<Minus>> \o Unsigned(-n) ELSE Unsigned(n)

Negative(t) == t # <<>> /\ t[1] = Minus
Magnitude(t) == IF Negative(t) THEN Tail(t) ELSE t
ParseInt(t) ==
  LET m == Magnitude(t) ok == m # <<>> /\ AllDigits(m)
  IN [err |-> ~ok, int |-> IF ~ok THEN 0 ELSE IF Negative(t) THEN -Number(m) ELSE Number(m)]

Points(t) == [i \in 1..Len(t) |-> IF t[i] = Comma THEN Point ELSE t[i]]
TrimLeft(t) == LET i == SelectInSeq(t, LAMBDA c : c # 0)
               IN IF i = 0 THEN <<>> ELSE SubSeq(t, i, Len(t))
TrimRight(t) == SubSeq(t, 1, SelectLastInSeq(t, LAMBDA c : c # 0))
OrZero(t) == IF t = <<>> THEN <<0>> ELSE t
Drop(t, n) == SubSeq(t, 1, Len(t) - n)

\* The text before the first point, and after it.
Whole(t) == LET i == SelectInSeq(t, LAMBDA c : c = Point)
            IN IF i = 0 THEN t ELSE SubSeq(t, 1, i - 1)
Fraction(t) == LET i == SelectInSeq(t, LAMBDA c : c = Point)
               IN IF i = 0 THEN <<>> ELSE SubSeq(t, i + 1, Len(t))
HasPoint(t) == Contains(Points(t), Point)

-----------------------------------------------------------------------------
(***************************************************************************)
(* amt.go.  An argument is a text, an integer, nil, or of another type     *)
(* (float64 among them); the last two count as 0 without an error.         *)
(***************************************************************************)
\* evaluate: a decimal text is rounded to the decimals of its unit, and cut in
\* the other units.  The unit of an integer stays as it is.
Evaluate(a, unit) ==
  LET t == Points(a.text)
      places == IF unit = "decimal-2" THEN 2 ELSE IF unit = "decimal-3" THEN 3 ELSE 0
      base == IF unit = "decimal-2" THEN "cent" ELSE IF unit = "decimal-3" THEN "mill" ELSE unit
      frac == Fraction(t)
      digits == Magnitude(Whole(t)) \o frac
      scale == 10^Len(frac)
      scaled == Number(digits) * 10^places
      rounded == IF places = 0 THEN scaled \div scale ELSE (2 * scaled + scale) \div (2 * scale)
      parsed == ParseInt(t)
  IN CASE a.type = "int" -> [err |-> FALSE, int |-> a.int, unit |-> unit]
       [] a.type = "text" /\ HasPoint(t) ->
            IF digits # <<>> /\ AllDigits(digits)
              THEN [err |-> FALSE, int |-> IF Negative(t) THEN -rounded ELSE rounded, unit |-> base]
              ELSE [err |-> TRUE, int |-> 0, unit |-> unit]
       [] a.type = "text" /\ ~HasPoint(t) ->
            [err |-> parsed.err, int |-> parsed.int * 10^places,
             unit |-> IF parsed.err THEN unit ELSE base]
       [] OTHER -> [err |-> FALSE, int |-> 0, unit |-> unit]

\* An error of Amt comes with the text of zero.
Zero == [err |-> TRUE, text |-> <<0>>]

\* amountConversionsMap, on the printed total, its sign included.
Convert[t \in Texts, src \in Units, dst \in Units] ==
  CASE src = dst /\ src \in {"cent", "mill"} -> Ok(t)
    [] src = "cent" /\ dst = "mill"  -> Ok(t \o Zeros(1))
    [] src = "cent" /\ dst = "micro" -> Ok(t \o Zeros(4))
    [] src = "mill" /\ dst = "cent"  -> Ok(IF Len(t) > 1 THEN Drop(t, 1) ELSE <<0>>)
    [] src = "micro" /\ dst = "cent" -> Ok(IF Len(t) > 4 THEN Drop(t, 4) ELSE <<0>>)
    [] OTHER -> Zero

ToDecimalFormat[t \in Texts] ==
  LET s == IF Len(t) < 3 THEN Zeros(3 - Len(t)) \o t ELSE t
  IN SubSeq(s, 1, Len(s) - 2) \o <<Point>> \o SubSeq(s, Len(s) - 1, Len(s))

AmtOp(op, total, i, n) ==
  CASE op = "add" -> total + n
    [] op = "diff" /\ i = 1 -> n
    [] OTHER -> total - n

\* Amt, and AmtConv as the sum of one amount.  The conversion is that of the last
\* amount's unit.
Amt(op, src, dst, decimal, as) ==
  LET es == [i \in 1..Len(as) |-> Evaluate(as[i], src)]
      total == FoldLeftDomain(LAMBDA n, i : AmtOp(op, n, i, es[i].int), 0, es)
      res == IF as = <<>> \/ \E i \in 1..Len(es) : es[i].err THEN Zero
             ELSE Convert[Printed(total), Last(es).unit, dst]
  IN IF decimal THEN [res EXCEPT !.text = ToDecimalFormat[@]] ELSE res

AmtNeg(t) == IF Negative(t) THEN Tail(t) ELSE <<Minus>> \o t

Text(t) == [type |-> "text", text |-> t, int |-> 0]

\* The larger of two texts, character by character once padded with zeros.
Greater[t1 \in Texts, t2 \in Texts] ==
  LET len == IF Len(t1) > Len(t2) THEN Len(t1) ELSE Len(t2)
      p1 == Zeros(len - Len(t1)) \o t1
      p2 == Zeros(len - Len(t2)) \o t2
  IN \E i \in 1..len : p1[i] > p2[i] /\ SubSeq(p1, 1, i - 1) = SubSeq(p2, 1, i - 1)

Compared[r1 \in Results, r2 \in Results] ==
  [err |-> r1.err \/ r2.err, greater |-> ~r1.err /\ ~r2.err /\ Greater[r1.text, r2.text]]

\* AmtCmp, which asks whether the first amount is greater.
AmtCmp(unit, t1, u1, t2, u2) ==
  LET inUnit(t, u) == IF u = unit THEN Ok(t) ELSE Amt("add", u, unit, FALSE, <<Text(t)>>)
  IN Compared[inUnit(t1, u1), inUnit(t2, u2)]

-----------------------------------------------------------------------------
(***************************************************************************)
(* amt-fmt.go: the sign goes apart, except that of an integer argument,    *)
(* which stays with the number as well.                                    *)
(***************************************************************************)
Split(a) ==
  LET t == Points(Magnitude(a.text))
      whole == TrimLeft(Whole(t)) frac == TrimRight(Fraction(t))
      int == ParseInt(OrZero(whole))
  IN CASE a.type = "int" -> [err |-> FALSE, int |-> a.int, frac |-> <<>>, neg |-> a.int < 0]
       [] a.type = "nil" -> [err |-> FALSE, int |-> 0, frac |-> <<>>, neg |-> FALSE]
       [] a.type = "text" ->
            [err |-> Contains(Fraction(t), Point) \/ int.err \/ ParseInt(OrZero(frac)).err,
             int |-> int.int, frac |-> frac, neg |-> Negative(a.text)]
       [] OTHER -> [err |-> TRUE, int |-> 0, frac |-> <<>>, neg |-> FALSE]

\* fmtConvDecimal2Cent loses one decimal of three or more.
DecimalToCent(i, frac) ==
  Ok(Printed(i) \o (CASE frac = <<>> -> IF i > 0 THEN Zeros(2) ELSE <<>>
                      [] Len(frac) = 1 -> frac \o Zeros(1)
                      [] Len(frac) = 2 -> frac
                      [] OTHER -> Drop(frac, 1)))

\* formatConversionMap.
FormatAs(i, frac, src, dst) ==
  LET p == Printed(i) IN
  CASE src = dst /\ src \in {"cent", "mill"} -> Ok(p)
    [] src = "cent" /\ dst = "mill"    -> Ok(p \o Zeros(1))
    [] src = "cent" /\ dst = "micro"   -> Ok(p \o Zeros(4))
    [] src = "mill" /\ dst = "cent"    -> Ok(IF i >= 10 THEN Drop(p, 1) ELSE <<0>>)
    [] src = "micro" /\ dst = "cent"   -> Ok(IF i >= 10000 THEN Drop(p, 4) ELSE <<0>>)
    [] src = "cent" /\ dst = "decimal" ->
         Ok(IF i >= 100 THEN Drop(p, 2) \o <<Point>> \o SubSeq(p, Len(p) - 1, Len(p))
            ELSE <<0, Point>> \o (IF Len(p) = 1 THEN Zeros(1) \o p ELSE p))
    [] src = "decimal" /\ dst = "cent" -> DecimalToCent(i, frac)
    [] OTHER -> Failed

Format(a, src, dst, negate) ==
  LET s == Split(a)
      res == FormatAs(s.int, s.frac, src, dst)
      signed == (s.int > 0 \/ s.frac # <<>>) /\ negate # s.neg
  IN IF s.err \/ (src \in {"cent", "mill", "micro"} /\ s.frac # <<>>) \/ res.err THEN Failed
     ELSE Ok(IF signed THEN <<Minus>> \o res.text ELSE res.text)

-----------------------------------------------------------------------------
(***************************************************************************)
(* amt-fmt-conv.go: sign, digits and scale.  A float64 is given by its     *)
(* millionths, the six decimals it is printed with.                        *)
(***************************************************************************)
FloatText(micros) ==
  LET n == IF micros < 0 THEN -micros ELSE micros
      frac == Unsigned(n % 10^6)
  IN (IF micros < 0 THEN <<Minus>> ELSE <<>>) \o Unsigned(n \div 10^6)
       \o <<Point>> \o Zeros(6 - Len(frac)) \o frac

ParseIntegral(a) ==
  LET t == CASE a.type = "int" -> Printed(a.int)
             [] a.type = "float" /\ a.int % 10^6 = 0 -> Whole(FloatText(a.int))
             [] a.type = "text" -> a.text
             [] OTHER -> <<>>
      m == Magnitude(t)
  IN [err |-> m = <<>> \/ ~AllDigits(m), neg |-> Negative(t), digits |-> OrZero(TrimLeft(m))]

ParseDecimal(a) ==
  LET t == CASE a.type = "int" -> Printed(a.int)
             [] a.type = "float" -> FloatText(a.int)
             [] a.type = "text" -> a.text
             [] OTHER -> <<>>
      m == Points(Magnitude(t))
  IN [err |-> m = <<>> \/ ~AllDigits(Whole(m)) \/ ~AllDigits(Fraction(m)), neg |-> Negative(t),
      digits |-> OrZero(TrimLeft(Whole(m))) \o Fraction(m), scale |-> Len(Fraction(m))]

\* numConvParse: a zero has no sign.
Parse(a, src) ==
  LET p == IF src = "decimal" THEN ParseDecimal(a)
           ELSE LET q == ParseIntegral(a)
                IN [err |-> q.err, neg |-> q.neg, digits |-> q.digits, scale |-> Decimals[src]]
  IN [p EXCEPT !.neg = @ /\ TrimLeft(p.digits) # <<>>]

\* Mutated AdjustScale: one digit too few is cut.
AdjustScaleOffByOne(ds, from, to) ==
  IF to >= from THEN ds \o Zeros(to - from)
  ELSE IF from - to >= Len(ds) THEN <<0>> ELSE Drop(ds, from - to - 1)

AdjustScale(ds, from, to) ==
  IF to >= from THEN ds \o Zeros(to - from)
  ELSE IF from - to >= Len(ds) THEN <<0>> ELSE Drop(ds, from - to)

\* The decimal output; decimals below 0 ask for the natural precision.
DecimalOut(digits, scale, decimals, sep) ==
  LET places == IF decimals < 0 THEN scale ELSE IF decimals > 12 THEN 12 ELSE decimals
      ds == AdjustScale(digits, scale, places)
      n == Len(ds) - places
      whole == OrZero(TrimLeft(SubSeq(ds, 1, n)))
      padded == IF n > 0 THEN SubSeq(ds, n + 1, Len(ds)) ELSE Zeros(-n) \o ds
      frac == IF decimals < 0 THEN TrimRight(padded) ELSE padded
  IN IF places = 0 \/ frac = <<>> THEN whole ELSE whole \o <<sep>> \o frac

\* numConvFormat: a number in the format of the target.
Formatted[p \in Parsed, dst \in Formats, decimals \in Int, sep \in Marks] ==
  LET body == IF dst = "decimal" THEN DecimalOut(p.digits, p.scale, decimals, sep)
              ELSE OrZero(TrimLeft(AdjustScale(p.digits, p.scale, Decimals[dst])))
  IN IF p.err THEN Failed ELSE Ok(IF p.neg THEN <<Minus>> \o body ELSE body)

AmtFmtConv(a, src, dst, decimals, sep) ==
  IF sep \notin {Point, Comma} \/ {src, dst} \ Formats # {} THEN Failed
  ELSE Formatted[Parse(a, src), dst, decimals, sep]
=============================================================================
