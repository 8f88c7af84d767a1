-------------------------- MODULE MCFunctionCalls --------------------------
(***************************************************************************)
(* The calls that TLC makes: every program of a few shapes, amounts of up  *)
(* to five digits with none of the halves that binary fractions round      *)
(* either way, arrays of up to four items.                                 *)
(***************************************************************************)
EXTENDS FunctionCalls

\* Programs: 1 is the request, 9 the response, 8 an activity to jump to.
Leaf(n) == {D!S(n), D!Goto(8), D!Goto(9), D!Block(<<D!S(n), D!Goto(9)>>),
            D!Block(<<D!S(n), D!S(n + 10)>>), D!Block(<<D!Goto(8)>>)}
Ifs == {D!If(20, 1, x, y) : x \in Leaf(2), y \in Leaf(3) \cup {D!None}}
Switches == {D!Switch(20, <<[cond |-> 1, stmt |-> x], [cond |-> 2, stmt |-> y]>>) :
               x \in Leaf(2), y \in Leaf(3)}
Inner == Ifs \cup Switches
Nested == {D!If(21, 3, x, y) : x \in Inner, y \in {D!S(4), D!Goto(9), D!None}}
            \cup {D!Block(<<x, D!S(5)>>) : x \in Inner}
            \cup {D!If(21, 3, D!S(4), x) : x \in Inner}
BuildCalls == [kind : {"build"}, program : {<<D!S(1), x, D!S(8), D!S(9)>> : x \in Inner \cup Nested},
               format : {"yaml", "json"}]

-----------------------------------------------------------------------------
Signed(ts) == ts \cup {<<A!Minus>> \o t : t \in ts}
Wholes == {<<>>, <<0>>, <<7>>, <<0, 5>>, <<1, 2>>, <<9, 9>>}
Fractions == {<<>>, <<0>>, <<4>>, <<0, 1>>, <<9, 9>>, <<0, 0, 1>>, <<1, 2, 6>>, <<5, 0, 0>>, <<1, 0, 0, 4>>}
Integrals == Wholes \cup {<<1, 2, 3>>, <<1, 2, 3, 4>>, <<1, 0, 0, 0>>}
Texts == Signed(Integrals \cup {w \o <<s>> \o f : w \in Wholes, s \in {A!Point, A!Comma}, f \in Fractions})
           \cup {<<7, A!Point, A!Point>>, <<7, A!Point, 4, A!Point>>, <<A!Minus, A!Minus, 7>>}

Ints == {[type |-> "int", text |-> <<>>, int |-> n] : n \in {-120, -7, 0, 5, 1234}}
Floats == {[type |-> "float", text |-> <<>>, int |-> n] : n \in {-500000, 0, 7100000, 12000000}}
Others == {[type |-> t, text |-> <<>>, int |-> 0] : t \in {"nil", "other"}}
TextArgs == {A!Text(t) : t \in Texts}
FewArgs == {A!Text(t) : t \in {<<7>>, <<1, 2, 3>>, <<A!Minus, 9, 9>>, <<1, 2, A!Point, 0, 1>>,
                              <<A!Minus, A!Point, 9, 9>>}} \cup Ints

Implied == {"cent", "mill", "micro"}
SumCalls ==
  [kind : {"sum"}, op : {"add", "diff"}, src : A!Units, dst : Implied \cup {"decimal"}, decimal : BOOLEAN,
   amounts : {<<a>> : a \in TextArgs \cup Ints \cup Others} \cup (FewArgs \X FewArgs) \cup {<<>>}]
FormatCalls ==
  [kind : {"format"}, amount : TextArgs \cup Ints \cup Others, src : Implied \cup {"decimal"},
   dst : Implied \cup {"decimal"}, negate : BOOLEAN]
ConvertCalls ==
  [kind : {"convert"}, amount : TextArgs \cup Ints \cup Floats \cup Others, src : A!Formats,
   dst : DOMAIN A!Decimals, decimals : {0}, sep : {A!Point}]
  \cup [kind : {"convert"}, amount : TextArgs \cup Floats, src : A!Formats, dst : {"decimal"},
        decimals : {-1, 0, 2, 12}, sep : {A!Comma}]
CompareCalls ==
  LET texts == (Integrals \ {<<>>}) \cup {<<A!Minus, 9, 9>>, <<1, 2, A!Point, 0, 1>>}
  IN [kind : {"compare"}, unit : Implied, t1 : texts, t2 : texts, u1 : Implied, u2 : Implied]

-----------------------------------------------------------------------------
UpTo(n, S) == UNION {[1..k -> S] : k \in 0..n}
Typed(n, values) ==
  {[i \in 1..Len(s) |-> Item("object", i, s[i][1], s[i][2])] : s \in UpTo(n, values)}
Objects(n, attrs) == Typed(n, attrs \X {"string"})
Strings(n) == {[i \in 1..Len(s) |-> Item("string", i, s[i], "string")] : s \in UpTo(n, {1, 2})}
Mixed == {<<Item("number", 1, 1, "number")>>,
          <<Item("object", 1, 1, "string"), Item("number", 2, 2, "string")>>}

\* Properties that are no strings: a number with the text of a string, and another.
Numbers == {1, 2} \X {"number"}

Term(op, v, parts) == Criterion([type |-> "term", op |-> op, term |-> v, parts |-> parts])
Expression(text, default, values, except) ==
  Criterion([type |-> "expression", text |-> text, default |-> default, values |-> values,
               except |-> except])
NoCriterion == Criterion([type |-> "nil"])
CriteriaLists ==
  {<<>>, <<NoCriterion>>, <<Term("eq", 1, {})>>, <<Term("eq", Missing, {})>>,
   <<Term("in", 12, {1, 2})>>, <<Expression(TRUE, 1, {1, 2}, {})>>,
   <<Expression(TRUE, Missing, {1, 11, 2}, {2, 3})>>, <<Expression(FALSE, 1, {1}, {})>>,
   <<Term("eq", 2, {}), Expression(TRUE, Missing, {1}, {})>>}

SelectCalls ==
  [kind : {"select"}, items : {NotArray} \cup Objects(3, {Missing, Null, 0, 1, 11, 2}),
   criteria : CriteriaLists, transform : {1..3, {1, 3}}]
SortCalls ==
  [kind : {"sort"}, items : Typed(4, ({Missing, Null, 1, 2} \X {"string"}) \cup Numbers) \cup Strings(4) \cup Mixed]
GroupCalls ==
  [kind : {"group"}, items : Typed(4, ({Missing, Null, 0, 1, 2} \X {"string"}) \cup {<<1, "number">>})]

MeasureCalls == [kind : {"measure"}, arrays : UpTo(4, {NotArray} \cup Objects(2, {1}))]

Docs == [attr : {Missing, Null, 0, 1}, items : {NotArray} \cup Objects(2, {Missing, Null, 1})]
Props == [each : BOOLEAN, ifMissing : BOOLEAN, value : {Missing, Null, 1, 2}, of : {"string"},
          criterion : {NoCriterion, Term("eq", 1, {}), Expression(TRUE, 1, {1}, {}),
                       Expression(TRUE, Missing, {Null, 1}, {}), Expression(TRUE, 2, {Null}, {})}]
SetCalls == [kind : {"set"}, doc : Docs, props : UpTo(1, Props)]
            \cup [kind : {"set"}, doc : Docs, props : {p \in [1..2 -> Props] : p[1].ifMissing /\ p[2].ifMissing}]

MCCalls ==
  BuildCalls \cup SumCalls \cup FormatCalls \cup ConvertCalls \cup CompareCalls
    \cup SelectCalls \cup SortCalls \cup GroupCalls \cup MeasureCalls \cup SetCalls
=============================================================================
