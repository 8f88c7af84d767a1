--------------------------- MODULE FunctionCalls ---------------------------
(***************************************************************************)
(* The sequential functions of the library, each called once on arguments  *)
(* of Calls: beside the operators on arrays (ArrayCalls), the builder of   *)
(* orchestrations (DagBuilder) and the amount functions (Amounts).  The    *)
(* answers are compared with what the arguments mean.                      *)
(***************************************************************************)
EXTENDS ArrayCalls

D == INSTANCE DagBuilder
P == INSTANCE PathSelection
A == INSTANCE Amounts

\* The engine that is given the definition d; of its state only the configuration
\* matters here.
Engine(d) == INSTANCE Orchestration WITH
  cfg <- d, phase <- "new", current <- 0, verdicts <- <<>>, timing <- 0, deadline <- 0,
  outcome <- "none", bndx <- 0, bndErr <- FALSE, Activities <- 1..60, NoActivity <- D!NoName,
  Configs <- {}, Deadlines <- {}, MaxDuration <- 0, Horizon <- 1

-----------------------------------------------------------------------------
(***************************************************************************)
(* The builder.  A program is a list of statements over the activities 1,  *)
(* the request, 9, the response, and others; its definition is read from   *)
(* YAML or JSON and then built upon.                                       *)
(***************************************************************************)
RECURSIVE Simples(_)
Simples(s) ==
  CASE s.type \in {"none", "goto"} -> {}
    [] s.type = "simple" -> {s.name}
    [] s.type = "block" -> UNION {Simples(s.stmts[i]) : i \in 1..Len(s.stmts)}
    [] OTHER -> UNION {Simples(s.cases[i].stmt) : i \in 1..Len(s.cases)}
                  \cup (IF s.type = "if" THEN Simples(s.else) ELSE {})

TypeOf(n) == CASE n = 1 -> "request" [] n = 9 -> "response" [] OTHER -> "task"

Definition(program, format) ==
  LET names == SelectSeq([n \in 1..20 |-> n], LAMBDA n : n \in Simples(D!Block(program)))
      acts == [i \in 1..Len(names) |-> D!Act(names[i], TypeOf(names[i]))]
  IN D!AddNops(IF format = "json" THEN D!FromJSON(acts, <<>>) ELSE D!FromYAML(acts, <<>>),
               D!Block(program))

BuildDag ==
  Reply("build", D!Build(Definition(call.program, call.format), D!Block(call.program), TRUE))

\* What a statement does under the truth t of the conditions: the activities it
\* passes, and whether it goes on, jumps or gets stuck.
RECURSIVE Exec(_, _)
Exec(s, t) ==
  CASE s.type = "none"   -> [acts |-> <<>>, to |-> "stuck", at |-> 0]
    [] s.type = "simple" -> [acts |-> <<s.name>>, to |-> "next", at |-> 0]
    [] s.type = "goto"   -> [acts |-> <<>>, to |-> "goto", at |-> s.name]
    [] s.type = "block"  ->
         LET r == Exec(s.stmts[1], t)
             q == Exec(D!Block(Tail(s.stmts)), t)
         IN IF Len(s.stmts) = 1 \/ r.to # "next" THEN r ELSE [q EXCEPT !.acts = r.acts \o @]
    [] OTHER ->
         LET i == SelectInSeq(s.cases, LAMBDA c : t[c.cond])
         IN IF i # 0 THEN Exec(s.cases[i].stmt, t)
            ELSE Exec(IF s.type = "if" THEN s.else ELSE D!None, t)

\* A jump leads to one of the statements of the program itself, further on.
RECURSIVE Run(_, _)
Run(stmts, t) ==
  LET r == Exec(D!Block(stmts), t)
      q == Run(SubSeq(stmts, SelectInSeq(stmts, LAMBDA s : s = D!S(r.at)), Len(stmts)), t)
  IN IF r.to # "goto" THEN [acts |-> r.acts, ok |-> r.to = "next"]
     ELSE [q EXCEPT !.acts = r.acts \o @]

\* The walk of the engine from activity n, without the nops.
RECURSIVE Walk(_, _, _, _)
Walk(def, n, t, policy) ==
  LET outs == {i \in 1..Len(def.paths) : def.paths[i].source = n}
      truth == [i \in outs |->
                  IF def.paths[i].constraint = D!NoCond \/ t[def.paths[i].constraint] THEN "true" ELSE "false"]
      next == P!Select(outs, truth, policy)
      here == IF D!Act(n, "nop") \in ToSet(def.acts) THEN <<>> ELSE <<n>>
      q == Walk(def, def.paths[next].target, t, policy)
  IN IF outs = {} \/ next = 0 THEN [acts |-> here, ok |-> outs = {}]
     ELSE [q EXCEPT !.acts = here \o @]

\* A program that is built behaves as it is written under the policy at-least-one,
\* with its jumps, its branches without an else and everything nested in them; under
\* the policy exactly-one, where the path to an else has no constraint of its own, it
\* does the same or fails after doing the same so far (dagbld and Optimize, as the
\* engine reads the paths).
BuiltRunsAsWritten ==
  answer.kind = "build" /\ answer.value.result = "ok" =>
    \A t \in [1..3 -> BOOLEAN] :
      LET run == Run(call.program, t)
          strict == Walk(answer.value.def, 1, t, "exactly-one")
      IN /\ Walk(answer.value.def, 1, t, "at-least-one") = run
         /\ strict = run \/ (~strict.ok /\ IsPrefix(strict.acts, run.acts))

Configured(def) ==
  LET type == [n \in 1..60 |-> IF n \in D!NamesOf(def) THEN TypeOf(n) ELSE "task"]
  IN [names |-> D!NamesOf(def), type |-> type, flagged |-> {}, paths |-> def.paths,
      start |-> def.start, policy |-> "exactly-one", boundary |-> <<>>, estimate |-> 0]

Reachable(program) ==
  \A n \in Simples(D!Block(program)) :
    \E t \in [1..3 -> BOOLEAN] : Contains(Run(program, t).acts, n)

\* The activities that the paths of a definition lead to from those of s.
RECURSIVE Led(_, _)
Led(def, s) ==
  LET on == s \cup {def.paths[i].target : i \in {j \in 1..Len(def.paths) : def.paths[j].source \in s}}
  IN IF on = s THEN s ELSE Led(def, on)

\* The activities that no path from the request leads to.
Hanging(def) == D!NamesOf(def) \ Led(def, {1})

\* Whether a block that begins with a goto is among the statements of s.
RECURSIVE JumpsFirst(_)
JumpsFirst(s) ==
  CASE s.type \in {"none", "simple", "goto"} -> FALSE
    [] s.type = "block" -> s.stmts[1].type = "goto" \/ \E i \in 1..Len(s.stmts) : JumpsFirst(s.stmts[i])
    [] OTHER -> \/ \E i \in 1..Len(s.cases) : JumpsFirst(s.cases[i].stmt)
                \/ s.type = "if" /\ JumpsFirst(s.else)

\* What is built from a program without dead activities is a graph that NewOrchestration
\* accepts, no nop of it left hanging; the start, where the definition names one, has to
\* be the request.  (One read from JSON names the activity added last: AddActivity of
\* orchestration.go.)  A build is refused only where a block begins with a goto, and it
\* panics only where several nops, the one added last among them, hang when Optimize
\* begins.
BuiltIsAccepted ==
  LET def == answer.value.def
      result == answer.value.result
  IN answer.kind = "build" /\ Reachable(call.program) =>
       /\ result = "ok" => Engine(Configured(def))!ValidWith(1) = (def.start \in {D!NoName, 1})
       /\ result = "error" => JumpsFirst(D!Block(call.program))
       /\ result = "panic" => Last(def.acts).name \in Hanging(def) /\ Cardinality(Hanging(def)) > 1

-----------------------------------------------------------------------------
(***************************************************************************)
(* The amounts.  All values are counted in millionths, as many as there    *)
(* are in a unit of each format.                                           *)
(***************************************************************************)
Sum == Reply("sum", A!Amt(call.op, call.src, call.dst, call.decimal, call.amounts))
FormatAmount == Reply("format", A!Format(call.amount, call.src, call.dst, call.negate))
ConvertAmount ==
  Reply("convert", A!AmtFmtConv(call.amount, call.src, call.dst, call.decimals, call.sep))
CompareAmounts == Reply("compare", A!AmtCmp(call.unit, call.t1, call.u1, call.t2, call.u2))

Micros == [cent |-> 10^4, mill |-> 10^3, micro |-> 1, decimal |-> 10^6, int2 |-> 10^4, int3 |-> 10^3,
           int4 |-> 10^2, int5 |-> 10, int6 |-> 1] @@ ("decimal-2" :> 10^6) @@ ("decimal-3" :> 10^6)

\* A numeral: a sign, digits, and at most one mark with digits around it.
Numeral(t) ==
  LET m == A!Points(A!Magnitude(t))
  IN A!AllDigits(A!Whole(m)) /\ A!AllDigits(A!Fraction(m)) /\ A!Whole(m) \o A!Fraction(m) # <<>>

\* The value of a numeral in millionths, when one is worth unit of them.
Value(t, unit) ==
  LET m == A!Points(A!Magnitude(t))
      v == FoldLeftDomain(LAMBDA n, i : IF i > 6 THEN n ELSE n + A!Fraction(m)[i] * (unit \div 10^i),
                          A!Number(A!Whole(m)) * unit, A!Fraction(m))
  IN IF A!Negative(t) THEN -v ELSE v

\* An argument as the text it is printed as; what has no text is worth nothing.
Written(a) ==
  CASE a.type = "text" -> a.text
    [] a.type = "int"  -> A!Printed(a.int)
    [] a.type = "float" /\ a.int % 10^6 = 0 -> A!Printed(a.int \div 10^6)
    [] a.type = "float" /\ a.int % 10^6 # 0 -> A!FloatText(a.int)
    [] OTHER -> <<0>>

\* v cut towards zero to a multiple of unit.
Cut(v, unit) == IF v < 0 THEN -(((-v) \div unit) * unit) ELSE (v \div unit) * unit

Decimal(t) == Len(A!Fraction(A!Points(t)))

\* A sum that is answered is the sum of its amounts, cut to the target.  A text counts
\* in the unit that is named, with no more decimals than that unit has; an integer in
\* cents between texts of decimal-2 and in thousandths between those of decimal-3;
\* nil and any other type, float64 among them, as nothing.  One thing is left out: a
\* negative total of less than a unit of the target, or less than ten of them in
\* decimal format, may be answered by a text that is no number ("-", "0.-7"), since
\* the conversions count the sign as a digit.  It is never another number.
SumExact ==
  LET places == [cent |-> 0, mill |-> 0, micro |-> 0] @@ ("decimal-2" :> 2) @@ ("decimal-3" :> 3)
      text(a) == a.type = "text"
      counts(a) == IF text(a) THEN Micros[call.src] ELSE Micros[call.src] \div 10^places[call.src]
      as == call.amounts
      exact == \A i \in 1..Len(as) :
                 text(as[i]) => Numeral(as[i].text) /\ Decimal(as[i].text) <= places[call.src]
      of == [i \in 1..Len(as) |-> Value(Written(as[i]), counts(as[i]))]
      total == FoldLeftDomain(LAMBDA n, i : IF call.op = "diff" /\ i > 1 THEN n - of[i] ELSE n + of[i], 0, of)
      unit == Micros[call.dst]
      least == IF call.decimal THEN 10 * unit ELSE unit
      number == Numeral(answer.value.text)
  IN answer.kind = "sum" /\ ~answer.value.err /\ exact =>
       /\ total >= 0 \/ -total >= least => number
       /\ number => Value(answer.value.text, IF call.decimal THEN 100 * unit ELSE unit) = Cut(total, unit)

\* What Format gets wrong of a negative integer, whose sign stays with the number:
\* negate does not turn it (amt-fmt.go:47), a decimal format takes it for a number
\* below 100 or without cents, and a larger unit for one below 10 (util.go:47).
Misread(a, src, dst, negate) ==
  /\ a.type = "int" /\ a.int < 0
  /\ negate \/ "decimal" \in {src, dst} \/ Micros[src] < Micros[dst]

\* A format that is answered changes the scale and the sign of any argument, nil being
\* zero, and cuts what the target has no place for.  Two things are left out: the
\* negative integers that are Misread, where the value is not nothing, and more than
\* three decimals, of which fmtConvDecimal2Cent drops one (util.go).
FormatExact ==
  LET t == Written(call.amount)
      v == Value(t, Micros[call.src])
      unit == IF call.dst = "decimal" THEN Micros["cent"] ELSE Micros[call.dst]
      expected == Cut(IF call.negate THEN -v ELSE v, unit)
      misread == Misread(call.amount, call.src, call.dst, call.negate) /\ expected # 0
  IN answer.kind = "format" /\ ~answer.value.err /\ Numeral(t)
       /\ Len(A!TrimRight(A!Fraction(A!Points(t)))) <= 3 /\ ~misread =>
       /\ Numeral(answer.value.text)
       /\ Value(answer.value.text, Micros[call.dst]) = expected

\* AmtFmtConv answers for every numeral, integer and float64, the value cut to the
\* target, and for nothing else but a mark alone, which is zero.  (A format of implied
\* decimals takes no mark, nor a float64 that is no integer.)
ConvertExact ==
  LET t == Written(call.amount)
      v == Value(t, Micros[call.src])
      unit == CASE call.dst # "decimal" -> Micros[call.dst]
                [] call.dst = "decimal" /\ call.decimals \in 0..5 -> 10^(6 - call.decimals)
                [] OTHER -> 1
      mark == A!Points(A!Magnitude(t)) = <<A!Point>>
      number == call.amount.type \notin {"nil", "other"} /\ (Numeral(t) \/ mark)
  IN answer.kind = "convert" =>
       /\ answer.value.err = ~(number /\ (call.src = "decimal" \/ ~A!HasPoint(t)))
       /\ ~answer.value.err =>
            /\ Numeral(answer.value.text)
            /\ Value(answer.value.text, Micros[call.dst]) = Cut(v, unit)

\* The characters of two amounts are in the order of the amounts if both are written
\* with digits alone: a sign or a mark is compared as a character.
CompareExact ==
  answer.kind = "compare" /\ ~answer.value.err /\ A!AllDigits(call.t1 \o call.t2) =>
    answer.value.greater =
      (Cut(Value(call.t1, Micros[call.u1]), Micros[call.unit])
         > Cut(Value(call.t2, Micros[call.u2]), Micros[call.unit]))

\* Whatever its type, unit, format and length, an amount keeps its value but for the
\* digits the target has no place for (purefuncs/amt), with the exceptions named at
\* SumExact and FormatExact.
AmountsKeepTheirValue == SumExact /\ FormatExact /\ ConvertExact /\ CompareExact

-----------------------------------------------------------------------------
Next ==
  \/ BuildDag
  \/ Sum
  \/ FormatAmount
  \/ ConvertAmount
  \/ CompareAmounts
  \/ ArrayNext

Spec == Init /\ [][Next]_vars
=============================================================================
