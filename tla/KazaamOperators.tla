-------------------------- MODULE KazaamOperators --------------------------
(***************************************************************************)
(* The operators added to the Kazaam transformations (xforms/kz/operators) *)
(* and the array functions of their expressions (xforms/kz/commons), on    *)
(* documents cut down to what the operators look at.                       *)
(*                                                                         *)
(* The text of a value is a number, in the order of its bytes, 0 the empty *)
(* one; 11 to 20 are 1 to 10 in capitals.  jsonparser.Get answers Missing  *)
(* with an error, and Null without one.  An item of an array is a record   *)
(* of its type, an id that tells it from the others, and the text and the  *)
(* type of the property looked at (attr, of).                              *)
(***************************************************************************)
EXTENDS Integers, SequencesExt

Missing == -1
Null == -2
Item(type, id, attr, of) == [type |-> type, id |-> id, attr |-> attr, of |-> of]

\* What is found where an array is expected and is not.
NotArray == <<[type |-> "not an array"]>>
IsArray(a) == a # NotArray

Fails == [err |-> TRUE, out |-> <<>>]
Gives(x) == [err |-> FALSE, out |-> x]

Lower(v) == IF v \in 11..20 THEN v - 10 ELSE v

\* ArrayEach hands a string over without its quotes; Bare is one written back so.
Bare(it) == IF it.type = "string" THEN Item("bare", it.id, it.attr, it.of) ELSE it

-----------------------------------------------------------------------------
(***************************************************************************)
(* criteria.go                                                             *)
(***************************************************************************)
\* A required parameter that is missing passes unnoticed: the term is then the empty
\* one, and the text of an expression cannot be evaluated.  A term is a value and the
\* values it contains; an expression holds for some values of the property, and may
\* make an exception of some indexes of the loop.
TermCriterion(spec) ==
  [type |-> "term", op |-> IF spec.op = "in" THEN "in" ELSE "eq",
   term |-> IF spec.term = Missing THEN 0 ELSE spec.term,
   parts |-> IF spec.term = Missing THEN {} ELSE spec.parts]

ExpressionCriterion(spec) ==
  [type |-> "expression", text |-> spec.text, default |-> spec.default,
   values |-> spec.values, except |-> spec.except]

\* CriterionFromSpec: a specification with an attribute is one with a term.
Criterion(spec) ==
  CASE spec.type = "nil"  -> [type |-> "empty"]
    [] spec.type = "term" -> TermCriterion(spec)
    [] OTHER              -> ExpressionCriterion(spec)

\* IsAccepted of the three kinds: what a value contains is told without regard to
\* capitals, and the empty string is contained in all.
TermVerdict(c, attr) ==
  CASE attr = Missing -> "error"
    [] attr # Missing /\ Lower(attr) = Lower(c.term) -> "yes"
    [] attr # Missing /\ c.op = "in"
         /\ (attr = 0 \/ Lower(attr) \in {Lower(p) : p \in c.parts}) -> "yes"
    [] OTHER -> "no"

ExpressionVerdict(c, attr, index) ==
  LET v == IF attr = Missing THEN c.default ELSE attr
  IN IF v = Missing \/ ~c.text THEN "error"
     ELSE IF v \in c.values /\ index \notin c.except THEN "yes" ELSE "no"

Verdict(c, attr, index) ==
  CASE c.type = "empty" -> "no"
    [] c.type = "term"  -> TermVerdict(c, attr)
    [] OTHER            -> ExpressionVerdict(c, attr, index)

\* Criteria: the first that does not say no decides.
Accepts(cs, attr, index) ==
  LET verdicts == [i \in 1..Len(cs) |-> Verdict(cs[i], attr, index)]
      i == SelectInSeq(verdicts, LAMBDA v : v # "no")
  IN IF cs = <<>> THEN "yes" ELSE IF i = 0 THEN "no" ELSE verdicts[i]

-----------------------------------------------------------------------------
(***************************************************************************)
(* filter-array-items, distinct-items, shift-array-items, reduce-array     *)
(***************************************************************************)
\* The index that the criteria see counts the items accepted so far.
FilterTurn(cs, r, it) ==
  LET v == Accepts(cs, it.attr, Len(r.out))
  IN CASE r.err \/ v = "no" -> r
       [] ~r.err /\ v = "error" -> Fails
       [] OTHER -> Gives(Append(r.out, Bare(it)))

FilterArray(items, cs) == FoldLeft(LAMBDA r, it : FilterTurn(cs, r, it), Gives(<<>>), items)

\* A reference with [i]: the array of each item, or none at all.
FilterNested(arrays, cs) ==
  IF \E i \in 1..Len(arrays) : ~IsArray(arrays[i]) \/ FilterArray(arrays[i], cs).err THEN Fails
  ELSE Gives([i \in 1..Len(arrays) |-> FilterArray(arrays[i], cs).out])

FilterArrayItems(source, nested, cs) ==
  CASE nested                        -> FilterNested(source, cs)
    [] ~nested /\ ~IsArray(source) -> Fails
    [] OTHER                         -> FilterArray(source, cs)

\* The last item of each key stays, in the order of a Go map.  The key is the text of
\* the property, whatever its type.
DistinctItems(items) ==
  IF \E i \in 1..Len(items) : items[i].attr = Missing THEN {Fails}
  ELSE LET last == {items[i] : i \in {j \in 1..Len(items) :
                      \A k \in j + 1..Len(items) : items[k].attr # items[j].attr}}
       IN {Gives([i \in 1..Len(s) |-> Bare(s[i])]) : s \in SetToSeqs(last)}

\* transform is the Kazaam of the sub-rules, by the ids of the items it can turn into
\* an object.  The index counts every item.
ShiftTurn(items, cs, filterItems, transform, r, i) ==
  LET v == Accepts(cs, items[i].attr, i - 1)
      turned == IF v = "yes" THEN Item("shifted", items[i].id, items[i].attr, items[i].of) ELSE items[i]
  IN CASE r.err -> r
       [] ~r.err /\ (v = "error" \/ (v = "yes" /\ items[i].id \notin transform)) -> Fails
       [] ~r.err /\ v = "no" /\ filterItems -> r
       [] OTHER -> Gives(Append(r.out, turned))

ShiftItems(items, cs, filterItems, transform) ==
  FoldLeftDomain(LAMBDA r, i : ShiftTurn(items, cs, filterItems, transform, r, i), Gives(<<>>), items)

\* flatten answers an object for no item or one, and the array for more.
ShiftArray(items, cs, filterItems, flatten, transform) ==
  LET r == ShiftItems(items, cs, filterItems, transform)
  IN CASE r.err \/ ~flatten \/ Len(r.out) > 1 -> r
       [] ~r.err /\ flatten /\ r.out = <<>> -> Gives([type |-> "object"])
       [] OTHER -> IF Head(r.out).type \in {"object", "shifted"} THEN Gives(Head(r.out)) ELSE Fails

ShiftArrayItems(source, nested, cs, filterItems, flatten, transform) ==
  LET shift(a) == IF IsArray(a) THEN ShiftArray(a, cs, filterItems, flatten, transform) ELSE Fails
  IN CASE ~nested -> shift(source)
       [] nested /\ (\E i \in 1..Len(source) : shift(source[i]).err) -> Fails
       [] OTHER -> Gives([i \in 1..Len(source) |-> shift(source[i]).out])

\* The property of the item is the name and its id the value, which is always there;
\* an empty name is left out, a later item overwrites an earlier one.  A name that is
\* there must be a string (GetJsonString).
IsName(it) == it.attr \notin {Missing, Null} /\ it.of = "string"

ReduceArray(items) ==
  IF \E i \in 1..Len(items) : ~IsName(items[i]) THEN Fails
  ELSE Gives([n \in {items[i].attr : i \in 1..Len(items)} \ {0} |->
                items[SelectLastInSeq(items, LAMBDA it : it.attr = n)].id])

-----------------------------------------------------------------------------
(***************************************************************************)
(* merge-arrays, len-arrays and add-array-items read the array of each     *)
(* item of another array, and stop at the first that is none.              *)
(***************************************************************************)
FirstNone(arrays) == SelectInSeq(arrays, LAMBDA a : ~IsArray(a))
BeforeNone(arrays) ==
  IF FirstNone(arrays) = 0 THEN arrays ELSE SubSeq(arrays, 1, FirstNone(arrays) - 1)

\* Mutated MergeItems: an array that is missing is passed over.
MergeItemsSkips(arrays) == Gives(FlattenSeq(SelectSeq(arrays, IsArray)))

\* process of merge-arrays forgets the error of the loop.  The failed turn leaves no
\* merged array: reading it fails if there was an item in it, and else the answer is [].
MergeItems(arrays) ==
  LET merged == FlattenSeq(BeforeNone(arrays))
  IN IF FirstNone(arrays) # 0 /\ merged # <<>> THEN Fails ELSE Gives(merged)

\* _mergeArrays: "none" is a null or a missing argument, "wrong" anything else.
MergeFunction(a, b) ==
  CASE "wrong" \in {a.type, b.type} -> [type |-> "nil"]
    [] "wrong" \notin {a.type, b.type} /\ a.type = "none" -> b
    [] "wrong" \notin {a.type, b.type} /\ a.type # "none" /\ b.type = "none" -> a
    [] OTHER -> [type |-> "array", items |-> a.items \o b.items]

LenArray(a) == IF IsArray(a) THEN Gives(Len(a)) ELSE Fails

\* computeAndSetLenOfNestedArray: the items after the failure keep what they have.
LenArrays(arrays) ==
  Gives([i \in 1..Len(arrays) |->
           IF i <= Len(BeforeNone(arrays)) THEN Len(arrays[i]) ELSE Missing])

\* Adder.add: a summand is a type, a number, and whether it is written with a point.
\* An empty string and what is neither string, number nor boolean add nothing.
Unaddable(s) == s.type \in {"boolean", "missing", "bad"}
Added(s) == s.type \in {"string", "number"}
Quoted(s) == s.type \in {"string", "empty"}

\* Adder.result: a string if all that was seen is one, but 0 if nothing was added.
Result(seen) ==
  LET added == {i \in 1..Len(seen) : Added(seen[i])}
  IN [sum |-> FoldLeft(LAMBDA n, s : IF Added(s) THEN n + s.n ELSE n, 0, seen),
      float |-> \E i \in added : seen[i].float,
      quoted |-> added # {} /\ \A i \in 1..Len(seen) : Quoted(seen[i])]

\* process of add-array-items forgets the error of the loop as well: the sum is that
\* of the items before the first that cannot be added.
AddItems(ss) ==
  LET stop == SelectInSeq(ss, Unaddable)
  IN Gives(Result(IF stop = 0 THEN ss ELSE SubSeq(ss, 1, stop - 1)))

-----------------------------------------------------------------------------
(***************************************************************************)
(* commons/sort-array.go                                                   *)
(***************************************************************************)
\* Mutated Before: equal items change places.
BeforeOrEqual(x, y) == x.attr = Null \/ (y.attr # Null /\ x.attr <= y.attr)

\* The comparison of sortArrayOfObjects: a null comes before everything, another
\* null included.
Before(x, y) == x.attr = Null \/ (y.attr # Null /\ x.attr < y.attr)

\* sort.SliceStable, which inserts one item after the other in up to 20.
Insert(s, x) ==
  LET i == SelectLastInSeq(s, LAMBDA y : ~Before(x, y)) IN InsertAt(s, i + 1, x)
SortStable(items) == FoldLeft(Insert, <<>>, items)

\* sortArrayOfObjects stops at the first property that is missing, or that is no null
\* and has another type than the first item's; a null there has no type.  Then, and if
\* there are only nulls, nothing is sorted.
Stops(items, it) ==
  \/ it.attr = Missing
  \/ it.attr # Null /\ (items[1].attr = Null \/ it.of # items[1].of)

SortObjects(items) ==
  LET stop == SelectInSeq(items, LAMBDA it : Stops(items, it))
  IN CASE Len(items) = 1 -> Gives(items)
       [] Len(items) # 1 /\ stop # 0 -> IF items[stop].attr = Missing THEN Fails ELSE Gives(items)
       [] OTHER -> Gives(IF items[1].attr = Null THEN items ELSE SortStable(items))

\* SortArray.  Items of several types give a null, and what is neither a string nor
\* an object the empty array.
SortArray(items) ==
  LET types == {items[i].type : i \in 1..Len(items)}
  IN CASE \E t, u \in types : t # u -> Fails
       [] types = {"string"} -> Gives(SortStable(items))
       [] types = {"object"} -> SortObjects(items)
       [] OTHER -> Gives(<<>>)

-----------------------------------------------------------------------------
(***************************************************************************)
(* set-properties, on the property of a document (doc.attr) or of each     *)
(* item of its array (doc.items).  A property to set gives the value to    *)
(* write, or Missing if it cannot be computed, and its type.  (That a      *)
(* value is appended to a property which is an array is left out.)         *)
(***************************************************************************)
ShouldBeSet(p, attr) ==
  IF p.ifMissing /\ attr \notin {Missing, Null} THEN "no"
  ELSE IF p.criterion.type = "empty" THEN "yes" ELSE Verdict(p.criterion, attr, 0)

\* A document without the array is lost: what is set on it later fails.
Lost == [attr |-> Missing, items |-> NotArray, lost |-> TRUE]

SetPlain(doc, p) ==
  LET v == ShouldBeSet(p, doc.attr)
  IN IF v = "error" \/ (v = "yes" /\ (p.value = Missing \/ doc = Lost)) THEN Fails
     ELSE Gives(IF v = "yes" THEN [attr |-> p.value, items |-> doc.items] ELSE doc)

\* processWithIotaSpecifier, whose error the caller keeps in a variable of the loop
\* and forgets: the items from the failure on stay as they were.
SetEach(doc, p) ==
  LET fails(i) == LET v == ShouldBeSet(p, doc.items[i].attr)
                  IN v = "error" \/ (v = "yes" /\ p.value = Missing)
      stop == SelectInSeq([i \in 1..Len(doc.items) |-> i], fails)
      set(i) == (stop = 0 \/ i < stop) /\ ShouldBeSet(p, doc.items[i].attr) = "yes"
  IN IF ~IsArray(doc.items) THEN Gives(Lost)
     ELSE Gives([attr |-> doc.attr, items |-> [i \in 1..Len(doc.items) |->
                   IF set(i) THEN Item(doc.items[i].type, doc.items[i].id, p.value, p.of) ELSE doc.items[i]]])

SetProperty(r, p) == IF r.err THEN r ELSE IF p.each THEN SetEach(r.out, p) ELSE SetPlain(r.out, p)

SetProperties(doc, ps) == FoldLeft(SetProperty, Gives(doc), ps)
=============================================================================
