----------------------------- MODULE ArrayCalls -----------------------------
(***************************************************************************)
(* The operators on arrays (KazaamOperators), each called once on          *)
(* arguments of Calls.  What one operator answers is compared with what    *)
(* its arguments mean and with what others answer to the same arguments.   *)
(***************************************************************************)
EXTENDS KazaamOperators

CONSTANT Calls  \* the calls considered: records with a kind and arguments

VARIABLES call, answer

vars == <<call, answer>>

Unanswered == [kind |-> "none"]

Init == call \in Calls /\ answer = Unanswered

Reply(kind, x) ==
  /\ answer = Unanswered
  /\ call.kind = kind
  /\ answer' = [kind |-> kind, value |-> x]
  /\ UNCHANGED call

-----------------------------------------------------------------------------
(***************************************************************************)
(* The arguments: any array that jsonparser reads, any criteria and        *)
(* properties that the specification of an operator can ask for.           *)
(***************************************************************************)
Values == {v \in Int : v >= Null}
JsonTypes == {"string", "number", "boolean", "object", "array"}
Items ==
  [type : {"object", "number", "boolean", "array", "null"}, id : Nat, attr : Values, of : JsonTypes]
    \cup [type : {"string"}, id : Nat, attr : Nat, of : {"string"}]
ItemLists == {s \in Seq(Items) : \A i, j \in 1..Len(s) : s[i].id = s[j].id => i = j}
Arrays == ItemLists \cup {NotArray}

CriteriaKinds ==
  [type : {"empty"}]
    \cup [type : {"term"}, op : {"in", "eq"}, term : Values, parts : SUBSET Values]
    \cup [type : {"expression"}, text : BOOLEAN, default : Values, values : SUBSET Values,
          except : SUBSET Nat]
Documents == [attr : Values, items : Arrays]
Properties ==
  [each : BOOLEAN, ifMissing : BOOLEAN, value : Values, of : JsonTypes, criterion : CriteriaKinds]

WellFormed(c) ==
  /\ c.kind = "select" =>
       c.items \in Arrays /\ c.criteria \in Seq(CriteriaKinds) /\ c.transform \subseteq Nat
  /\ c.kind \in {"sort", "group"} => c.items \in ItemLists
  /\ c.kind = "measure" => c.arrays \in Seq(Arrays)
  /\ c.kind = "set" => c.doc \in Documents /\ c.props \in Seq(Properties)

ASSUME CallsAssumption == \A c \in Calls : WellFormed(c)

-----------------------------------------------------------------------------
Select ==
  LET shift(filter, flatten) ==
        ShiftArrayItems(call.items, FALSE, call.criteria, filter, flatten, call.transform)
  IN Reply("select", [filter |-> FilterArrayItems(call.items, FALSE, call.criteria),
                      shift |-> shift(TRUE, FALSE), flat |-> shift(TRUE, TRUE), whole |-> shift(FALSE, FALSE)])
Sort == Reply("sort", SortArray(call.items))
Group ==
  /\ call.kind = "group"
  /\ \E distinct \in DistinctItems(call.items) :
       Reply("group", [distinct |-> distinct, reduce |-> ReduceArray(call.items)])
Measure ==
  LET lens == LenArrays(call.arrays).out
      summands == [i \in 1..Len(lens) |->
                     [type |-> IF lens[i] = Missing THEN "missing" ELSE "number",
                      n |-> lens[i], float |-> FALSE]]
  IN Reply("measure", [merged |-> MergeItems(call.arrays), lens |-> lens,
                       added |-> AddItems(summands).out,
                       filtered |-> FilterArrayItems(call.arrays, TRUE, <<>>),
                       shifted |-> ShiftArrayItems(call.arrays, TRUE, <<>>, FALSE, FALSE, Nat),
                       function |-> FoldLeft(MergeFunction, [type |-> "none"],
                                      [i \in 1..Len(call.arrays) |->
                                         IF IsArray(call.arrays[i])
                                           THEN [type |-> "array", items |-> call.arrays[i]]
                                           ELSE [type |-> "none"]])])
SetProps ==
  Reply("set", [once |-> SetProperties(call.doc, call.props),
                twice |-> SetProperties(call.doc, call.props \o call.props)])

ArrayNext ==
  \/ Select
  \/ Sort
  \/ Group
  \/ Measure
  \/ SetProps

\* A call of another kind is answered by another module (FunctionCalls).
Elsewhere ==
  /\ answer = Unanswered
  /\ call.kind \notin {"select", "sort", "group", "measure", "set"}
  /\ answer'.kind = call.kind
  /\ UNCHANGED call

ArraySpec == Init /\ [][ArrayNext \/ Elsewhere]_vars

-----------------------------------------------------------------------------
Ids(s) == [i \in 1..Len(s) |-> s[i].id]

\* Without the index, filter-array-items and a filtering shift-array-items choose the
\* same items, and a shift that does not filter keeps every item in its place.  With
\* the index they differ: filter counts the items accepted, shift those seen.  A flat
\* answer is the only item of the answer that is not.
SelectionsAgree ==
  LET r == answer.value
      indexed == \E i \in 1..Len(call.criteria) :
                   call.criteria[i].type = "expression" /\ call.criteria[i].except # {}
  IN answer.kind = "select" =>
       /\ ~r.whole.err => Ids(r.whole.out) = Ids(call.items) /\ ~r.shift.err
       /\ ~indexed /\ ~r.shift.err => ~r.filter.err /\ Ids(r.filter.out) = Ids(r.shift.out)
       /\ ~indexed /\ ~r.filter.err /\ ToSet(Ids(call.items)) \subseteq call.transform => ~r.shift.err
       /\ ~r.flat.err /\ Len(r.shift.out) = 1 => <<r.flat.out>> = r.shift.out

\* A sorted array has the same items, those without a value in front and the others in
\* order, two of the same value as they were.  It is left as it was if the first item
\* has a null, or some other has a value of another type than the first; no error
\* tells of that.
SortOrders ==
  LET r == answer.value.out
      place(x) == SelectInSeq(call.items, LAMBDA y : y = x)
      comparable == \A i \in 1..Len(call.items) :
                      call.items[i].attr = Null \/ call.items[i].of = call.items[1].of
  IN answer.kind = "sort" /\ ~answer.value.err /\ r # <<>> =>
       /\ Len(r) = Len(call.items) /\ ToSet(r) = ToSet(call.items)
       /\ call.items[1].attr = Null \/ ~comparable => r = call.items
       /\ call.items[1].attr # Null /\ comparable =>
            \A i, j \in 1..Len(r) : i < j =>
              \/ r[i].attr = Null
              \/ r[i].attr < r[j].attr
              \/ r[i].attr = r[j].attr /\ place(r[i]) < place(r[j])

\* Items are neither invented nor lost nor put out of order by what chooses or orders
\* them (filter-array-items, shift-array-items, _sortArray).
ItemsSelected == SelectionsAgree /\ SortOrders

\* distinct-items and reduce-array keep the same item of a name, each once.  Where one
\* fails the other does, but for the names that are no strings: distinct-items takes a
\* null, a number or anything else by its text, reduce-array refuses them.
GroupsAgree ==
  LET d == answer.value.distinct
      r == answer.value.reduce
  IN answer.kind = "group" =>
       /\ r.err = (d.err \/ \E i \in 1..Len(call.items) : ~IsName(call.items[i]))
       /\ ~d.err => \A i, j \in 1..Len(d.out) : d.out[i].attr = d.out[j].attr => i = j
       /\ ~r.err => /\ {d.out[i].attr : i \in 1..Len(d.out)} \ {0} = DOMAIN r.out
                    /\ \A i \in 1..Len(d.out) : d.out[i].attr # 0 => r.out[d.out[i].attr] = d.out[i].id

\* When merge-arrays answers, it answers as many items as add-array-items counts in the
\* lengths that len-arrays wrote, even where an array is missing, the failure of the
\* loop is forgotten by all three, and filter-array-items fails.  The function of the
\* same name, for which a missing array is nothing to merge, answers at least as much.
MeasuresAgree ==
  LET r == answer.value
      total == IF r.function.type = "none" THEN <<>> ELSE r.function.items
  IN answer.kind = "measure" =>
       /\ r.filtered.err = r.shifted.err
       /\ ~r.merged.err => Len(r.merged.out) = r.added.sum /\ IsPrefix(r.merged.out, total)
       /\ ~r.filtered.err => ~r.merged.err /\ r.merged.out = total /\ total = FlattenSeq(call.arrays)

\* Among properties to set only where they are missing, a value that is there is never
\* replaced, unless the document is lost; and what was set, if not to null, is not set
\* again.  (If a criterion fails on an item the loop leaves the items after it alone,
\* and nobody hears of it: the same properties may set them the next time.)
SetOnce ==
  LET r == answer.value
      kept(old, new) == old \in {Missing, Null} \/ new = old
      sound(p) == /\ p.value # Null
                  /\ p.each /\ IsArray(call.doc.items) =>
                       \A i \in 1..Len(call.doc.items) : ShouldBeSet(p, call.doc.items[i].attr) # "error"
  IN answer.kind = "set" /\ ~r.once.err /\ r.once.out # Lost
       /\ (\A i \in 1..Len(call.props) : call.props[i].ifMissing) =>
       /\ kept(call.doc.attr, r.once.out.attr)
       /\ IsArray(call.doc.items) =>
            \A i \in 1..Len(call.doc.items) : kept(call.doc.items[i].attr, r.once.out.items[i].attr)
       /\ (\A i \in 1..Len(call.props) : sound(call.props[i])) => r.twice = r.once

\* What several operators say of the same arrays fits together, failures included.
ArraysAccountedFor == GroupsAgree /\ MeasuresAgree /\ SetOnce
=============================================================================
