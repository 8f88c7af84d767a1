-------------------------- MODULE ArrayCallsProofs --------------------------
(***************************************************************************)
(* What the operators on arrays answer, for lists of any length, any       *)
(* criteria and any properties (ArrayCalls).                               *)
(***************************************************************************)
EXTENDS ArrayCalls, SequenceTheorems, FiniteSetTheorems, FunctionTheorems, TLAPS

-----------------------------------------------------------------------------
(***************************************************************************)
(* Folds.  The library writes a fold as a recursive function on sets of    *)
(* indexes; it is shown to be a walk, a function on 0..n of what each turn *)
(* leaves. Induction on the turns comes from a smallest set of them.       *)
(***************************************************************************)
\* A property of some set of subsets of 1..n is one of a set with no smaller one.
LEMMA SmallestSubset ==
  ASSUME NEW S, IsFiniteSet(S), NEW B, B \subseteq SUBSET S, B # {}
  PROVE  \E T \in B : \A U \in B : U \subseteq T => U = T
<1>1. IsWellFoundedOn(StrictSubsetOrdering(S), SUBSET S)
  BY FS_StrictSubsetOrderingWellFounded, FS_FiniteSubsetsOfFinite
<1>2. PICK T \in B : \A U \in B : ~ (<<U, T>> \in StrictSubsetOrdering(S))
  BY <1>1, WFMin
<1>3. ASSUME NEW U \in B, U \subseteq T PROVE U = T
  BY <1>2, <1>3 DEF StrictSubsetOrdering
<1> QED
  BY <1>3

\* A set of indexes has a least and a greatest one.
LEMMA Extremes ==
  ASSUME NEW n \in Nat, NEW S \in SUBSET (1..n), S # {}
  PROVE  /\ \E x \in S : \A y \in S : x =< y
         /\ \E x \in S : \A y \in S : x >= y
<1> DEFINE Worse == {T \in SUBSET (1..n) : T # {} /\ ~ \E x \in T : \A y \in T : x =< y}
           Bad == {T \in SUBSET (1..n) : T # {} /\ ~ \E x \in T : \A y \in T : x >= y}
           N == 1..n
<1>1. IsFiniteSet(N)
  BY FS_Interval
<1>2. Worse = {}
  <2> SUFFICES ASSUME Worse # {} PROVE FALSE
    OBVIOUS
  <2>1. PICK T \in Worse : \A U \in Worse : U \subseteq T => U = T
    <3>1. Worse \subseteq SUBSET N
      OBVIOUS
    <3> HIDE DEF N, Worse, Bad
    <3> QED
      BY <1>1, <3>1, SmallestSubset
  <2>2. PICK z \in T : TRUE
    OBVIOUS
  <2>3. T \ {z} \notin Worse
    BY <2>1, <2>2
  <2>4. PICK x \in T : \A y \in T \ {z} : T = {z} \/ (x =< y /\ x # z)
    BY <2>2, <2>3
  <2>5. x \in 1..n /\ z \in 1..n /\ \A y \in T : y \in 1..n
    BY <2>2, <2>4
  <2>6. (\A y \in T : x =< y) \/ (\A y \in T : z =< y)
    BY <2>4, <2>5
  <2> QED
    BY <2>2, <2>4, <2>6
<1>3. Bad = {}
  <2> SUFFICES ASSUME Bad # {} PROVE FALSE
    OBVIOUS
  <2>1. PICK T \in Bad : \A U \in Bad : U \subseteq T => U = T
    <3>1. Bad \subseteq SUBSET N
      OBVIOUS
    <3> HIDE DEF N, Worse, Bad
    <3> QED
      BY <1>1, <3>1, SmallestSubset
  <2>2. PICK z \in T : TRUE
    OBVIOUS
  <2>3. T \ {z} \notin Bad
    BY <2>1, <2>2
  <2>4. PICK x \in T : \A y \in T \ {z} : T = {z} \/ (x >= y /\ x # z)
    BY <2>2, <2>3
  <2>5. x \in 1..n /\ z \in 1..n /\ \A y \in T : y \in 1..n
    BY <2>2, <2>4
  <2>6. (\A y \in T : x >= y) \/ (\A y \in T : z >= y)
    BY <2>4, <2>5
  <2> QED
    BY <2>2, <2>4, <2>6
<1> QED
  BY <1>2, <1>3

\* Induction up to n, on a set of numbers.
LEMMA Reaches ==
  ASSUME NEW n \in Nat, NEW S, 0 \in S, \A k \in 1..n : k - 1 \in S => k \in S
  PROVE  \A k \in 0..n : k \in S
<1> DEFINE Bad == {k \in 1..n : k \notin S}
<1> SUFFICES ASSUME Bad # {} PROVE FALSE
  OBVIOUS
<1>1. PICK m \in Bad : \A k \in Bad : m =< k
  <2>1. Bad \in SUBSET (1..n)
    OBVIOUS
  <2> HIDE DEF Bad
  <2> QED
    BY <2>1, Extremes
<1>2. m \in 1..n /\ m - 1 \notin S
  OBVIOUS
<1>3. m - 1 \in 1..n
  BY <1>2
<1> QED
  BY <1>1, <1>2, <1>3

\* What Max and Min of the library choose.
LEMMA Greatest ==
  ASSUME NEW n \in Nat, NEW S \in SUBSET (1..n), S # {}
  PROVE  Max(S) \in S /\ \A y \in S : Max(S) >= y
BY Extremes DEF Max

\* So for Min.
LEMMA Least ==
  ASSUME NEW n \in Nat, NEW S \in SUBSET (1..n), S # {}
  PROVE  Min(S) \in S /\ \A y \in S : Min(S) =< y
BY Extremes DEF Min

\* The turns that a fold makes up to k.
LEMMA UpToTurn ==
  ASSUME NEW n \in Nat, NEW k \in 1..n
  PROVE  /\ 1..k \in SUBSET (1..n) /\ 1..k # {} /\ Max(1..k) = k /\ (1..k) \ {k} = 1..(k - 1)
<1>1. 1..k \in SUBSET (1..n) /\ 1..k # {} /\ k \in 1..k /\ (1..k) \ {k} = 1..(k - 1)
  OBVIOUS
<1> DEFINE m == Max(1..k)
<1>2. m \in 1..k /\ \A y \in 1..k : m >= y
  BY <1>1, Greatest
<1> HIDE DEF m
<1>3. m = k
  BY <1>1, <1>2
<1> QED
  BY <1>1, <1>3 DEF m

\* The folds of SequencesExt are loops over sets of indexes.
IsLoop(g, base, op, seq, k) ==
  \A s \in SUBSET (1..k) : g[s] = IF s = {} THEN base ELSE op[<<g[s \ {Max(s)}], seq[Max(s)]>>]

\* Such a loop exists, whatever a turn of it does with what the turns before it left.
LEMMA LoopExists ==
  ASSUME NEW n \in Nat, NEW A, NEW base \in A, NEW E, NEW op \in [A \X E -> A], NEW seq \in [1..n -> E]
  PROVE  \E g \in [SUBSET (1..n) -> A] : IsLoop(g, base, op, seq, n)
<1> DEFINE Done == {k \in 0..n : \E g \in [SUBSET (1..k) -> A] : IsLoop(g, base, op, seq, k)}
<1>1. 0 \in Done
  <2> DEFINE g == [s \in SUBSET (1..0) |-> base]
  <2>1. g \in [SUBSET (1..0) -> A]
    OBVIOUS
  <2>2. SUBSET (1..0) = {{}}
    OBVIOUS
  <2>3. IsLoop(g, base, op, seq, 0)
    BY <2>2 DEF IsLoop
  <2> HIDE DEF g
  <2>4. 0 \in 0..n /\ \E f \in [SUBSET (1..0) -> A] : IsLoop(f, base, op, seq, 0)
    BY <2>1, <2>3
  <2> QED
    BY <2>4
<1>2. ASSUME NEW k \in 1..n, k - 1 \in Done PROVE k \in Done
  <2>1. PICK g \in [SUBSET (1..(k - 1)) -> A] : IsLoop(g, base, op, seq, k - 1)
    BY <1>2
  <2> HIDE DEF Done
  <2> DEFINE h == [s \in SUBSET (1..k) |-> IF k \in s THEN op[<<g[s \ {k}], seq[k]>>] ELSE g[s]]
  <2>2. seq[k] \in E /\ k \in Nat
    OBVIOUS
  <2>3. \A s \in SUBSET (1..k) : /\ s \ {k} \in SUBSET (1..(k - 1))
                                 /\ k \notin s => s \in SUBSET (1..(k - 1))
    OBVIOUS
  <2>4. \A s \in SUBSET (1..k) : k \in s => s # {} /\ Max(s) = k
    <3> SUFFICES ASSUME NEW s \in SUBSET (1..k), k \in s PROVE Max(s) = k
      OBVIOUS
    <3> DEFINE m == Max(s)
    <3>1. m \in s /\ m >= k
      BY <2>2, Greatest
    <3>2. m \in 1..k
      BY <3>1
    <3> HIDE DEF m
    <3>3. m = k
      BY <3>1, <3>2
    <3> QED
      BY <3>3 DEF m
  <2>5. \A s \in SUBSET (1..k) : h[s] \in A
    <3> SUFFICES ASSUME NEW s \in SUBSET (1..k) PROVE h[s] \in A
      OBVIOUS
    <3>1. CASE k \in s
      <4>1. <<g[s \ {k}], seq[k]>> \in A \X E
        BY <2>2, <2>3
      <4> QED
        BY <3>1, <4>1
    <3>2. CASE k \notin s
      BY <2>3, <3>2
    <3> QED
      BY <3>1, <3>2
  <2>6. IsLoop(h, base, op, seq, k)
    <3> SUFFICES ASSUME NEW s \in SUBSET (1..k)
                 PROVE  h[s] = IF s = {} THEN base ELSE op[<<h[s \ {Max(s)}], seq[Max(s)]>>]
      BY DEF IsLoop
    <3>1. CASE k \in s
      <4>1. h[s \ {k}] = g[s \ {k}] /\ Max(s) = k /\ s # {}
        BY <2>3, <2>4, <3>1
      <4> QED
        BY <3>1, <4>1
    <3>2. CASE k \notin s
      <4>1. h[s] = g[s] /\ s \in SUBSET (1..(k - 1))
        BY <2>3, <3>2
      <4>2. s # {} => h[s \ {Max(s)}] = g[s \ {Max(s)}]
        BY <2>3, <3>2, <4>1
      <4> QED
        BY <2>1, <4>1, <4>2 DEF IsLoop
    <3> QED
      BY <3>1, <3>2
  <2>7. h \in [SUBSET (1..k) -> A]
    BY <2>5
  <2> HIDE DEF h
  <2>8. k \in 0..n /\ \E f \in [SUBSET (1..k) -> A] : IsLoop(f, base, op, seq, k)
    BY <2>6, <2>7
  <2> QED
    BY <2>8 DEF Done
<1>3. n \in 0..n
  OBVIOUS
<1>4. n \in Done
  <2> HIDE DEF Done
  <2>1. \A k \in 1..n : k - 1 \in Done => k \in Done
    BY <1>2
  <2>2. \A k \in 0..n : k \in Done
    BY <1>1, <2>1, Reaches
  <2> QED
    BY <1>3, <2>2
<1> QED
  BY <1>4

-----------------------------------------------------------------------------
(***************************************************************************)
(* filter-array-items and shift-array-items are walks through the items.   *)
(***************************************************************************)
\* What an operator on arrays answers: a failure, or a list.
Answers(E) == [err : BOOLEAN, out : Seq(E)]

\* Everything an item can become.
Types == {"object", "number", "boolean", "array", "null", "string", "bare", "shifted"}
Out == [type : Types, id : Nat, attr : Values, of : JsonTypes]

\* Items, as they are and as an operator writes them back.
LEMMA ItemsOut ==
  /\ \A it \in Items : it \in Out /\ Bare(it) \in Out /\ Item("shifted", it.id, it.attr, it.of) \in Out
  /\ Fails \in Answers(Out) /\ Gives(<<>>) \in Answers(Out)
  /\ \A s \in Seq(Out) : Gives(s) \in Answers(Out)
<1>1. Nat \subseteq Values /\ "string" \in JsonTypes
  BY DEF Values, Null, JsonTypes
<1>2. ASSUME NEW it \in Items PROVE it \in Out /\ Bare(it) \in Out /\ Item("shifted", it.id, it.attr, it.of) \in Out
  <2>1. it.type \in Types /\ it.id \in Nat /\ it.attr \in Values /\ it.of \in JsonTypes /\ it = Item(it.type, it.id, it.attr, it.of)
    BY <1>1 DEF Items, Types, Item
  <2>2. \A t \in Types : Item(t, it.id, it.attr, it.of) \in Out
    BY <2>1 DEF Item, Out
  <2>3. "bare" \in Types /\ "shifted" \in Types
    BY DEF Types
  <2> QED
    BY <2>1, <2>2, <2>3 DEF Bare
<1>3. ASSUME NEW s \in Seq(Out) PROVE Gives(s) \in Answers(Out)
  BY DEF Gives, Answers
<1>4. <<>> \in Seq(Out)
  OBVIOUS
<1>5. Fails \in Answers(Out)
  BY <1>4 DEF Fails, Answers
<1> QED
  BY <1>2, <1>3, <1>4, <1>5

\* A turn of filter-array-items leaves an answer.
LEMMA FilterTurnType ==
  ASSUME NEW cs, NEW r \in Answers(Out), NEW it \in Items PROVE FilterTurn(cs, r, it) \in Answers(Out)
<1>1. r.out \in Seq(Out)
  BY DEF Answers
<1>2. Bare(it) \in Out
  BY ItemsOut
<1>3. Append(r.out, Bare(it)) \in Seq(Out)
  BY <1>1, <1>2, AppendProperties
<1> QED
  BY <1>3, ItemsOut DEF FilterTurn

\* filter-array-items is a walk through the items.
LEMMA FilterIsWalk ==
  ASSUME NEW items \in Seq(Items), NEW cs
  PROVE  \E F \in [0..Len(items) -> Answers(Out)] :
           /\ F[0] = Gives(<<>>)
           /\ \A k \in 1..Len(items) : F[k] = FilterTurn(cs, F[k - 1], items[k])
           /\ FilterArray(items, cs) = F[Len(items)]
<1> DEFINE n == Len(items)
           A == Answers(Out)
           op == [p \in A \X Items |-> FilterTurn(cs, p[1], p[2])]
           Loop(f) == [s \in SUBSET (DOMAIN items) |-> IF s = {} THEN Gives(<<>>)
                         ELSE FilterTurn(cs, f[s \ {Max(s)}], items[Max(s)])]
           h == CHOOSE f : f = Loop(f)
           F == [k \in 0..n |-> h[1..k]]
<1>1. n \in Nat /\ items \in [1..n -> Items] /\ DOMAIN items = 1..n
  OBVIOUS
<1>2. op \in [A \X Items -> A] /\ \A a \in A, x \in Items : op[<<a, x>>] = FilterTurn(cs, a, x)
  BY FilterTurnType
<1>3. Gives(<<>>) \in A
  BY ItemsOut
<1>4. PICK g \in [SUBSET (1..n) -> A] : IsLoop(g, Gives(<<>>), op, items, n)
  <2> HIDE DEF n, A, op
  <2> QED
    BY <1>1, <1>2, <1>3, LoopExists
<1>5. g = Loop(g)
  <2>1. \A s \in SUBSET (1..n) : s # {} => Max(s) \in 1..n /\ s \ {Max(s)} \in SUBSET (1..n)
    BY <1>1, Greatest
  <2>2. \A s \in SUBSET (1..n) : g[s] = Loop(g)[s]
    <3> HIDE DEF op, A
    <3> QED
      BY <1>1, <1>2, <1>4, <2>1 DEF IsLoop
  <2> QED
    BY <1>1, <2>2
<1>6. h = Loop(h)
  <2> HIDE DEF Loop
  <2> QED
    BY <1>5
<1>7. FilterArray(items, cs) = h[DOMAIN items]
  BY Zenon DEF FilterArray, FoldLeft, MapThenFoldSet
<1> HIDE DEF h
<1>8. h[1..0] = Gives(<<>>)
  BY <1>1, <1>6
<1>9. \A k \in 1..n : h[1..k] = FilterTurn(cs, h[1..(k - 1)], items[k])
  <2>1. \A s \in SUBSET (1..n) : s # {} => h[s] = FilterTurn(cs, h[s \ {Max(s)}], items[Max(s)])
    BY <1>1, <1>6
  <2> HIDE DEF n
  <2> TAKE k \in 1..n
  <2>2. 1..k \in SUBSET (1..n) /\ 1..k # {} /\ Max(1..k) = k /\ (1..k) \ {k} = 1..(k - 1)
    BY <1>1, UpToTurn
  <2>3. h[1..k] = FilterTurn(cs, h[(1..k) \ {Max(1..k)}], items[Max(1..k)])
    BY <2>1, <2>2
  <2> QED
    BY <2>2, <2>3
<1>10. F[0] = Gives(<<>>) /\ \A k \in 1..n : F[k] = FilterTurn(cs, F[k - 1], items[k])
  BY <1>1, <1>8, <1>9
<1>11. \A k \in 0..n : F[k] \in A
  <2> DEFINE S == {k \in 0..n : F[k] \in A}
  <2>1. 0 \in S /\ \A k \in 1..n : k - 1 \in S => k \in S
    BY <1>1, <1>3, <1>10, FilterTurnType
  <2> HIDE DEF S
  <2>2. \A k \in 0..n : k \in S
    BY <1>1, <2>1, Reaches
  <2> QED
    BY <2>2 DEF S
<1>12. F \in [0..n -> A] /\ FilterArray(items, cs) = F[n]
  BY <1>1, <1>7, <1>11
<1> HIDE DEF F
<1> QED
  BY <1>10, <1>12

\* A turn of shift-array-items leaves one as well.
LEMMA ShiftTurnType ==
  ASSUME NEW items \in Seq(Items), NEW cs, NEW filterItems, NEW transform,
         NEW r \in Answers(Out), NEW i \in 1..Len(items)
  PROVE  ShiftTurn(items, cs, filterItems, transform, r, i) \in Answers(Out)
<1> DEFINE it == items[i]
<1>1. it \in Items /\ r.out \in Seq(Out)
  BY DEF Answers
<1> HIDE DEF it
<1>2. it \in Out /\ Item("shifted", it.id, it.attr, it.of) \in Out
  BY <1>1, ItemsOut
<1>3. Append(r.out, it) \in Seq(Out) /\ Append(r.out, Item("shifted", it.id, it.attr, it.of)) \in Seq(Out)
  BY <1>1, <1>2, AppendProperties
<1>4. Gives(Append(r.out, it)) \in Answers(Out) /\ Gives(Append(r.out, Item("shifted", it.id, it.attr, it.of))) \in Answers(Out)
  BY <1>3, ItemsOut
<1> QED
  BY <1>4, ItemsOut DEF ShiftTurn, it

\* So is shift-array-items.
LEMMA ShiftIsWalk ==
  ASSUME NEW items \in Seq(Items), NEW cs, NEW filterItems, NEW transform
  PROVE  \E F \in [0..Len(items) -> Answers(Out)] :
           /\ F[0] = Gives(<<>>)
           /\ \A k \in 1..Len(items) : F[k] = ShiftTurn(items, cs, filterItems, transform, F[k - 1], k)
           /\ ShiftItems(items, cs, filterItems, transform) = F[Len(items)]
<1> DEFINE n == Len(items)
           A == Answers(Out)
           E == 1..Len(items)
           q == [i \in DOMAIN items |-> i]
           op == [p \in A \X E |-> ShiftTurn(items, cs, filterItems, transform, p[1], p[2])]
           Loop(f) == [s \in SUBSET (DOMAIN q) |-> IF s = {} THEN Gives(<<>>)
                         ELSE ShiftTurn(items, cs, filterItems, transform, f[s \ {Max(s)}], q[Max(s)])]
           h == CHOOSE f : f = Loop(f)
           F == [k \in 0..n |-> h[1..k]]
<1>1. n \in Nat /\ q \in [1..n -> E] /\ DOMAIN q = 1..n /\ \A k \in 1..n : q[k] = k
  OBVIOUS
<1>2. \A a \in A, x \in E : ShiftTurn(items, cs, filterItems, transform, a, x) \in A
  BY ShiftTurnType
<1>3. Gives(<<>>) \in A
  BY ItemsOut
<1>4. op \in [A \X E -> A] /\ \A a \in A, x \in E : op[<<a, x>>] = ShiftTurn(items, cs, filterItems, transform, a, x)
  <2> HIDE DEF A, E, q, n
  <2> QED
    BY <1>2
<1>5. PICK g \in [SUBSET (1..n) -> A] : IsLoop(g, Gives(<<>>), op, q, n)
  <2> HIDE DEF n, A, E, op, q
  <2> QED
    BY <1>1, <1>3, <1>4, LoopExists
<1>6. g = Loop(g)
  <2> HIDE DEF op, A, E, q, n
  <2>1. \A s \in SUBSET (1..n) : s # {} => Max(s) \in 1..n /\ s \ {Max(s)} \in SUBSET (1..n)
    BY <1>1, Greatest
  <2>2. \A s \in SUBSET (1..n) : g[s] = Loop(g)[s]
    BY <1>1, <1>4, <1>5, <2>1 DEF IsLoop
  <2> QED
    BY <1>1, <2>2
<1>7. h = Loop(h)
  <2> HIDE DEF Loop
  <2> QED
    BY <1>6
<1>8. ShiftItems(items, cs, filterItems, transform) = h[DOMAIN q]
  BY Zenon DEF ShiftItems, FoldLeftDomain, FoldLeft, MapThenFoldSet
<1> HIDE DEF h, q, A, E, n
<1>9. F[0] = Gives(<<>>)
  BY <1>1, <1>7
<1>10. \A k \in 1..n : F[k] = ShiftTurn(items, cs, filterItems, transform, F[k - 1], q[k])
  <2>1. \A s \in SUBSET (1..n) : s # {} => h[s] = ShiftTurn(items, cs, filterItems, transform, h[s \ {Max(s)}], q[Max(s)])
    BY <1>1, <1>7
  <2>2. \A k \in 1..n : h[1..k] = ShiftTurn(items, cs, filterItems, transform, h[1..(k - 1)], q[k])
    <3> HIDE DEF F
    <3> TAKE k \in 1..n
    <3>1. 1..k \in SUBSET (1..n) /\ 1..k # {} /\ Max(1..k) = k /\ (1..k) \ {k} = 1..(k - 1)
      BY <1>1, UpToTurn
    <3>2. h[1..k] = ShiftTurn(items, cs, filterItems, transform, h[(1..k) \ {Max(1..k)}], q[Max(1..k)])
      BY <2>1, <3>1
    <3> QED
      BY <3>1, <3>2
  <2>3. \A k \in 1..n : k \in 0..n /\ k - 1 \in 0..n
    BY <1>1
  <2> QED
    BY <2>2, <2>3
<1>11. \A k \in 0..n : F[k] \in A
  <2> DEFINE S == {k \in 0..n : F[k] \in A}
  <2>1. 0 \in S
    BY <1>1, <1>3, <1>9
  <2>2. ASSUME NEW k \in 1..n, k - 1 \in S PROVE k \in S
    <3>1. k \in 0..n /\ F[k - 1] \in A /\ q[k] \in E
      BY <1>1, <2>2
    <3> HIDE DEF F
    <3> QED
      BY <1>2, <1>10, <3>1
  <2> HIDE DEF S
  <2>3. \A k \in 0..n : k \in S
    BY <1>1, <2>1, <2>2, Reaches
  <2> QED
    BY <2>3 DEF S
<1>12. F \in [0..n -> A] /\ ShiftItems(items, cs, filterItems, transform) = F[n]
  <2>1. n \in 0..n
    BY <1>1
  <2>2. F[n] = h[DOMAIN q]
    BY <1>1, <2>1
  <2>3. ShiftItems(items, cs, filterItems, transform) = F[n]
    BY <1>8, <2>2, Zenon
  <2> QED
    BY <1>11, <2>3
<1>13. \A k \in 1..n : F[k] = ShiftTurn(items, cs, filterItems, transform, F[k - 1], k)
  BY <1>1, <1>10
<1> HIDE DEF F
<1>14. \E G \in [0..n -> A] : G[0] = Gives(<<>>) /\ (\A k \in 1..n : G[k] = ShiftTurn(items, cs, filterItems, transform, G[k - 1], k))
                                /\ ShiftItems(items, cs, filterItems, transform) = G[n]
  BY <1>9, <1>12, <1>13
<1> QED
  BY <1>14 DEF n, A

-----------------------------------------------------------------------------
(***************************************************************************)
(* So is the insertion sort.                                               *)
(***************************************************************************)
\* InsertAt of the library, item by item.
LEMMA InsertAtIs ==
  ASSUME NEW s, NEW p, NEW x
  PROVE  InsertAt(s, p, x) = (SubSeq(s, 1, p - 1) \o <<x>>) \o SubSeq(s, p, Len(s))
BY DEF InsertAt

\* t is s with x behind the i-th, the last item that it does not come before.
InsertedAt(s, x, t, i) ==
  /\ Len(t) = Len(s) + 1
  /\ \A j \in 1..(Len(s) + 1) : t[j] = IF j =< i THEN s[j] ELSE IF j = i + 1 THEN x ELSE s[j - 1]
  /\ i > 0 => ~Before(x, s[i])
  /\ \A j \in 1..Len(s) : j > i => Before(x, s[j])

\* Insert puts an item behind the last that it does not come before.
LEMMA InsertIs ==
  ASSUME NEW E, NEW s \in Seq(E), NEW x \in E
  PROVE  Insert(s, x) \in Seq(E) /\ \E i \in 0..Len(s) : InsertedAt(s, x, Insert(s, x), i)
<1> DEFINE n == Len(s)
           I == {j \in 1..n : ~Before(x, s[j])}
           i == IF I # {} THEN Max(I) ELSE 0
           p == i + 1
           t == InsertAt(s, p, x)
<1>1. n \in Nat /\ I \in SUBSET (1..n)
  OBVIOUS
<1>2. Insert(s, x) = t
  BY DEF Insert, SelectLastInSeq
<1>3. /\ i \in 0..n
      /\ i > 0 => i \in 1..n /\ ~Before(x, s[i])
      /\ \A j \in 1..n : j > i => Before(x, s[j])
  <2>1. CASE I = {}
    BY <1>1, <2>1
  <2>2. CASE I # {}
    <3>1. i \in I /\ \A j \in I : i >= j
      BY <1>1, <2>2, Greatest
    <3> HIDE DEF i
    <3>2. i \in 0..n /\ (i > 0 => i \in 1..n /\ ~Before(x, s[i]))
      BY <3>1
    <3>3. \A j \in 1..n : j > i => j \notin I
      BY <3>1
    <3> QED
      BY <3>2, <3>3
  <2> QED
    BY <2>1, <2>2
<1> HIDE DEF i
<1> DEFINE a == SubSeq(s, 1, p - 1)
           b == SubSeq(s, p, n)
<1>4. a \in Seq(E) /\ Len(a) = i /\ \A j \in 1..i : a[j] = s[j]
  BY <1>1, <1>3
<1>5. b \in Seq(E) /\ Len(b) = n - i /\ \A j \in 1..(n - i) : b[j] = s[i + j]
  BY <1>1, <1>3
<1>6. t = (a \o <<x>>) \o b
  <2> HIDE DEF p
  <2> QED
    BY InsertAtIs
<1> HIDE DEF a, b, t, n
<1> DEFINE c == a \o <<x>>
<1>7. <<x>> \in Seq(E) /\ Len(<<x>>) = 1 /\ <<x>>[1] = x
  OBVIOUS
<1>8. c \in Seq(E) /\ Len(c) = i + 1 /\ \A j \in 1..(i + 1) : c[j] = IF j =< i THEN s[j] ELSE x
  BY <1>1, <1>3, <1>4, <1>7
<1>9. t = c \o b
  BY <1>6
<1> HIDE DEF c
<1>10. t \in Seq(E) /\ Len(t) = n + 1
  BY <1>1, <1>3, <1>5, <1>8, <1>9
<1>11. \A j \in 1..(n + 1) : t[j] = IF j =< i + 1 THEN c[j] ELSE b[j - (i + 1)]
  BY <1>1, <1>3, <1>5, <1>8, <1>9
<1>12. \A j \in 1..(n + 1) : t[j] = IF j =< i THEN s[j] ELSE IF j = i + 1 THEN x ELSE s[j - 1]
  <2> SUFFICES ASSUME NEW j \in 1..(n + 1)
               PROVE  t[j] = IF j =< i THEN s[j] ELSE IF j = i + 1 THEN x ELSE s[j - 1]
    OBVIOUS
  <2>1. CASE j =< i + 1
    BY <1>1, <1>3, <1>8, <1>11, <2>1
  <2>2. CASE j > i + 1
    <3>1. j - (i + 1) \in 1..(n - i) /\ i + (j - (i + 1)) = j - 1
      BY <1>1, <1>3, <2>2
    <3>2. b[j - (i + 1)] = s[j - 1]
      BY <1>5, <3>1
    <3> QED
      BY <1>1, <1>3, <1>11, <2>2, <3>2
  <2> QED
    BY <1>1, <1>3, <2>1, <2>2
<1>13. /\ t \in Seq(E) /\ Len(t) = n + 1
       /\ \A j \in 1..n + 1 : t[j] = IF j =< i THEN s[j] ELSE IF j = i + 1 THEN x ELSE s[j - 1]
  BY <1>10, <1>12
<1>14. i \in 0..Len(s) /\ InsertedAt(s, x, t, i)
  BY <1>3, <1>13 DEF InsertedAt, n
<1> QED
  BY <1>2, <1>13, <1>14

\* Insert leaves a list of items, one longer.
LEMMA InsertType ==
  ASSUME NEW s \in Seq(Items), NEW x \in Items PROVE Insert(s, x) \in Seq(Items)
BY InsertIs

\* The sort inserts one item after the other.
LEMMA SortIsWalk ==
  ASSUME NEW items \in Seq(Items)
  PROVE  \E F \in [0..Len(items) -> Seq(Items)] :
           /\ F[0] = <<>>
           /\ \A k \in 1..Len(items) : F[k] = Insert(F[k - 1], items[k])
           /\ SortStable(items) = F[Len(items)]
<1> DEFINE n == Len(items)
           A == Seq(Items)
           E == Items
           q == items
           op == [p \in A \X E |-> Insert(p[1], p[2])]
           Loop(f) == [s \in SUBSET (DOMAIN q) |-> IF s = {} THEN <<>>
                         ELSE Insert(f[s \ {Max(s)}], q[Max(s)])]
           h == CHOOSE f : f = Loop(f)
           F == [k \in 0..n |-> h[1..k]]
<1>1. n \in Nat /\ q \in [1..n -> E] /\ DOMAIN q = 1..n /\ \A k \in 1..n : q[k] = items[k]
  OBVIOUS
<1>2. \A a \in A, x \in E : Insert(a, x) \in A
  BY InsertType
<1>3. <<>> \in A
  BY EmptySeq
<1>4. op \in [A \X E -> A] /\ \A a \in A, x \in E : op[<<a, x>>] = Insert(a, x)
  <2> HIDE DEF A, E, q, n
  <2> QED
    BY <1>2
<1>5. PICK g \in [SUBSET (1..n) -> A] : IsLoop(g, <<>>, op, q, n)
  <2> HIDE DEF n, A, E, op, q
  <2> QED
    BY <1>1, <1>3, <1>4, LoopExists
<1>6. g = Loop(g)
  <2> HIDE DEF op, A, E, q, n
  <2>1. \A s \in SUBSET (1..n) : s # {} => Max(s) \in 1..n /\ s \ {Max(s)} \in SUBSET (1..n)
    BY <1>1, Greatest
  <2>2. \A s \in SUBSET (1..n) : g[s] = Loop(g)[s]
    BY <1>1, <1>4, <1>5, <2>1 DEF IsLoop
  <2> QED
    BY <1>1, <2>2
<1>7. h = Loop(h)
  <2> HIDE DEF Loop
  <2> QED
    BY <1>6
<1>8. SortStable(items) = h[DOMAIN q]
  BY Zenon DEF SortStable, FoldLeft, MapThenFoldSet
<1> HIDE DEF h, q, A, E, n
<1>9. F[0] = <<>>
  BY <1>1, <1>7
<1>10. \A k \in 1..n : F[k] = Insert(F[k - 1], q[k])
  <2>1. \A s \in SUBSET (1..n) : s # {} => h[s] = Insert(h[s \ {Max(s)}], q[Max(s)])
    BY <1>1, <1>7
  <2>2. \A k \in 1..n : h[1..k] = Insert(h[1..(k - 1)], q[k])
    <3> HIDE DEF F
    <3> TAKE k \in 1..n
    <3>1. 1..k \in SUBSET (1..n) /\ 1..k # {} /\ Max(1..k) = k /\ (1..k) \ {k} = 1..(k - 1)
      BY <1>1, UpToTurn
    <3>2. h[1..k] = Insert(h[(1..k) \ {Max(1..k)}], q[Max(1..k)])
      BY <2>1, <3>1
    <3> QED
      BY <3>1, <3>2
  <2>3. \A k \in 1..n : k \in 0..n /\ k - 1 \in 0..n
    BY <1>1
  <2> QED
    BY <2>2, <2>3
<1>11. \A k \in 0..n : F[k] \in A
  <2> DEFINE S == {k \in 0..n : F[k] \in A}
  <2>1. 0 \in S
    BY <1>1, <1>3, <1>9
  <2>2. ASSUME NEW k \in 1..n, k - 1 \in S PROVE k \in S
    <3>1. k \in 0..n /\ F[k - 1] \in A /\ q[k] \in E
      BY <1>1, <2>2
    <3> HIDE DEF F
    <3> QED
      BY <1>2, <1>10, <3>1
  <2> HIDE DEF S
  <2>3. \A k \in 0..n : k \in S
    BY <1>1, <2>1, <2>2, Reaches
  <2> QED
    BY <2>3 DEF S
<1>12. F \in [0..n -> A] /\ SortStable(items) = F[n]
  <2>1. n \in 0..n
    BY <1>1
  <2>2. F[n] = h[DOMAIN q]
    BY <1>1, <2>1
  <2>3. SortStable(items) = F[n]
    BY <1>8, <2>2, Zenon
  <2> QED
    BY <1>11, <2>3
<1>13. \A k \in 1..n : F[k] = Insert(F[k - 1], items[k])
  BY <1>1, <1>10
<1> HIDE DEF F
<1>14. \E G \in [0..n -> A] : G[0] = <<>> /\ (\A k \in 1..n : G[k] = Insert(G[k - 1], items[k]))
                                /\ SortStable(items) = G[n]
  BY <1>9, <1>12, <1>13
<1> QED
  BY <1>14 DEF n, A

-----------------------------------------------------------------------------
(***************************************************************************)
(* What filter-array-items and shift-array-items choose.                   *)
(***************************************************************************)
\* A turn of filter-array-items, by the verdict.
LEMMA FilterTurnIs ==
  ASSUME NEW cs, NEW r \in Answers(Out), NEW it, NEW v, v = Accepts(cs, it.attr, Len(r.out))
  PROVE  /\ r.err => FilterTurn(cs, r, it) = r
         /\ v = "no" => FilterTurn(cs, r, it) = r
         /\ ~r.err /\ v = "error" => FilterTurn(cs, r, it) = Fails
         /\ ~r.err /\ v # "error" /\ v # "no" => FilterTurn(cs, r, it) = Gives(Append(r.out, Bare(it)))
<1>1. r.err \in BOOLEAN
  BY DEF Answers
<1> QED
  BY <1>1, Zenon DEF FilterTurn

Filtering(items, cs, tr, r, k) == ShiftTurn(items, cs, TRUE, tr, r, k)

\* A turn of shift-array-items that filters, by the verdict.
LEMMA ShiftTurnFilters ==
  ASSUME NEW items, NEW cs, NEW tr, NEW r \in Answers(Out), NEW k \in Nat, NEW y,
         y = Filtering(items, cs, tr, r, k)
  PROVE  LET v == Accepts(cs, items[k].attr, k - 1)
         IN /\ r.err => y = r
            /\ ~r.err /\ v = "error" => y = Fails
            /\ ~r.err /\ v = "yes" /\ items[k].id \notin tr => y = Fails
            /\ ~r.err /\ v = "yes" /\ items[k].id \in tr =>
                 y = Gives(Append(r.out, Item("shifted", items[k].id, items[k].attr, items[k].of)))
            /\ ~r.err /\ v = "no" => y = r
            /\ ~r.err /\ v \notin {"error", "yes", "no"} => y = Gives(Append(r.out, items[k]))
<1>1. r.err \in BOOLEAN
  BY DEF Answers
<1>2. "yes" # "no" /\ "yes" # "error" /\ "no" # "error"
  OBVIOUS
<1> QED
  BY <1>1, <1>2, Zenon DEF Filtering, ShiftTurn

Keeping(items, cs, tr, r, k) == ShiftTurn(items, cs, FALSE, tr, r, k)

\* A turn of shift-array-items that does not, by the verdict.
LEMMA ShiftTurnKeeps ==
  ASSUME NEW items, NEW cs, NEW tr, NEW r \in Answers(Out), NEW k \in Nat, NEW y,
         y = Keeping(items, cs, tr, r, k)
  PROVE  LET v == Accepts(cs, items[k].attr, k - 1)
         IN /\ r.err => y = r
            /\ ~r.err /\ v = "error" => y = Fails
            /\ ~r.err /\ v = "yes" /\ items[k].id \notin tr => y = Fails
            /\ ~r.err /\ v = "yes" /\ items[k].id \in tr =>
                 y = Gives(Append(r.out, Item("shifted", items[k].id, items[k].attr, items[k].of)))
            /\ ~r.err /\ v = "no" => y = Gives(Append(r.out, items[k]))
            /\ ~r.err /\ v \notin {"error", "yes", "no"} => y = Gives(Append(r.out, items[k]))
<1>1. r.err \in BOOLEAN
  BY DEF Answers
<1>2. "yes" # "no" /\ "yes" # "error" /\ "no" # "error"
  OBVIOUS
<1> QED
  BY <1>1, <1>2, Zenon DEF Keeping, ShiftTurn

\* Without indexes to except, a criterion says the same of a value at any index.
LEMMA IndexIgnored ==
  ASSUME NEW cs \in Seq(CriteriaKinds),
         \A i \in 1..Len(cs) : ~(cs[i].type = "expression" /\ cs[i].except # {}),
         NEW a, NEW i, NEW j
  PROVE  Accepts(cs, a, i) = Accepts(cs, a, j)
<1>1. ASSUME NEW k \in 1..Len(cs) PROVE Verdict(cs[k], a, i) = Verdict(cs[k], a, j)
  <2>1. cs[k] \in CriteriaKinds
    OBVIOUS
  <2>2. CASE cs[k].type = "expression"
    <3>1. cs[k].except = {}
      BY <2>2
    <3>2. cs[k].type # "empty" /\ cs[k].type # "term"
      BY <2>2
    <3>3. ExpressionVerdict(cs[k], a, i) = ExpressionVerdict(cs[k], a, j)
      BY <3>1, Zenon DEF ExpressionVerdict
    <3> QED
      BY <3>2, <3>3, Zenon DEF Verdict
  <2>3. CASE cs[k].type = "empty"
    BY <2>3, Zenon DEF Verdict
  <2>4. CASE cs[k].type = "term"
    BY <2>4, Zenon DEF Verdict
  <2> QED
    BY <2>1, <2>2, <2>3, <2>4 DEF CriteriaKinds
<1>2. [k \in 1..Len(cs) |-> Verdict(cs[k], a, i)] = [k \in 1..Len(cs) |-> Verdict(cs[k], a, j)]
  BY <1>1, Zenon
<1> DEFINE Decides(vs) == LET first == SelectInSeq(vs, LAMBDA v : v # "no")
                          IN IF cs = <<>> THEN "yes" ELSE IF first = 0 THEN "no" ELSE vs[first]
<1>3. \A index : Accepts(cs, a, index) = Decides([k \in 1..Len(cs) |-> Verdict(cs[k], a, index)])
  BY DEF Accepts, SelectInSeq
<1> HIDE DEF Decides
<1> QED
  BY <1>2, <1>3

SameIds(s, t) == Len(s) = Len(t) /\ \A j \in 1..Len(s) : s[j].id = t[j].id

\* Two lists of the same ids stay so when each gets an item of the same id.
LEMMA SameIdsGrow ==
  ASSUME NEW s \in Seq(Out), NEW t \in Seq(Out), SameIds(s, t), NEW x \in Out, NEW y \in Out, x.id = y.id
  PROVE  SameIds(Append(s, x), Append(t, y))
BY DEF SameIds

\* Such lists have the same ids in the sense of ArrayCalls.
LEMMA SameIdsIsIds ==
  ASSUME NEW s \in Seq(Out), NEW t \in Seq(Out), SameIds(s, t) PROVE Ids(s) = Ids(t)
BY DEF SameIds, Ids

\* What a shift that keeps everything answers has the items in their places, and the
\* shift that filters fails in fewer cases.
LEMMA WholeFits ==
  ASSUME NEW items \in Seq(Items), NEW cs, NEW tr,
         ~ShiftItems(items, cs, FALSE, tr).err
  PROVE  /\ SameIds(ShiftItems(items, cs, FALSE, tr).out, items)
         /\ ~ShiftItems(items, cs, TRUE, tr).err
<1> DEFINE n == Len(items)
<1>1. n \in Nat /\ \A k \in 1..n : items[k] \in Items /\ items[k] \in Out
  BY ItemsOut
<1>2. PICK W \in [0..n -> Answers(Out)] :
        /\ W[0] = Gives(<<>>)
        /\ \A k \in 1..n : W[k] = ShiftTurn(items, cs, FALSE, tr, W[k - 1], k)
        /\ ShiftItems(items, cs, FALSE, tr) = W[n]
  BY ShiftIsWalk
<1>3. PICK X \in [0..n -> Answers(Out)] :
        /\ X[0] = Gives(<<>>)
        /\ \A k \in 1..n : X[k] = ShiftTurn(items, cs, TRUE, tr, X[k - 1], k)
        /\ ShiftItems(items, cs, TRUE, tr) = X[n]
  BY ShiftIsWalk
<1> DEFINE Fit(k) == ~W[k].err => /\ ~X[k].err
                                  /\ Len(W[k].out) = k
                                  /\ \A j \in 1..k : W[k].out[j].id = items[j].id
           S == {k \in 0..n : Fit(k)}
<1>4. 0 \in S
  BY <1>1, <1>2, <1>3 DEF Gives
<1>5. ASSUME NEW k \in 1..n, k - 1 \in S PROVE k \in S
  <2> DEFINE v == Accepts(cs, items[k].attr, k - 1)
             w == W[k - 1]
             x == X[k - 1]
             u == Item("shifted", items[k].id, items[k].attr, items[k].of)
  <2>1. w \in Answers(Out) /\ x \in Answers(Out) /\ W[k] \in Answers(Out) /\ X[k] \in Answers(Out)
        /\ k \in 0..n /\ k \in Nat /\ k - 1 \in Nat
    BY <1>1
  <2>2. w.err \in BOOLEAN /\ w.out \in Seq(Out) /\ x.err \in BOOLEAN /\ x.out \in Seq(Out)
    BY <2>1 DEF Answers
  <2>3. items[k] \in Out /\ u \in Out /\ u.id = items[k].id
    BY <1>1, ItemsOut DEF Item
  <2>4. W[k] = Keeping(items, cs, tr, w, k) /\ X[k] = Filtering(items, cs, tr, x, k)
    BY <1>2, <1>3 DEF Filtering, Keeping
  <2>5. Fit(k - 1)
    BY <1>5
  <2> SUFFICES ASSUME ~W[k].err PROVE Fit(k)
    BY <2>1
  <2>6. Fails.err /\ \A y : Gives(y).err = FALSE /\ Gives(y).out = y
    BY DEF Fails, Gives
  <2> HIDE DEF v, w, x, u
  <2>7. ~w.err
    BY <2>1, <2>4, ShiftTurnKeeps
  <2>8. v # "error" /\ ~(v = "yes" /\ items[k].id \notin tr)
    BY <2>1, <2>4, <2>6, <2>7, ShiftTurnKeeps DEF v
  <2>9. W[k] = Gives(Append(w.out, u)) \/ W[k] = Gives(Append(w.out, items[k]))
    BY <2>1, <2>4, <2>7, <2>8, ShiftTurnKeeps DEF v, u
  <2>10. ~x.err
    BY <2>5, <2>7 DEF w, x
  <2>11. ~X[k].err
    BY <2>1, <2>4, <2>6, <2>8, <2>10, ShiftTurnFilters DEF v
  <2>12. PICK y \in Out : W[k] = Gives(Append(w.out, y)) /\ y.id = items[k].id
    BY <2>3, <2>9
  <2>13. Len(w.out) = k - 1 /\ \A j \in 1..(k - 1) : w.out[j].id = items[j].id
    BY <2>5, <2>7 DEF w
  <2>14. W[k].out = Append(w.out, y)
    BY <2>6, <2>12
  <2>15. Len(W[k].out) = k /\ \A j \in 1..k : W[k].out[j] = IF j = k THEN y ELSE w.out[j]
    BY <2>1, <2>2, <2>13, <2>14
  <2>16. \A j \in 1..k : W[k].out[j].id = items[j].id
    BY <2>1, <2>12, <2>13, <2>15
  <2> QED
    BY <2>11, <2>15, <2>16
<1> HIDE DEF S
<1>6. \A k \in 0..n : k \in S
  BY <1>1, <1>4, <1>5, Reaches
<1>7. n \in 0..n
  BY <1>1
<1>8. Fit(n)
  BY <1>6, <1>7 DEF S
<1> HIDE DEF n
<1> QED
  BY <1>2, <1>3, <1>8 DEF SameIds, n

\* One turn of both, without exceptions for an index.
LEMMA SameTurn ==
  ASSUME NEW items \in Seq(Items), NEW cs, NEW tr, NEW k \in 1..Len(items),
         NEW g \in Answers(Out), NEW y \in Answers(Out), NEW gg, NEW yy,
         gg = FilterTurn(cs, g, items[k]), yy = Filtering(items, cs, tr, y, k),
         Accepts(cs, items[k].attr, k - 1) = Accepts(cs, items[k].attr, Len(g.out)),
         ~y.err => ~g.err /\ SameIds(g.out, y.out)
  PROVE  /\ ~yy.err => ~y.err /\ ~gg.err /\ SameIds(gg.out, yy.out)
         /\ ~gg.err => ~g.err
         /\ items[k].id \in tr /\ ~gg.err /\ ~y.err => ~yy.err
<1> DEFINE v == Accepts(cs, items[k].attr, k - 1)
           it == items[k]
           u == Item("shifted", it.id, it.attr, it.of)
<1>1. g.err \in BOOLEAN /\ g.out \in Seq(Out) /\ y.err \in BOOLEAN /\ y.out \in Seq(Out) /\ k \in Nat
  BY DEF Answers
<1>2. it \in Out /\ u \in Out /\ u.id = it.id /\ Bare(it) \in Out /\ Bare(it).id = it.id
  BY ItemsOut DEF Item, Bare
<1>3. Fails.err /\ \A z : Gives(z).err = FALSE /\ Gives(z).out = z
  BY DEF Fails, Gives
<1>4. /\ y.err => yy = y
      /\ ~y.err /\ v = "error" => yy = Fails
      /\ ~y.err /\ v = "yes" /\ it.id \notin tr => yy = Fails
      /\ ~y.err /\ v = "yes" /\ it.id \in tr => yy = Gives(Append(y.out, u))
      /\ ~y.err /\ v = "no" => yy = y
      /\ ~y.err /\ v \notin {"error", "yes", "no"} => yy = Gives(Append(y.out, it))
  BY <1>1, ShiftTurnFilters
<1>5. /\ g.err => gg = g
      /\ v = "no" => gg = g
      /\ ~g.err /\ v = "error" => gg = Fails
      /\ ~g.err /\ v # "error" /\ v # "no" => gg = Gives(Append(g.out, Bare(it)))
  <2>1. v = Accepts(cs, it.attr, Len(g.out)) /\ gg = FilterTurn(cs, g, it)
    OBVIOUS
  <2> HIDE DEF v, it
  <2> QED
    BY <2>1, FilterTurnIs
<1> HIDE DEF v, it, u
<1>6. ~y.err => SameIds(Append(g.out, Bare(it)), Append(y.out, u)) /\ SameIds(Append(g.out, Bare(it)), Append(y.out, it))
  BY <1>1, <1>2, SameIdsGrow
<1>7. /\ ~yy.err => ~y.err /\ ~gg.err /\ SameIds(gg.out, yy.out)
      /\ ~gg.err => ~g.err
      /\ it.id \in tr /\ ~gg.err /\ ~y.err => ~yy.err
  <2>1. CASE y.err
    BY <1>3, <1>4, <1>5, <2>1
  <2>2. CASE ~y.err /\ v = "no"
    BY <1>4, <1>5, <2>2
  <2>3. CASE ~y.err /\ v = "error"
    BY <1>3, <1>4, <1>5, <2>3
  <2>4. CASE ~y.err /\ v = "yes"
    BY <1>3, <1>4, <1>5, <1>6, <2>4
  <2>5. CASE ~y.err /\ v \notin {"error", "yes", "no"}
    BY <1>3, <1>4, <1>5, <1>6, <2>5
  <2> QED
    BY <1>1, <2>1, <2>2, <2>3, <2>4, <2>5
<1> QED
  BY <1>7 DEF it

\* Without the index, filter and a filtering shift choose the same items.
LEMMA FilterFits ==
  ASSUME NEW items \in Seq(Items), NEW cs \in Seq(CriteriaKinds), NEW tr,
         \A i \in 1..Len(cs) : ~(cs[i].type = "expression" /\ cs[i].except # {}),
         NEW filtered, filtered = FilterArray(items, cs),
         NEW shifted, shifted = ShiftItems(items, cs, TRUE, tr)
  PROVE  /\ ~shifted.err => ~filtered.err /\ SameIds(filtered.out, shifted.out)
         /\ ~filtered.err /\ (\A j \in 1..Len(items) : items[j].id \in tr) => ~shifted.err
<1> DEFINE n == Len(items)
           All == \A j \in 1..n : items[j].id \in tr
<1>1. n \in Nat /\ \A k \in 1..n : items[k] \in Items /\ items[k] \in Out
  BY ItemsOut
<1>2. PICK F \in [0..n -> Answers(Out)] :
        /\ F[0] = Gives(<<>>)
        /\ \A k \in 1..n : F[k] = FilterTurn(cs, F[k - 1], items[k])
        /\ filtered = F[n]
  BY FilterIsWalk
<1>3. PICK X \in [0..n -> Answers(Out)] :
        /\ X[0] = Gives(<<>>)
        /\ \A k \in 1..n : X[k] = ShiftTurn(items, cs, TRUE, tr, X[k - 1], k)
        /\ shifted = X[n]
  BY ShiftIsWalk
<1> DEFINE Fit(k) == /\ ~X[k].err => ~F[k].err
                     /\ All /\ ~F[k].err => ~X[k].err
                     /\ ~X[k].err => SameIds(F[k].out, X[k].out)
           S == {k \in 0..n : Fit(k)}
<1>4. 0 \in S
  BY <1>1, <1>2, <1>3 DEF Gives, SameIds
<1>5. ASSUME NEW k \in 1..n, k - 1 \in S PROVE k \in S
  <2> DEFINE g == F[k - 1]
             y == X[k - 1]
             gg == F[k]
             yy == X[k]
  <2>1. k \in 0..n /\ k - 1 \in 0..n
    BY <1>1
  <2>2. g \in Answers(Out) /\ y \in Answers(Out)
    BY <2>1
  <2>3. gg = FilterTurn(cs, g, items[k]) /\ yy = Filtering(items, cs, tr, y, k)
    BY <1>2, <1>3 DEF Filtering
  <2>4. Accepts(cs, items[k].attr, k - 1) = Accepts(cs, items[k].attr, Len(g.out))
    BY IndexIgnored
  <2>5. /\ ~y.err => ~g.err /\ SameIds(g.out, y.out)
        /\ All /\ ~g.err => ~y.err
    BY <1>5
  <2>6. All => items[k].id \in tr
    OBVIOUS
  <2> HIDE DEF g, y, gg, yy, All
  <2>7. /\ ~yy.err => ~y.err /\ ~gg.err /\ SameIds(gg.out, yy.out)
        /\ ~gg.err => ~g.err
        /\ items[k].id \in tr /\ ~gg.err /\ ~y.err => ~yy.err
    BY <2>2, <2>3, <2>4, <2>5, SameTurn
  <2>8. /\ ~yy.err => ~gg.err /\ SameIds(gg.out, yy.out)
        /\ All /\ ~gg.err => ~yy.err
    BY <2>5, <2>6, <2>7, Zenon
  <2>9. Fit(k)
    BY <2>8, Zenon DEF gg, yy
  <2> QED
    BY <2>1, <2>9
<1> HIDE DEF S
<1>6. \A k \in 0..n : k \in S
  BY <1>1, <1>4, <1>5, Reaches
<1>7. n \in 0..n
  BY <1>1
<1>8. Fit(n)
  BY <1>6, <1>7 DEF S
<1> QED
  BY <1>2, <1>3, <1>8

ShiftOf(c, filter, flatten) ==
  ShiftArrayItems(c.items, FALSE, c.criteria, filter, flatten, c.transform)

Selected(c) ==
  [filter |-> FilterArrayItems(c.items, FALSE, c.criteria), shift |-> ShiftOf(c, TRUE, FALSE),
   flat |-> ShiftOf(c, TRUE, TRUE), whole |-> ShiftOf(c, FALSE, FALSE)]

\* Where there is no array, both fail, whatever is asked for.
LEMMA NoArrayNoSelection ==
  ASSUME NEW c, ~IsArray(c.items)
  PROVE  /\ Selected(c).filter = Fails /\ Selected(c).shift = Fails
         /\ Selected(c).flat = Fails /\ Selected(c).whole = Fails
<1>1. FilterArrayItems(c.items, FALSE, c.criteria) = Fails
  BY Zenon DEF FilterArrayItems
<1>2. \A f, g : ShiftOf(c, f, g) = Fails
  BY Zenon DEF ShiftOf, ShiftArrayItems
<1> QED
  BY <1>1, <1>2 DEF Selected

\* Where there is one, both walk through it; flat is a way to write the answer.
LEMMA SelectionOfArray ==
  ASSUME NEW c, IsArray(c.items), NEW x, x = ShiftItems(c.items, c.criteria, TRUE, c.transform)
  PROVE  /\ Selected(c).filter = FilterArray(c.items, c.criteria)
         /\ Selected(c).shift = x
         /\ Selected(c).whole = ShiftItems(c.items, c.criteria, FALSE, c.transform)
         /\ Selected(c).flat = CASE x.err \/ Len(x.out) > 1 -> x
                                 [] ~x.err /\ x.out = <<>> -> Gives([type |-> "object"])
                                 [] OTHER -> IF Head(x.out).type \in {"object", "shifted"}
                                               THEN Gives(Head(x.out)) ELSE Fails
<1>1. FilterArrayItems(c.items, FALSE, c.criteria) = FilterArray(c.items, c.criteria)
  BY Zenon DEF FilterArrayItems
<1>2. \A f, g : ShiftOf(c, f, g) = ShiftArray(c.items, c.criteria, f, g, c.transform)
  BY Zenon DEF ShiftOf, ShiftArrayItems
<1>3. \A f : ShiftArray(c.items, c.criteria, f, FALSE, c.transform) = ShiftItems(c.items, c.criteria, f, c.transform)
  BY Zenon DEF ShiftArray
<1>4. ShiftArray(c.items, c.criteria, TRUE, TRUE, c.transform)
        = CASE x.err \/ Len(x.out) > 1 -> x
            [] ~x.err /\ x.out = <<>> -> Gives([type |-> "object"])
            [] OTHER -> IF Head(x.out).type \in {"object", "shifted"}
                          THEN Gives(Head(x.out)) ELSE Fails
  BY Zenon DEF ShiftArray
<1> QED
  BY <1>1, <1>2, <1>3, <1>4, Zenon DEF Selected

\* The answers of both have their types.
LEMMA SelectionTypes ==
  ASSUME NEW items \in Seq(Items), NEW cs, NEW tr
  PROVE  /\ FilterArray(items, cs) \in Answers(Out)
         /\ ShiftItems(items, cs, TRUE, tr) \in Answers(Out)
         /\ ShiftItems(items, cs, FALSE, tr) \in Answers(Out)
<1>1. Len(items) \in 0..Len(items)
  <2>1. Len(items) \in Nat
    OBVIOUS
  <2> QED
    BY <2>1
<1>2. FilterArray(items, cs) \in Answers(Out)
  BY <1>1, FilterIsWalk
<1>3. \A filter : ShiftItems(items, cs, filter, tr) \in Answers(Out)
  BY <1>1, ShiftIsWalk
<1> QED
  BY <1>2, <1>3, Zenon

\* What the operators that choose items answer to any call.
LEMMA SelectionsFit ==
  ASSUME CallsAssumption, NEW c \in Calls, c.kind = "select", NEW r, r = Selected(c)
  PROVE  LET indexed == \E i \in 1..Len(c.criteria) :
                          c.criteria[i].type = "expression" /\ c.criteria[i].except # {}
         IN /\ ~r.whole.err => Ids(r.whole.out) = Ids(c.items) /\ ~r.shift.err
            /\ ~indexed /\ ~r.shift.err => ~r.filter.err /\ Ids(r.filter.out) = Ids(r.shift.out)
            /\ ~indexed /\ ~r.filter.err /\ ToSet(Ids(c.items)) \subseteq c.transform => ~r.shift.err
            /\ ~r.flat.err /\ Len(r.shift.out) = 1 => <<r.flat.out>> = r.shift.out
<1> DEFINE indexed == \E i \in 1..Len(c.criteria) :
                        c.criteria[i].type = "expression" /\ c.criteria[i].except # {}
           items == c.items
           cs == c.criteria
           tr == c.transform
           x == ShiftItems(items, cs, TRUE, tr)
           f == FilterArray(items, cs)
           w == ShiftItems(items, cs, FALSE, tr)
<1>1. items \in Arrays /\ cs \in Seq(CriteriaKinds)
  BY DEF CallsAssumption, WellFormed
<1>2. CASE ~IsArray(items)
  <2>1. r.filter = Fails /\ r.shift = Fails /\ r.flat = Fails /\ r.whole = Fails
    BY <1>2, NoArrayNoSelection
  <2> QED
    BY <2>1 DEF Fails
<1>3. CASE IsArray(items)
  <2>1. items \in Seq(Items)
    BY <1>1, <1>3 DEF Arrays, ItemLists, IsArray
  <2>2. /\ r.filter = f
        /\ r.shift = x
        /\ r.whole = w
        /\ r.flat = CASE x.err \/ Len(x.out) > 1 -> x
                      [] ~x.err /\ x.out = <<>> -> Gives([type |-> "object"])
                      [] OTHER -> IF Head(x.out).type \in {"object", "shifted"}
                                    THEN Gives(Head(x.out)) ELSE Fails
    BY <1>3, SelectionOfArray
  <2>3. x \in Answers(Out) /\ f \in Answers(Out) /\ w \in Answers(Out) /\ items \in Seq(Out)
    <3>1. Items \subseteq Out
      BY ItemsOut
    <3>2. items \in Seq(Out)
      BY <2>1, <3>1
    <3>3. x \in Answers(Out) /\ f \in Answers(Out) /\ w \in Answers(Out)
      <4> HIDE DEF items, cs, tr
      <4> QED
        BY <2>1, SelectionTypes
    <3> QED
      BY <3>2, <3>3
  <2>4. x.out \in Seq(Out) /\ f.out \in Seq(Out) /\ w.out \in Seq(Out)
        /\ x.err \in BOOLEAN /\ f.err \in BOOLEAN /\ w.err \in BOOLEAN
    BY <2>3 DEF Answers
  <2>5. ~w.err => SameIds(w.out, items) /\ ~x.err
    BY <2>1, WholeFits
  <2>6. ~indexed => /\ ~x.err => ~f.err /\ SameIds(f.out, x.out)
                    /\ ~f.err /\ (\A j \in 1..Len(items) : items[j].id \in tr) => ~x.err
    <3> SUFFICES ASSUME ~indexed
                 PROVE  /\ ~x.err => ~f.err /\ SameIds(f.out, x.out)
                        /\ ~f.err /\ (\A j \in 1..Len(items) : items[j].id \in tr) => ~x.err
      BY Zenon
    <3>1. \A i \in 1..Len(cs) : ~(cs[i].type = "expression" /\ cs[i].except # {})
      OBVIOUS
    <3> HIDE DEF items, cs, tr, indexed
    <3> QED
      BY <1>1, <2>1, <3>1, FilterFits, Zenon
  <2>7. ToSet(Ids(items)) \subseteq tr => \A j \in 1..Len(items) : items[j].id \in tr
    <3>1. DOMAIN Ids(items) = 1..Len(items) /\ \A j \in 1..Len(items) : Ids(items)[j] = items[j].id
      BY DEF Ids
    <3> QED
      BY <3>1 DEF ToSet
  <2> HIDE DEF x, f, w, items, tr, indexed
  <2>8. ~w.err => Ids(w.out) = Ids(items)
    BY <2>3, <2>4, <2>5, SameIdsIsIds
  <2>9. ~indexed /\ ~x.err => Ids(f.out) = Ids(x.out)
    BY <2>4, <2>6, SameIdsIsIds
  <2>10. ~r.flat.err /\ Len(x.out) = 1 => <<r.flat.out>> = x.out
    <3> SUFFICES ASSUME ~r.flat.err, Len(x.out) = 1 PROVE <<r.flat.out>> = x.out
      OBVIOUS
    <3>1. x.out # <<>> /\ ~(Len(x.out) > 1) /\ Head(x.out) = x.out[1]
      <4> DEFINE o == x.out
      <4>1. o \in Seq(Out) /\ Len(o) = 1
        BY <2>4
      <4> HIDE DEF o
      <4>2. ~(Len(o) > 1)
        BY <4>1
      <4>3. o # <<>>
        <5>1. Len(<<>>) = 0
          OBVIOUS
        <5>2. ~(1 = 0)
          OBVIOUS
        <5> QED
          BY <4>1, <5>1, <5>2, Zenon
      <4>4. Head(o) = o[1]
        BY <4>1, <4>3, HeadTailProperties
      <4> QED
        BY <4>2, <4>3, <4>4 DEF o
    <3>2. CASE x.err
      <4>1. r.flat = x
        BY <2>2, <3>2, Zenon
      <4> QED
        BY <3>2, <4>1
    <3>3. CASE ~x.err
      <4>1. r.flat = IF Head(x.out).type \in {"object", "shifted"} THEN Gives(Head(x.out)) ELSE Fails
        BY <2>2, <3>1, <3>3, Zenon
      <4>2. r.flat = Gives(Head(x.out))
        BY <4>1 DEF Fails
      <4>3. r.flat.out = x.out[1]
        BY <3>1, <4>2 DEF Gives
      <4> QED
        BY <2>4, <4>3
    <3> QED
      BY <3>2, <3>3
  <2>11. /\ ~w.err => Ids(w.out) = Ids(items) /\ ~x.err
         /\ ~indexed /\ ~x.err => ~f.err /\ Ids(f.out) = Ids(x.out)
         /\ ~indexed /\ ~f.err /\ ToSet(Ids(items)) \subseteq tr => ~x.err
         /\ ~r.flat.err /\ Len(x.out) = 1 => <<r.flat.out>> = x.out
    BY <2>5, <2>6, <2>7, <2>8, <2>9, <2>10, Zenon
  <2> QED
    BY <2>2, <2>11, Zenon DEF indexed, items, tr
<1> QED
  BY <1>2, <1>3

-----------------------------------------------------------------------------
(***************************************************************************)
(* What _sortArray puts in order.                                          *)
(***************************************************************************)
Place(items, x) == SelectInSeq(items, LAMBDA y : y = x)

Ordered(items, x, y) ==
  \/ x.attr = Null
  \/ x.attr < y.attr
  \/ x.attr = y.attr /\ Place(items, x) < Place(items, y)

\* An item of a list without repetitions is found in its place.
LEMMA PlaceIs ==
  ASSUME NEW items \in ItemLists, NEW m \in 1..Len(items) PROVE Place(items, items[m]) = m
<1> DEFINE n == Len(items)
           x == items[m]
           I == {i \in 1..n : items[i] = x}
           p == Min(I)
<1>1. n \in Nat /\ m \in 1..n /\ \A i \in 1..n : items[i] = x => i = m
  BY DEF ItemLists
<1>2. I = {m}
  BY <1>1
<1>3. I \in SUBSET (1..n) /\ I # {} /\ m \in I
  BY <1>1, <1>2
<1>4. p \in I
  BY <1>1, <1>3, Least
<1>5. p = m
  BY <1>2, <1>4
<1> HIDE DEF p, I
<1>6. Place(items, items[m]) = IF I # {} THEN p ELSE 0
  BY DEF Place, SelectInSeq, I, p
<1> QED
  BY <1>3, <1>5, <1>6

\* What Insert puts in order stays in order, if the item comes from behind.
LEMMA InsertOrders ==
  ASSUME NEW items, NEW s \in Seq(Items), NEW x \in Items,
         \A i, j \in 1..Len(s) : i < j => Ordered(items, s[i], s[j]),
         \A j \in 1..Len(s) : Place(items, s[j]) < Place(items, x),
         NEW t, t = Insert(s, x)
  PROVE  \A i, j \in 1..Len(t) : i < j => Ordered(items, t[i], t[j])
<1> DEFINE n == Len(s)
<1>1. n \in Nat
  OBVIOUS
<1>2. PICK p \in 0..n : InsertedAt(s, x, t, p)
  BY InsertIs
<1>3. \A y \in Items : y.attr \in Int /\ y.attr >= Null
  BY DEF Items, Values, Null
<1>4. \A j \in 1..n : s[j] \in Items
  OBVIOUS
<1>5. /\ Len(t) = n + 1
      /\ \A j \in 1..n + 1 : t[j] = IF j =< p THEN s[j] ELSE IF j = p + 1 THEN x ELSE s[j - 1]
      /\ p > 0 => ~Before(x, s[p])
      /\ \A j \in 1..n : j > p => Before(x, s[j])
  BY <1>2 DEF InsertedAt
<1> HIDE DEF n
<1>6. ASSUME NEW j \in 1..n, j > p PROVE Ordered(items, x, s[j])
  BY <1>5, <1>6 DEF Before, Ordered
<1>7. ASSUME NEW j \in 1..n, j =< p PROVE Ordered(items, s[j], x)
  <2>1. p \in 1..n /\ ~Before(x, s[p])
    BY <1>1, <1>5, <1>7
  <2>2. s[p].attr = Null \/ s[p].attr =< x.attr
    BY <1>3, <1>4, <2>1 DEF Before
  <2>3. j = p \/ Ordered(items, s[j], s[p])
    BY <1>7, <2>1 DEF n
  <2>4. Place(items, s[j]) < Place(items, x)
    BY DEF n
  <2>5. /\ s[p].attr \in Int /\ s[p].attr >= Null /\ s[j].attr \in Int /\ s[j].attr >= Null
        /\ x.attr \in Int /\ x.attr >= Null
    BY <1>3, <1>4, <2>1
  <2>6. s[j].attr = Null \/ s[j].attr =< x.attr
    <3>1. CASE j = p
      BY <2>2, <3>1
    <3>2. CASE Ordered(items, s[j], s[p])
      <4>1. s[j].attr = Null \/ s[j].attr =< s[p].attr
        BY <2>5, <3>2 DEF Ordered
      <4> QED
        BY <2>2, <2>5, <4>1 DEF Null
    <3> QED
      BY <2>3, <3>1, <3>2
  <2> QED
    BY <2>4, <2>5, <2>6 DEF Ordered
<1>8. ASSUME NEW i \in 1..n + 1, NEW j \in 1..n + 1, i < j PROVE Ordered(items, t[i], t[j])
  <2>1. CASE j =< p
    <3>1. t[i] = s[i] /\ t[j] = s[j] /\ i \in 1..n /\ j \in 1..n
      BY <1>1, <1>5, <1>8, <2>1
    <3> QED
      BY <1>8, <3>1 DEF n
  <2>2. CASE j = p + 1
    <3>1. t[i] = s[i] /\ t[j] = x /\ i \in 1..n /\ i =< p
      BY <1>1, <1>5, <1>8, <2>2
    <3> QED
      BY <1>7, <3>1
  <2>3. CASE j > p + 1 /\ i = p + 1
    <3>1. t[i] = x /\ t[j] = s[j - 1] /\ j - 1 \in 1..n /\ j - 1 > p
      BY <1>1, <1>5, <1>8, <2>3
    <3> QED
      BY <1>6, <3>1
  <2>4. CASE j > p + 1 /\ i > p + 1
    <3>1. t[i] = s[i - 1] /\ t[j] = s[j - 1] /\ j - 1 \in 1..n /\ i - 1 \in 1..n /\ i - 1 < j - 1
      BY <1>1, <1>5, <1>8, <2>4
    <3> QED
      BY <3>1 DEF n
  <2>5. CASE j > p + 1 /\ i =< p
    <3>1. t[i] = s[i] /\ t[j] = s[j - 1] /\ j - 1 \in 1..n /\ i \in 1..n /\ i < j - 1
      BY <1>1, <1>5, <1>8, <2>5
    <3> QED
      BY <3>1 DEF n
  <2> QED
    BY <1>1, <1>8, <2>1, <2>2, <2>3, <2>4, <2>5
<1> QED
  BY <1>5, <1>8

\* Every item of the array is in the sorted one, and the other way round; and those
\* are in order.
LEMMA SortFits ==
  ASSUME NEW items \in ItemLists, NEW t, t = SortStable(items)
  PROVE  /\ t \in Seq(Items) /\ Len(t) = Len(items) /\ ToSet(t) = ToSet(items)
         /\ \A i, j \in 1..Len(t) : i < j => Ordered(items, t[i], t[j])
<1> DEFINE n == Len(items)
<1>1. items \in Seq(Items) /\ n \in Nat /\ \A k \in 1..n : items[k] \in Items
  BY DEF ItemLists
<1>2. PICK F \in [0..n -> Seq(Items)] :
        /\ F[0] = <<>>
        /\ \A k \in 1..n : F[k] = Insert(F[k - 1], items[k])
        /\ t = F[n]
  BY <1>1, SortIsWalk
<1> DEFINE Good(s, k) ==
             /\ Len(s) = k
             /\ \A j \in 1..k : \E m \in 1..k : s[j] = items[m]
             /\ \A m \in 1..k : \E j \in 1..k : s[j] = items[m]
             /\ \A i, j \in 1..Len(s) : i < j => Ordered(items, s[i], s[j])
           S == {k \in 0..n : Good(F[k], k)}
<1>3. 0 \in S
  <2>1. Len(<<>>) = 0 /\ 0 \in 0..n
    BY <1>1
  <2>2. Good(<<>>, 0)
    BY <2>1
  <2> QED
    BY <1>2, <2>1, <2>2
<1>4. ASSUME NEW k \in 1..n, k - 1 \in S PROVE k \in S
  <2> DEFINE s == F[k - 1]
             x == items[k]
             u == F[k]
  <2>1. Good(s, k - 1) /\ s \in Seq(Items) /\ u = Insert(s, x) /\ x \in Items
    BY <1>1, <1>2, <1>4
  <2>2. \A m \in 1..n : Place(items, items[m]) = m
    BY PlaceIs
  <2> HIDE DEF s, x, u
  <2>3. \A j \in 1..Len(s) : Place(items, s[j]) < Place(items, x)
    <3> SUFFICES ASSUME NEW j \in 1..Len(s) PROVE Place(items, s[j]) < Place(items, x)
      OBVIOUS
    <3>1. PICK m \in 1..(k - 1) : s[j] = items[m]
      BY <2>1
    <3>2. m \in 1..n /\ m < k
      BY <1>1
    <3>3. Place(items, s[j]) = m /\ Place(items, x) = k
      BY <2>2, <3>1, <3>2 DEF x
    <3> QED
      BY <3>2, <3>3
  <2>4. \A i, j \in 1..Len(u) : i < j => Ordered(items, u[i], u[j])
    BY <2>1, <2>3, InsertOrders
  <2>5. PICK p \in 0..Len(s) : InsertedAt(s, x, u, p)
    <3>1. s \in Seq(Items) /\ x \in Items /\ u = Insert(s, x)
      BY <2>1
    <3> QED
      BY <3>1, InsertIs
  <2>6. /\ Len(u) = Len(s) + 1
        /\ \A j \in 1..Len(s) + 1 : u[j] = IF j =< p THEN s[j] ELSE IF j = p + 1 THEN x ELSE s[j - 1]
    BY <2>5 DEF InsertedAt
  <2>7. k \in Nat /\ Len(s) = k - 1 /\ Len(u) = k
    BY <1>1, <2>1, <2>6
  <2>8. ASSUME NEW j \in 1..k PROVE \E m \in 1..k : u[j] = items[m]
    <3>1. CASE j = p + 1
      BY <2>6, <2>7, <3>1 DEF x
    <3>2. CASE j # p + 1
      <4>1. PICK h \in 1..(k - 1) : u[j] = s[h]
        <5>1. CASE j =< p
          BY <2>6, <2>7, <5>1
        <5>2. CASE j > p + 1
          <6>1. j - 1 \in 1..(k - 1) /\ u[j] = s[j - 1]
            BY <2>6, <2>7, <5>2
          <6> QED
            BY <6>1
        <5> QED
          BY <2>6, <2>7, <3>2, <5>1, <5>2
      <4>2. PICK m \in 1..(k - 1) : s[h] = items[m]
        BY <2>1
      <4>3. m \in 1..k
        OBVIOUS
      <4> QED
        BY <4>1, <4>2, <4>3
    <3> QED
      BY <3>1, <3>2
  <2>9. ASSUME NEW m \in 1..k PROVE \E j \in 1..k : u[j] = items[m]
    <3>1. CASE m = k
      <4>1. p + 1 \in 1..k /\ u[p + 1] = x
        BY <2>6, <2>7
      <4> QED
        BY <3>1, <4>1 DEF x
    <3>2. CASE m < k
      <4>1. PICK h \in 1..(k - 1) : s[h] = items[m]
        BY <2>1, <2>7, <3>2
      <4>2. CASE h =< p
        <5>1. h \in 1..k /\ u[h] = s[h]
          BY <2>6, <2>7, <4>2
        <5> QED
          BY <4>1, <5>1
      <4>3. CASE h > p
        <5>1. h + 1 \in 1..k /\ ~(h + 1 =< p) /\ h + 1 # p + 1 /\ h + 1 - 1 = h
          BY <2>6, <2>7, <4>3
        <5>2. u[h + 1] = s[h]
          BY <2>6, <2>7, <5>1
        <5> QED
          BY <4>1, <5>1, <5>2
      <4> QED
        BY <2>6, <2>7, <4>2, <4>3
    <3> QED
      BY <2>7, <3>1, <3>2
  <2>10. Good(u, k)
    BY <2>4, <2>7, <2>8, <2>9
  <2>11. k \in 0..n
    BY <1>1
  <2> QED
    BY <2>10, <2>11 DEF u
<1> HIDE DEF S
<1>5. \A k \in 0..n : k \in S
  BY <1>1, <1>3, <1>4, Reaches
<1>6. n \in 0..n
  BY <1>1
<1>7. Good(t, n) /\ t \in Seq(Items)
  <2>1. Good(F[n], n)
    BY <1>5, <1>6 DEF S
  <2> HIDE DEF Good
  <2> QED
    BY <1>2, <1>6, <2>1
<1>8. DOMAIN t = 1..n /\ DOMAIN items = 1..n
  BY <1>1, <1>7
<1>9. ToSet(t) = ToSet(items)
  <2>1. /\ \A j \in 1..n : \E m \in 1..n : t[j] = items[m]
        /\ \A m \in 1..n : \E j \in 1..n : t[j] = items[m]
    BY <1>7
  <2>2. ToSet(t) = {t[j] : j \in 1..n} /\ ToSet(items) = {items[m] : m \in 1..n}
    BY <1>8 DEF ToSet
  <2> HIDE DEF n
  <2>3. ASSUME NEW y \in ToSet(t) PROVE y \in ToSet(items)
    <3>1. PICK j \in 1..n : y = t[j]
      BY <2>2
    <3>2. PICK m \in 1..n : y = items[m]
      BY <2>1, <3>1
    <3> QED
      BY <2>2, <3>2
  <2>4. ASSUME NEW y \in ToSet(items) PROVE y \in ToSet(t)
    <3>1. PICK m \in 1..n : y = items[m]
      BY <2>2
    <3>2. PICK j \in 1..n : y = t[j]
      BY <2>1, <3>1
    <3> QED
      BY <2>2, <3>2
  <2> QED
    BY <2>3, <2>4, Zenon
<1> QED
  BY <1>7, <1>9

\* Every value has the type of the first.
Comparable(items) == \A i \in 1..Len(items) : items[i].attr = Null \/ items[i].of = items[1].of

\* Either nothing was moved, or everything is in order.
LEMMA SortCases ==
  ASSUME NEW items \in ItemLists, NEW v, v = SortArray(items), ~v.err, v.out # <<>>
  PROVE  \/ /\ v.out = items
            /\ items[1].attr = Null \/ ~Comparable(items) \/ Len(items) = 1
         \/ v.out = SortStable(items) /\ items[1].attr # Null /\ Comparable(items)
<1> DEFINE types == {items[i].type : i \in 1..Len(items)}
           n == Len(items)
<1>1. items \in Seq(Items) /\ n \in Nat /\ \A i \in 1..n : items[i] \in Items
  BY DEF ItemLists
<1>2. Fails.err /\ \A y : Gives(y).err = FALSE /\ Gives(y).out = y
  BY DEF Fails, Gives
<1>3. ~ \E t, u \in types : t # u
  <2>1. (\E t, u \in types : t # u) => v = Fails
    BY Zenon DEF SortArray
  <2> QED
    BY <1>2, <2>1
<1>4. types = {"string"} \/ types = {"object"} \/ v = Gives(<<>>)
  BY <1>3, Zenon DEF SortArray
<1>5. types # {} => n >= 1
  BY <1>1
<1>6. CASE types = {"string"}
  <2>1. v = Gives(SortStable(items))
    BY <1>3, <1>6, Zenon DEF SortArray
  <2>2. n >= 1 /\ items[1].type = "string"
    <3>1. n >= 1
      BY <1>5, <1>6
    <3>2. 1 \in 1..n
      BY <1>1, <3>1
    <3>3. items[1].type \in types
      BY <3>2
    <3> QED
      BY <1>6, <3>1, <3>3
  <2>3. items[1] \in Items
    BY <1>1, <2>2
  <2>4. items[1].attr \in Nat
    BY <2>2, <2>3 DEF Items
  <2>5. items[1].attr # Null
    BY <2>4 DEF Null
  <2>6. ASSUME NEW i \in 1..n PROVE items[i].of = "string"
    <3>1. items[i].type \in types /\ items[i] \in Items
      BY <1>1
    <3>2. items[i].type = "string"
      BY <1>6, <3>1
    <3> QED
      BY <3>1, <3>2 DEF Items
  <2>7. 1 \in 1..n
    BY <1>1, <2>2
  <2>8. Comparable(items)
    BY <2>6, <2>7 DEF Comparable
  <2> QED
    BY <1>2, <2>1, <2>5, <2>8
<1>7. CASE types = {"object"}
  <2> DEFINE I == {i \in 1..n : Stops(items, items[i])}
             m == Min(I)
             stop == SelectInSeq(items, LAMBDA it : Stops(items, it))
  <2>1. v = SortObjects(items)
    <3>1. types # {"string"}
      BY <1>7
    <3> QED
      BY <1>3, <1>7, <3>1, Zenon DEF SortArray
  <2>2. stop = IF I # {} THEN m ELSE 0
    BY DEF SelectInSeq
  <2>3. n >= 1
    BY <1>5, <1>7
  <2>4. I # {} => m \in I /\ m \in 1..n
    <3>1. I \in SUBSET (1..n)
      OBVIOUS
    <3> HIDE DEF I
    <3> QED
      BY <1>1, <3>1, Least
  <2> HIDE DEF m
  <2>5. stop # 0 => stop \in 1..n /\ Stops(items, items[stop])
    BY <2>2, <2>4
  <2>6. stop = 0 => \A i \in 1..n : ~Stops(items, items[i])
    BY <1>1, <2>2, <2>4
  <2>7. v = CASE n = 1 -> Gives(items)
              [] n # 1 /\ stop # 0 -> IF items[stop].attr = Missing THEN Fails ELSE Gives(items)
              [] OTHER -> Gives(IF items[1].attr = Null THEN items ELSE SortStable(items))
    BY <2>1, Zenon DEF SortObjects
  <2> HIDE DEF stop, I, n
  <2>8. CASE n = 1
    <3>1. v = Gives(items)
      BY <2>7, <2>8, Zenon
    <3> QED
      BY <1>2, <2>8, <3>1 DEF n
  <2>9. CASE n # 1 /\ stop # 0
    <3>1. v = IF items[stop].attr = Missing THEN Fails ELSE Gives(items)
      BY <2>7, <2>9, Zenon
    <3>2. v = Gives(items) /\ items[stop].attr # Missing
      BY <1>2, <3>1
    <3>3. /\ items[stop].attr # Null
          /\ items[1].attr = Null \/ items[stop].of # items[1].of
      BY <2>5, <2>9, <3>2 DEF Stops
    <3>4. items[1].attr = Null \/ ~Comparable(items)
      BY <2>5, <2>9, <3>3 DEF Comparable, n
    <3> QED
      BY <1>2, <3>2, <3>4
  <2>10. CASE n # 1 /\ stop = 0
    <3>1. v = Gives(IF items[1].attr = Null THEN items ELSE SortStable(items))
      BY <2>7, <2>10, Zenon
    <3>2. CASE items[1].attr = Null
      <4>1. v = Gives(items)
        BY <3>1, <3>2, Zenon
      <4> QED
        BY <1>2, <3>2, <4>1
    <3>3. CASE items[1].attr # Null
      <4>1. v = Gives(SortStable(items))
        BY <3>1, <3>3, Zenon
      <4>2. \A i \in 1..n : items[i].attr = Null \/ items[i].of = items[1].of
        BY <2>6, <2>10 DEF Stops
      <4>3. Comparable(items)
        BY <4>2 DEF Comparable, n
      <4> QED
        BY <1>2, <3>3, <4>1, <4>3
    <3> QED
      BY <3>2, <3>3
  <2> QED
    BY <2>8, <2>9, <2>10
<1> QED
  BY <1>2, <1>4, <1>6, <1>7

\* What _sortArray answers to any list.
LEMMA SortsFit ==
  ASSUME NEW items \in ItemLists, NEW v, v = SortArray(items), ~v.err, NEW r, r = v.out, r # <<>>
  PROVE  /\ Len(r) = Len(items) /\ ToSet(r) = ToSet(items)
         /\ items[1].attr = Null \/ ~Comparable(items) => r = items
         /\ items[1].attr # Null /\ Comparable(items) =>
              \A i, j \in 1..Len(r) : i < j => Ordered(items, r[i], r[j])
<1>1. CASE r = items /\ (items[1].attr = Null \/ ~Comparable(items) \/ Len(items) = 1)
  BY <1>1
<1>2. CASE r = SortStable(items) /\ items[1].attr # Null /\ Comparable(items)
  BY <1>2, SortFits
<1> QED
  BY <1>1, <1>2, SortCases

-----------------------------------------------------------------------------
(***************************************************************************)
(* What distinct-items and reduce-array keep.                              *)
(***************************************************************************)
LastOf(items, a) == SelectLastInSeq(items, LAMBDA it : it.attr = a)

LastOnes(items) ==
  {j \in 1..Len(items) : \A k \in j + 1..Len(items) : items[k].attr # items[j].attr}

Lasts(items) == {items[i] : i \in LastOnes(items)}

\* The last item of a key is one of the last.
LEMMA LastIs ==
  ASSUME NEW items, Len(items) \in Nat, NEW i \in 1..Len(items), NEW p, p = LastOf(items, items[i].attr)
  PROVE  p \in LastOnes(items) /\ items[p].attr = items[i].attr
<1> DEFINE n == Len(items)
           a == items[i].attr
           I == {j \in 1..n : items[j].attr = a}
           m == Max(I)
<1>1. I \in SUBSET (1..n) /\ I # {} /\ n \in Nat
  OBVIOUS
<1>2. m \in I /\ \A y \in I : m >= y
  <2> HIDE DEF I
  <2> QED
    BY <1>1, Greatest
<1>3. p = IF I # {} THEN m ELSE 0
  <2> HIDE DEF a
  <2>1. LastOf(items, a) = IF I # {} THEN m ELSE 0
    BY DEF LastOf, SelectLastInSeq
  <2> QED
    BY <2>1 DEF a
<1> HIDE DEF m, a
<1>4. p \in 1..n /\ items[p].attr = a /\ \A k \in 1..n : items[k].attr = a => p >= k
  BY <1>1, <1>2, <1>3
<1> HIDE DEF I
<1>5. \A k \in p + 1..n : items[k].attr # a
  <2> SUFFICES ASSUME NEW k \in p + 1..n, items[k].attr = a PROVE FALSE
    OBVIOUS
  <2>1. k \in 1..n /\ ~(p >= k)
    BY <1>1, <1>4
  <2> QED
    BY <1>4, <2>1
<1> QED
  BY <1>4, <1>5 DEF LastOnes, a

\* No two of the last items have one key.
LEMMA LastsDiffer ==
  ASSUME NEW items \in ItemLists, NEW x \in Lasts(items), NEW y \in Lasts(items), x.attr = y.attr
  PROVE  x = y
<1>1. PICK i \in LastOnes(items) : x = items[i]
  BY DEF Lasts
<1>2. PICK j \in LastOnes(items) : y = items[j]
  BY DEF Lasts
<1>3. Len(items) \in Nat
  BY DEF ItemLists
<1>4. /\ i \in 1..Len(items) /\ \A k \in i + 1..Len(items) : items[k].attr # items[i].attr
      /\ j \in 1..Len(items) /\ \A k \in j + 1..Len(items) : items[k].attr # items[j].attr
  BY DEF LastOnes
<1>5. ~(i < j)
  <2> SUFFICES ASSUME i < j PROVE FALSE
    OBVIOUS
  <2>1. j \in i + 1..Len(items)
    BY <1>3, <1>4
  <2> QED
    BY <1>1, <1>2, <1>4, <2>1
<1>6. ~(j < i)
  <2> SUFFICES ASSUME j < i PROVE FALSE
    OBVIOUS
  <2>1. i \in j + 1..Len(items)
    BY <1>3, <1>4
  <2> QED
    BY <1>1, <1>2, <1>4, <2>1
<1>7. i = j
  BY <1>4, <1>5, <1>6
<1> QED
  BY <1>1, <1>2, <1>7

\* There are finitely many of them.
LEMMA LastsFinite ==
  ASSUME NEW items \in ItemLists PROVE IsFiniteSet(Lasts(items))
<1> DEFINE J == LastOnes(items)
           f == [i \in J |-> items[i]]
           n == Len(items)
           N == 1..n
<1>1. n \in Nat
  BY DEF ItemLists
<1>2. IsFiniteSet(N)
  <2> HIDE DEF n
  <2> QED
    BY <1>1, FS_Interval
<1>3. J \in SUBSET N
  BY DEF LastOnes
<1>4. IsFiniteSet(J)
  <2> HIDE DEF J, N
  <2> QED
    BY <1>2, <1>3, FS_Subset
<1>5. f \in [J -> Lasts(items)] /\ \A t \in Lasts(items) : \E i \in J : f[i] = t
  BY DEF Lasts
<1> HIDE DEF f, J
<1>6. f \in Surjection(J, Lasts(items))
  BY <1>5, Fun_IsSurj
<1> QED
  BY <1>4, <1>6, FS_Surjection

\* A listing of a finite set without repetitions has all of it.
LEMMA ListingIsWhole ==
  ASSUME NEW S, IsFiniteSet(S), NEW s \in SetToSeqs(S)
  PROVE  /\ s \in Seq(S)
         /\ \A i, j \in 1..Len(s) : s[i] = s[j] => i = j
         /\ \A x \in S : \E i \in 1..Len(s) : s[i] = x
<1> DEFINE c == Cardinality(S)
           N == 1..c
<1>1. c \in Nat
  BY FS_CardinalityType
<1>2. s \in [N -> S] /\ \A a, b \in N : s[a] = s[b] => a = b
  BY DEF SetToSeqs
<1>3. IsFiniteSet(N) /\ Cardinality(N) = c
  <2> HIDE DEF c
  <2>1. IsFiniteSet(1..c) /\ Cardinality(1..c) = IF 1 > c THEN 0 ELSE c - 1 + 1
    BY <1>1, FS_Interval
  <2> QED
    BY <1>1, <2>1
<1> HIDE DEF c
<1>4. s \in Seq(S) /\ Len(s) = c
  BY <1>1, <1>2
<1> HIDE DEF N
<1>5. s \in Injection(N, S)
  BY <1>2, Fun_IsInj
<1>6. s \in Surjection(N, S)
  BY <1>3, <1>5, FS_Injection DEF c
<1>7. \A x \in S : \E i \in N : s[i] = x
  BY <1>6, Fun_SurjectionProperties
<1> QED
  BY <1>2, <1>4, <1>7 DEF N

\* What distinct-items answers, whatever the order of the Go map.
LEMMA DistinctIs ==
  ASSUME NEW items \in ItemLists, NEW d \in DistinctItems(items)
  PROVE  \/ d = Fails /\ \E i \in 1..Len(items) : items[i].attr = Missing
         \/ /\ \A i \in 1..Len(items) : items[i].attr # Missing
            /\ \E s \in SetToSeqs(Lasts(items)) : d = Gives([i \in 1..Len(s) |-> Bare(s[i])])
<1>1. CASE \E i \in 1..Len(items) : items[i].attr = Missing
  <2>1. DistinctItems(items) = {Fails}
    BY <1>1, Zenon DEF DistinctItems
  <2> QED
    BY <1>1, <2>1
<1>2. CASE ~ \E i \in 1..Len(items) : items[i].attr = Missing
  <2>1. DistinctItems(items) = {Gives([i \in 1..Len(s) |-> Bare(s[i])]) : s \in SetToSeqs(Lasts(items))}
    BY <1>2, Zenon DEF DistinctItems, Lasts, LastOnes
  <2> QED
    BY <1>2, <2>1
<1> QED
  BY <1>1, <1>2

\* What reduce-array answers.
LEMMA ReduceIs ==
  ASSUME NEW items, NEW r, r = ReduceArray(items)
  PROVE  \/ r = Fails /\ \E i \in 1..Len(items) : ~IsName(items[i])
         \/ /\ \A i \in 1..Len(items) : IsName(items[i])
            /\ r = Gives([a \in {items[i].attr : i \in 1..Len(items)} \ {0} |-> items[LastOf(items, a)].id])
<1>1. CASE \E i \in 1..Len(items) : ~IsName(items[i])
  BY <1>1, Zenon DEF ReduceArray
<1>2. CASE ~ \E i \in 1..Len(items) : ~IsName(items[i])
  <2>1. r = Gives([a \in {items[i].attr : i \in 1..Len(items)} \ {0} |-> items[LastOf(items, a)].id])
    BY <1>2, Zenon DEF ReduceArray, LastOf
  <2> QED
    BY <1>2, <2>1
<1> QED
  BY <1>1, <1>2

\* What both answer to any list.
LEMMA GroupsFit ==
  ASSUME NEW items \in ItemLists, NEW d \in DistinctItems(items), NEW r, r = ReduceArray(items)
  PROVE  /\ r.err = (d.err \/ \E i \in 1..Len(items) : ~IsName(items[i]))
         /\ ~d.err => \A i, j \in 1..Len(d.out) : d.out[i].attr = d.out[j].attr => i = j
         /\ ~r.err => /\ {d.out[i].attr : i \in 1..Len(d.out)} \ {0} = DOMAIN r.out
                      /\ \A i \in 1..Len(d.out) : d.out[i].attr # 0 => r.out[d.out[i].attr] = d.out[i].id
<1> DEFINE n == Len(items)
<1>1. Fails.err /\ \A y : Gives(y).err = FALSE /\ Gives(y).out = y
  BY DEF Fails, Gives
<1>2. n \in Nat /\ \A i \in 1..n : items[i] \in Items
  BY DEF ItemLists
<1>3. CASE \E i \in 1..n : items[i].attr = Missing
  <2>1. d = Fails
    BY <1>3, DistinctIs
  <2>2. r = Fails
    BY <1>3, ReduceIs DEF IsName
  <2> QED
    BY <1>1, <2>1, <2>2
<1>4. CASE ~ \E i \in 1..n : items[i].attr = Missing
  <2>1. PICK s \in SetToSeqs(Lasts(items)) : d = Gives([i \in 1..Len(s) |-> Bare(s[i])])
    BY <1>4, DistinctIs
  <2> DEFINE o == [i \in 1..Len(s) |-> Bare(s[i])]
  <2>2. /\ s \in Seq(Lasts(items))
        /\ \A i, j \in 1..Len(s) : s[i] = s[j] => i = j
        /\ \A x \in Lasts(items) : \E i \in 1..Len(s) : s[i] = x
    BY LastsFinite, ListingIsWhole
  <2>3. /\ Len(o) = Len(s)
        /\ \A i \in 1..Len(s) : o[i].attr = s[i].attr /\ o[i].id = s[i].id
    <3>1. \A it : Bare(it) = IF it.type = "string" THEN Item("bare", it.id, it.attr, it.of) ELSE it
      BY DEF Bare
    <3>2. \A it : Bare(it).attr = it.attr /\ Bare(it).id = it.id
      BY <3>1 DEF Item
    <3>3. Len(s) \in Nat
      BY <2>2
    <3> QED
      BY <3>2, <3>3
  <2>4. ~d.err /\ d.out = o
    BY <1>1, <2>1
  <2> HIDE DEF o
  <2>5. \A i \in 1..Len(s) : s[i] \in Lasts(items)
    BY <2>2
  <2>6. \A i, j \in 1..Len(o) : o[i].attr = o[j].attr => i = j
    BY <2>2, <2>3, <2>5, LastsDiffer
  <2>7. ASSUME ~r.err
        PROVE  /\ {o[i].attr : i \in 1..Len(o)} \ {0} = DOMAIN r.out
               /\ \A i \in 1..Len(o) : o[i].attr # 0 => r.out[o[i].attr] = o[i].id
    <3> DEFINE attrs == {items[i].attr : i \in 1..n}
    <3>1. r.out = [a \in attrs \ {0} |-> items[LastOf(items, a)].id]
      <4>1. r = Gives([a \in attrs \ {0} |-> items[LastOf(items, a)].id])
        BY <1>1, <2>7, ReduceIs
      <4> QED
        BY <1>1, <4>1
    <3>2. ASSUME NEW a \in attrs
          PROVE  items[LastOf(items, a)] \in Lasts(items) /\ items[LastOf(items, a)].attr = a
      <4>1. PICK i \in 1..n : a = items[i].attr
        OBVIOUS
      <4>2. LastOf(items, a) \in LastOnes(items) /\ items[LastOf(items, a)].attr = a
        BY <1>2, <4>1, LastIs
      <4> QED
        BY <4>2 DEF Lasts
    <3>3. \A i \in 1..Len(o) : o[i].attr \in attrs
      <4>1. \A x \in Lasts(items) : x.attr \in attrs
        BY DEF Lasts, LastOnes
      <4> HIDE DEF attrs
      <4> QED
        BY <2>3, <2>5, <4>1
    <3>4. \A a \in attrs : \E i \in 1..Len(o) : o[i].attr = a
      <4> HIDE DEF attrs
      <4> QED
        BY <2>2, <2>3, <3>2
    <3>5. \A i \in 1..Len(o) : items[LastOf(items, o[i].attr)] = s[i]
      <4> SUFFICES ASSUME NEW i \in 1..Len(o) PROVE items[LastOf(items, o[i].attr)] = s[i]
        OBVIOUS
      <4> DEFINE x == items[LastOf(items, o[i].attr)]
      <4>1. x \in Lasts(items) /\ x.attr = o[i].attr
        BY <3>2, <3>3
      <4>2. s[i] \in Lasts(items) /\ s[i].attr = o[i].attr
        BY <2>3, <2>5
      <4> HIDE DEF x
      <4>3. x = s[i]
        BY <4>1, <4>2, LastsDiffer
      <4> QED
        BY <4>3 DEF x
    <3> HIDE DEF attrs
    <3>6. {o[i].attr : i \in 1..Len(o)} = attrs
      BY <3>3, <3>4
    <3>7. \A i \in 1..Len(o) : o[i].attr # 0 => r.out[o[i].attr] = s[i].id
      BY <3>1, <3>3, <3>5
    <3> QED
      BY <2>3, <3>1, <3>6, <3>7
  <2>8. r.err = (d.err \/ \E i \in 1..Len(items) : ~IsName(items[i]))
    <3>1. CASE r = Fails /\ \E i \in 1..Len(items) : ~IsName(items[i])
      BY <1>1, <3>1
    <3>2. CASE r.err = FALSE /\ \A i \in 1..Len(items) : IsName(items[i])
      BY <2>4, <3>2
    <3> DEFINE kept == [a \in {items[i].attr : i \in 1..Len(items)} \ {0} |-> items[LastOf(items, a)].id]
    <3>3. \/ r = Fails /\ \E i \in 1..Len(items) : ~IsName(items[i])
          \/ r = Gives(kept) /\ \A i \in 1..Len(items) : IsName(items[i])
      BY ReduceIs
    <3>4. Gives(kept).err = FALSE
      BY DEF Gives
    <3> HIDE DEF kept
    <3>5. CASE r = Gives(kept) /\ \A i \in 1..Len(items) : IsName(items[i])
      BY <3>2, <3>4, <3>5
    <3> QED
      BY <3>1, <3>3, <3>5
  <2> QED
    BY <2>4, <2>6, <2>7, <2>8
<1> QED
  BY <1>3, <1>4

-----------------------------------------------------------------------------
(***************************************************************************)
(* What merge-arrays, len-arrays and add-array-items count.                *)
(***************************************************************************)
\* Flattening puts one list behind the other.
LEMMA FlattenIsWalk ==
  ASSUME NEW E, NEW b \in Seq(Seq(E))
  PROVE  \E F \in [0..Len(b) -> Seq(E)] :
           /\ F[0] = <<>>
           /\ \A k \in 1..Len(b) : F[k] = F[k - 1] \o b[k]
           /\ FlattenSeq(b) = F[Len(b)]
<1> DEFINE n == Len(b)
           A == Seq(E)
           op == [p \in A \X A |-> p[1] \o p[2]]
           Flatten(f) == [i \in 1..n |-> IF i = 1 THEN b[i] ELSE f[i - 1] \o b[i]]
           h == CHOOSE f : f = Flatten(f)
           F == [k \in 0..n |-> IF k = 0 THEN <<>> ELSE h[k]]
<1>1. n \in Nat /\ b \in [1..n -> A] /\ <<>> \in A
  OBVIOUS
<1>2. op \in [A \X A -> A] /\ \A x, y \in A : op[<<x, y>>] = x \o y
  <2>1. \A x, y \in A : x \o y \in A
    OBVIOUS
  <2> HIDE DEF A
  <2> QED
    BY <2>1
<1>3. \A x \in A : <<>> \o x = x
  OBVIOUS
<1> HIDE DEF A, n, op
<1>4. PICK g \in [SUBSET (1..n) -> A] : IsLoop(g, <<>>, op, b, n)
  BY <1>1, <1>2, LoopExists
<1>5. ASSUME NEW k \in 1..n PROVE g[1..k] = g[1..(k - 1)] \o b[k] /\ g[1..(k - 1)] \in A /\ b[k] \in A
  <2>1. /\ 1..k \in SUBSET (1..n) /\ 1..k # {} /\ Max(1..k) = k /\ (1..k) \ {k} = 1..(k - 1)
        /\ 1..(k - 1) \in SUBSET (1..n)
    BY <1>1, UpToTurn
  <2>2. g[1..k] = op[<<g[1..(k - 1)], b[k]>>]
    BY <1>4, <2>1 DEF IsLoop
  <2>3. g[1..(k - 1)] \in A /\ b[k] \in A
    BY <1>1, <1>4, <2>1
  <2> QED
    BY <1>2, <2>2, <2>3
<1>6. g[1..0] = <<>>
  <2>1. 1..0 \in SUBSET (1..n) /\ 1..0 = {}
    OBVIOUS
  <2> QED
    BY <1>4, <2>1 DEF IsLoop
<1> DEFINE e == [i \in 1..n |-> g[1..i]]
<1>7. e = Flatten(e)
  <2>1. ASSUME NEW i \in 1..n PROVE e[i] = Flatten(e)[i]
    <3>1. CASE i = 1
      <4>1. g[1..1] = <<>> \o b[1] /\ b[1] \in A
        <5>1. i - 1 = 0 /\ i \in 1..n
          BY <3>1
        <5>2. g[1..i] = g[1..(i - 1)] \o b[i] /\ b[i] \in A
          BY <1>5
        <5> QED
          BY <1>6, <3>1, <5>1, <5>2
      <4> QED
        BY <1>3, <3>1, <4>1
    <3>2. CASE i # 1
      <4>1. i - 1 \in 1..n
        BY <1>1, <3>2
      <4> QED
        BY <1>5, <3>2, <4>1
    <3> QED
      BY <3>1, <3>2
  <2> QED
    BY <2>1
<1>8. h = Flatten(h)
  <2> HIDE DEF Flatten, e
  <2> QED
    BY <1>7
<1>9. n # 0 => FlattenSeq(b) = h[n]
  BY Zenon DEF FlattenSeq, n
<1> HIDE DEF h
<1>10. n # 0 => FlattenSeq(b) = F[n]
  BY <1>1, <1>9
<1>11. n = 0 => FlattenSeq(b) = F[n]
  <2> SUFFICES ASSUME n = 0 PROVE FlattenSeq(b) = F[n]
    OBVIOUS
  <2>1. FlattenSeq(b) = b
    BY DEF FlattenSeq, n
  <2>2. b = <<>>
    BY DEF n
  <2>3. 0 \in 0..n
    BY <1>1
  <2> QED
    BY <2>1, <2>2, <2>3
<1>12. F[0] = <<>>
  BY <1>1
<1>13. ASSUME NEW k \in 1..n PROVE F[k] = F[k - 1] \o b[k]
  <2>1. k \in 0..n /\ k - 1 \in 0..n /\ k # 0
    BY <1>1
  <2>2. F[k] = h[k] /\ h[k] = IF k = 1 THEN b[k] ELSE h[k - 1] \o b[k]
    BY <1>8, <2>1
  <2>3. CASE k = 1
    <3>1. b[k] \in A /\ k - 1 = 0
      BY <1>1, <2>3
    <3>2. F[k - 1] = <<>>
      BY <1>12, <3>1
    <3>3. <<>> \o b[k] = b[k]
      BY <1>3, <3>1
    <3> HIDE DEF F
    <3> QED
      BY <2>2, <2>3, <3>2, <3>3
  <2>4. CASE k # 1
    <3>1. k - 1 # 0
      BY <1>1, <2>4
    <3>2. F[k - 1] = h[k - 1]
      BY <2>1, <3>1
    <3> HIDE DEF F
    <3> QED
      BY <2>2, <2>4, <3>2
  <2> QED
    BY <2>3, <2>4
<1>14. \A k \in 0..n : F[k] \in A
  <2> DEFINE S == {k \in 0..n : F[k] \in A}
  <2>1. 0 \in S
    BY <1>1, <1>12
  <2>2. ASSUME NEW k \in 1..n, k - 1 \in S PROVE k \in S
    <3>1. F[k - 1] \in A /\ b[k] \in A /\ k \in 0..n
      <4>1. b[k] \in A /\ k \in 0..n
        BY <1>1
      <4> HIDE DEF F
      <4> QED
        BY <2>2, <4>1
    <3>2. F[k - 1] \o b[k] \in A
      BY <3>1 DEF A
    <3> QED
      BY <1>13, <3>1, <3>2
  <2> HIDE DEF S
  <2>3. \A k \in 0..n : k \in S
    BY <1>1, <2>1, <2>2, Reaches
  <2> QED
    BY <2>3 DEF S
<1>15. F \in [0..n -> A] /\ FlattenSeq(b) = F[n]
  BY <1>1, <1>10, <1>11, <1>14
<1> HIDE DEF F
<1>16. \E G \in [0..n -> A] : G[0] = <<>> /\ (\A k \in 1..n : G[k] = G[k - 1] \o b[k]) /\ FlattenSeq(b) = G[n]
  BY <1>12, <1>13, <1>15
<1> QED
  BY <1>16 DEF n, A

\* A summand, as the length of an array is one.
Summands == [type : {"missing", "number"}, n : Int, float : BOOLEAN]

AddTurn(n, s) == IF Added(s) THEN n + s.n ELSE n

\* The sum stays a number.
LEMMA AddTurnType ==
  ASSUME NEW n \in Int, NEW s \in Summands PROVE AddTurn(n, s) \in Int
BY DEF AddTurn, Summands

\* So is the sum of the summands.
LEMMA SumIsWalk ==
  ASSUME NEW seen \in Seq(Summands)
  PROVE  \E F \in [0..Len(seen) -> Int] :
           /\ F[0] = 0
           /\ \A k \in 1..Len(seen) : F[k] = AddTurn(F[k - 1], seen[k])
           /\ Result(seen).sum = F[Len(seen)]
<1> DEFINE n == Len(seen)
           A == Int
           E == Summands
           q == seen
           op == [p \in A \X E |-> AddTurn(p[1], p[2])]
           Loop(f) == [s \in SUBSET (DOMAIN q) |-> IF s = {} THEN 0
                         ELSE AddTurn(f[s \ {Max(s)}], q[Max(s)])]
           h == CHOOSE f : f = Loop(f)
           F == [k \in 0..n |-> h[1..k]]
<1>1. n \in Nat /\ q \in [1..n -> E] /\ DOMAIN q = 1..n /\ \A k \in 1..n : q[k] = seen[k]
  OBVIOUS
<1>2. \A a \in A, x \in E : AddTurn(a, x) \in A
  BY AddTurnType
<1>3. 0 \in A
  BY DEF A
<1>4. op \in [A \X E -> A] /\ \A a \in A, x \in E : op[<<a, x>>] = AddTurn(a, x)
  <2> HIDE DEF A, E, q, n
  <2> QED
    BY <1>2
<1>5. PICK g \in [SUBSET (1..n) -> A] : IsLoop(g, 0, op, q, n)
  <2> HIDE DEF n, A, E, op, q
  <2> QED
    BY <1>1, <1>3, <1>4, LoopExists
<1>6. g = Loop(g)
  <2> HIDE DEF op, A, E, q, n
  <2>1. \A s \in SUBSET (1..n) : s # {} => Max(s) \in 1..n /\ s \ {Max(s)} \in SUBSET (1..n)
    BY <1>1, Greatest
  <2>2. \A s \in SUBSET (1..n) : g[s] = Loop(g)[s]
    BY <1>1, <1>4, <1>5, <2>1 DEF IsLoop
  <2> QED
    BY <1>1, <2>2
<1>7. h = Loop(h)
  <2> HIDE DEF Loop
  <2> QED
    BY <1>6
<1>8. Result(seen).sum = h[DOMAIN q]
  BY Zenon DEF Result, FoldLeft, MapThenFoldSet, AddTurn
<1> HIDE DEF h, q, A, E, n
<1>9. F[0] = 0
  BY <1>1, <1>7
<1>10. \A k \in 1..n : F[k] = AddTurn(F[k - 1], q[k])
  <2>1. \A s \in SUBSET (1..n) : s # {} => h[s] = AddTurn(h[s \ {Max(s)}], q[Max(s)])
    BY <1>1, <1>7
  <2>2. \A k \in 1..n : h[1..k] = AddTurn(h[1..(k - 1)], q[k])
    <3> HIDE DEF F
    <3> TAKE k \in 1..n
    <3>1. 1..k \in SUBSET (1..n) /\ 1..k # {} /\ Max(1..k) = k /\ (1..k) \ {k} = 1..(k - 1)
      BY <1>1, UpToTurn
    <3>2. h[1..k] = AddTurn(h[(1..k) \ {Max(1..k)}], q[Max(1..k)])
      BY <2>1, <3>1
    <3> QED
      BY <3>1, <3>2
  <2>3. \A k \in 1..n : k \in 0..n /\ k - 1 \in 0..n
    BY <1>1
  <2> QED
    BY <2>2, <2>3
<1>11. \A k \in 0..n : F[k] \in A
  <2> DEFINE S == {k \in 0..n : F[k] \in A}
  <2>1. 0 \in S
    BY <1>1, <1>3, <1>9
  <2>2. ASSUME NEW k \in 1..n, k - 1 \in S PROVE k \in S
    <3>1. k \in 0..n /\ F[k - 1] \in A /\ q[k] \in E
      BY <1>1, <2>2
    <3> HIDE DEF F
    <3> QED
      BY <1>2, <1>10, <3>1
  <2> HIDE DEF S
  <2>3. \A k \in 0..n : k \in S
    BY <1>1, <2>1, <2>2, Reaches
  <2> QED
    BY <2>3 DEF S
<1>12. F \in [0..n -> A] /\ Result(seen).sum = F[n]
  <2>1. n \in 0..n
    BY <1>1
  <2>2. F[n] = h[DOMAIN q]
    BY <1>1, <2>1
  <2>3. Result(seen).sum = F[n]
    BY <1>8, <2>2, Zenon
  <2> QED
    BY <1>11, <2>3
<1>13. \A k \in 1..n : F[k] = AddTurn(F[k - 1], seen[k])
  BY <1>1, <1>10
<1> HIDE DEF F
<1>14. \E G \in [0..n -> A] : G[0] = 0 /\ (\A k \in 1..n : G[k] = AddTurn(G[k - 1], seen[k]))
                                /\ Result(seen).sum = G[n]
  BY <1>9, <1>12, <1>13
<1> QED
  BY <1>14 DEF n, A

\* What _mergeArrays is given here: no argument, or an array.
Merged == [type : {"none"}] \cup [type : {"array"}, items : Seq(Items)]

\* _mergeArrays answers something it can be given.
LEMMA MergeType ==
  ASSUME NEW a \in Merged, NEW b \in Merged PROVE MergeFunction(a, b) \in Merged
<1>1. a.type \in {"none", "array"} /\ b.type \in {"none", "array"}
  BY DEF Merged
<1>2. a.type = "none" => MergeFunction(a, b) = b
  BY <1>1, Zenon DEF MergeFunction
<1>3. a.type # "none" /\ b.type = "none" => MergeFunction(a, b) = a
  BY <1>1, Zenon DEF MergeFunction
<1>4. a.type # "none" /\ b.type # "none" => MergeFunction(a, b) = [type |-> "array", items |-> a.items \o b.items]
  BY <1>1, Zenon DEF MergeFunction
<1>5. CASE a.type # "none" /\ b.type # "none"
  <2>1. a.items \in Seq(Items) /\ b.items \in Seq(Items)
    BY <1>5 DEF Merged
  <2>2. a.items \o b.items \in Seq(Items)
    BY <2>1
  <2> DEFINE o == a.items \o b.items
  <2>3. [type |-> "array", items |-> o] \in [type : {"array"}, items : Seq(Items)]
    BY <2>2
  <2> HIDE DEF o
  <2>4. [type |-> "array", items |-> o] \in Merged
    BY <2>3 DEF Merged
  <2> QED
    BY <1>4, <1>5, <2>4 DEF o
<1> QED
  BY <1>2, <1>3, <1>5

\* So is the function of the same name.
LEMMA MergeIsWalk ==
  ASSUME NEW as \in Seq(Merged)
  PROVE  \E F \in [0..Len(as) -> Merged] :
           /\ F[0] = [type |-> "none"]
           /\ \A k \in 1..Len(as) : F[k] = MergeFunction(F[k - 1], as[k])
           /\ FoldLeft(MergeFunction, [type |-> "none"], as) = F[Len(as)]
<1> DEFINE n == Len(as)
           A == Merged
           E == Merged
           q == as
           op == [p \in A \X E |-> MergeFunction(p[1], p[2])]
           Loop(f) == [s \in SUBSET (DOMAIN q) |-> IF s = {} THEN [type |-> "none"]
                         ELSE MergeFunction(f[s \ {Max(s)}], q[Max(s)])]
           h == CHOOSE f : f = Loop(f)
           F == [k \in 0..n |-> h[1..k]]
<1>1. n \in Nat /\ q \in [1..n -> E] /\ DOMAIN q = 1..n /\ \A k \in 1..n : q[k] = as[k]
  OBVIOUS
<1>2. \A a \in A, x \in E : MergeFunction(a, x) \in A
  BY MergeType
<1>3. [type |-> "none"] \in A
  BY DEF A, Merged
<1>4. op \in [A \X E -> A] /\ \A a \in A, x \in E : op[<<a, x>>] = MergeFunction(a, x)
  <2> HIDE DEF A, E, q, n
  <2> QED
    BY <1>2
<1>5. PICK g \in [SUBSET (1..n) -> A] : IsLoop(g, [type |-> "none"], op, q, n)
  <2> HIDE DEF n, A, E, op, q
  <2> QED
    BY <1>1, <1>3, <1>4, LoopExists
<1>6. g = Loop(g)
  <2> HIDE DEF op, A, E, q, n
  <2>1. \A s \in SUBSET (1..n) : s # {} => Max(s) \in 1..n /\ s \ {Max(s)} \in SUBSET (1..n)
    BY <1>1, Greatest
  <2>2. \A s \in SUBSET (1..n) : g[s] = Loop(g)[s]
    BY <1>1, <1>4, <1>5, <2>1 DEF IsLoop
  <2> QED
    BY <1>1, <2>2
<1>7. h = Loop(h)
  <2> HIDE DEF Loop
  <2> QED
    BY <1>6
<1>8. FoldLeft(MergeFunction, [type |-> "none"], as) = h[DOMAIN q]
  BY Zenon DEF FoldLeft, MapThenFoldSet
<1> HIDE DEF h, q, A, E, n
<1>9. F[0] = [type |-> "none"]
  BY <1>1, <1>7
<1>10. \A k \in 1..n : F[k] = MergeFunction(F[k - 1], q[k])
  <2>1. \A s \in SUBSET (1..n) : s # {} => h[s] = MergeFunction(h[s \ {Max(s)}], q[Max(s)])
    BY <1>1, <1>7
  <2>2. \A k \in 1..n : h[1..k] = MergeFunction(h[1..(k - 1)], q[k])
    <3> HIDE DEF F
    <3> TAKE k \in 1..n
    <3>1. 1..k \in SUBSET (1..n) /\ 1..k # {} /\ Max(1..k) = k /\ (1..k) \ {k} = 1..(k - 1)
      BY <1>1, UpToTurn
    <3>2. h[1..k] = MergeFunction(h[(1..k) \ {Max(1..k)}], q[Max(1..k)])
      BY <2>1, <3>1
    <3> QED
      BY <3>1, <3>2
  <2>3. \A k \in 1..n : k \in 0..n /\ k - 1 \in 0..n
    BY <1>1
  <2> QED
    BY <2>2, <2>3
<1>11. \A k \in 0..n : F[k] \in A
  <2> DEFINE S == {k \in 0..n : F[k] \in A}
  <2>1. 0 \in S
    BY <1>1, <1>3, <1>9
  <2>2. ASSUME NEW k \in 1..n, k - 1 \in S PROVE k \in S
    <3>1. k \in 0..n /\ F[k - 1] \in A /\ q[k] \in E
      BY <1>1, <2>2
    <3> HIDE DEF F
    <3> QED
      BY <1>2, <1>10, <3>1
  <2> HIDE DEF S
  <2>3. \A k \in 0..n : k \in S
    BY <1>1, <2>1, <2>2, Reaches
  <2> QED
    BY <2>3 DEF S
<1>12. F \in [0..n -> A] /\ FoldLeft(MergeFunction, [type |-> "none"], as) = F[n]
  <2>1. n \in 0..n
    BY <1>1
  <2>2. F[n] = h[DOMAIN q]
    BY <1>1, <2>1
  <2>3. FoldLeft(MergeFunction, [type |-> "none"], as) = F[n]
    BY <1>8, <2>2, Zenon
  <2> QED
    BY <1>11, <2>3
<1>13. \A k \in 1..n : F[k] = MergeFunction(F[k - 1], as[k])
  BY <1>1, <1>10
<1> HIDE DEF F
<1>14. \E G \in [0..n -> A] : G[0] = [type |-> "none"] /\ (\A k \in 1..n : G[k] = MergeFunction(G[k - 1], as[k]))
                                /\ FoldLeft(MergeFunction, [type |-> "none"], as) = G[n]
  BY <1>9, <1>12, <1>13
<1> QED
  BY <1>14 DEF n, A

\* Without criteria nothing fails and everything is chosen.
LEMMA FilterAll ==
  ASSUME NEW items \in Seq(Items) PROVE ~FilterArray(items, <<>>).err
<1> DEFINE n == Len(items)
<1>1. n \in Nat
  OBVIOUS
<1>2. PICK F \in [0..n -> Answers(Out)] :
        /\ F[0] = Gives(<<>>)
        /\ \A k \in 1..n : F[k] = FilterTurn(<<>>, F[k - 1], items[k])
        /\ FilterArray(items, <<>>) = F[n]
  BY FilterIsWalk
<1> DEFINE S == {k \in 0..n : ~F[k].err}
<1>3. \A x : Gives(x).err = FALSE
  BY DEF Gives
<1>4. 0 \in S
  BY <1>1, <1>2, <1>3
<1>5. ASSUME NEW k \in 1..n, k - 1 \in S PROVE k \in S
  <2> DEFINE r == F[k - 1]
             it == items[k]
  <2>1. r \in Answers(Out) /\ ~r.err /\ F[k] = FilterTurn(<<>>, r, it) /\ k \in 0..n
    <3>1. k - 1 \in 0..n /\ k \in 0..n
      BY <1>1
    <3> QED
      BY <1>2, <1>5, <3>1
  <2> HIDE DEF r, it
  <2>2. Accepts(<<>>, it.attr, Len(r.out)) = "yes"
    BY Zenon DEF Accepts
  <2>3. "yes" # "no" /\ "yes" # "error"
    OBVIOUS
  <2>4. F[k] = Gives(Append(r.out, Bare(it)))
    BY <2>1, <2>2, <2>3, FilterTurnIs
  <2> QED
    BY <1>3, <2>1, <2>4
<1> HIDE DEF S
<1>6. \A k \in 0..n : k \in S
  BY <1>1, <1>4, <1>5, Reaches
<1>7. n \in 0..n
  BY <1>1
<1> QED
  BY <1>2, <1>6, <1>7 DEF S

\* So for shift-array-items.
LEMMA ShiftAll ==
  ASSUME NEW items \in Seq(Items) PROVE ~ShiftItems(items, <<>>, FALSE, Nat).err
<1> DEFINE n == Len(items)
<1>1. n \in Nat
  OBVIOUS
<1>2. PICK W \in [0..n -> Answers(Out)] :
        /\ W[0] = Gives(<<>>)
        /\ \A k \in 1..n : W[k] = ShiftTurn(items, <<>>, FALSE, Nat, W[k - 1], k)
        /\ ShiftItems(items, <<>>, FALSE, Nat) = W[n]
  BY ShiftIsWalk
<1> DEFINE S == {k \in 0..n : ~W[k].err}
<1>3. \A x : Gives(x).err = FALSE
  BY DEF Gives
<1>4. 0 \in S
  BY <1>1, <1>2, <1>3
<1>5. ASSUME NEW k \in 1..n, k - 1 \in S PROVE k \in S
  <2> DEFINE r == W[k - 1]
  <2>1. r \in Answers(Out) /\ ~r.err /\ W[k] = Keeping(items, <<>>, Nat, r, k) /\ k \in 0..n /\ k \in Nat
    <3>1. k - 1 \in 0..n /\ k \in 0..n /\ k \in Nat
      BY <1>1
    <3> QED
      BY <1>2, <1>5, <3>1 DEF Keeping
  <2> HIDE DEF r
  <2>2. Accepts(<<>>, items[k].attr, k - 1) = "yes"
    BY Zenon DEF Accepts
  <2>3. items[k].id \in Nat
    <3>1. items[k] \in Items
      OBVIOUS
    <3> QED
      BY <3>1 DEF Items
  <2>4. W[k] = Gives(Append(r.out, Item("shifted", items[k].id, items[k].attr, items[k].of)))
    BY <2>1, <2>2, <2>3, ShiftTurnKeeps
  <2> QED
    BY <1>3, <2>1, <2>4
<1> HIDE DEF S
<1>6. \A k \in 0..n : k \in S
  BY <1>1, <1>4, <1>5, Reaches
<1>7. n \in 0..n
  BY <1>1
<1> QED
  BY <1>2, <1>6, <1>7 DEF S

NestedFilter(arrays) == FilterArrayItems(arrays, TRUE, <<>>)
NestedShift(arrays) == ShiftArrayItems(arrays, TRUE, <<>>, FALSE, FALSE, Nat)

\* So what is chosen from the arrays of the items fails if one of them is none.
LEMMA NestedFails ==
  ASSUME NEW arrays \in Seq(Arrays),
         NEW f, f = NestedFilter(arrays),
         NEW x, x = NestedShift(arrays)
  PROVE  /\ f.err = x.err
         /\ ~f.err => \A i \in 1..Len(arrays) : IsArray(arrays[i])
<1> DEFINE n == Len(arrays)
           shift(a) == IF IsArray(a) THEN ShiftArray(a, <<>>, FALSE, FALSE, Nat) ELSE Fails
<1>1. Fails.err = TRUE /\ \A y : Gives(y).err = FALSE
  BY DEF Fails, Gives
<1>2. ASSUME NEW i \in 1..n, IsArray(arrays[i]) PROVE arrays[i] \in Seq(Items)
  BY <1>2 DEF Arrays, ItemLists, IsArray
<1>3. f = FilterNested(arrays, <<>>)
  BY Zenon DEF NestedFilter, FilterArrayItems
<1>4. (\E i \in 1..n : ~IsArray(arrays[i]) \/ FilterArray(arrays[i], <<>>).err) => f = Fails
  BY <1>3, Zenon DEF FilterNested
<1>5. ~(\E i \in 1..n : ~IsArray(arrays[i]) \/ FilterArray(arrays[i], <<>>).err) =>
        f = Gives([i \in 1..n |-> FilterArray(arrays[i], <<>>).out])
  BY <1>3, Zenon DEF FilterNested
<1>6. (\E i \in 1..n : shift(arrays[i]).err) => x = Fails
  BY Zenon DEF NestedShift, ShiftArrayItems
<1>7. ~(\E i \in 1..n : shift(arrays[i]).err) => x = Gives([i \in 1..n |-> shift(arrays[i]).out])
  BY Zenon DEF NestedShift, ShiftArrayItems
<1>8. ASSUME NEW i \in 1..n PROVE shift(arrays[i]).err <=> ~IsArray(arrays[i])
  <2>1. CASE IsArray(arrays[i])
    <3>1. ~ShiftItems(arrays[i], <<>>, FALSE, Nat).err
      BY <1>2, <2>1, ShiftAll
    <3>2. shift(arrays[i]) = ShiftItems(arrays[i], <<>>, FALSE, Nat)
      BY <2>1, Zenon DEF ShiftArray
    <3> QED
      BY <2>1, <3>1, <3>2, Zenon
  <2>2. CASE ~IsArray(arrays[i])
    <3>1. shift(arrays[i]) = Fails
      BY <2>2, Zenon
    <3> HIDE DEF shift
    <3> QED
      BY <1>1, <2>2, <3>1
  <2> QED
    BY <2>1, <2>2
<1>9. \A i \in 1..n : IsArray(arrays[i]) => ~FilterArray(arrays[i], <<>>).err
  BY <1>2, FilterAll
<1> HIDE DEF shift
<1>10. CASE \E i \in 1..n : ~IsArray(arrays[i])
  <2>1. f = Fails
    BY <1>4, <1>10, Zenon
  <2>2. x = Fails
    BY <1>6, <1>8, <1>10, Zenon
  <2> QED
    BY <1>1, <2>1, <2>2
<1>11. CASE ~ \E i \in 1..n : ~IsArray(arrays[i])
  <2>1. f = Gives([i \in 1..n |-> FilterArray(arrays[i], <<>>).out])
    BY <1>5, <1>9, <1>11, Zenon
  <2>2. x = Gives([i \in 1..n |-> shift(arrays[i]).out])
    BY <1>7, <1>8, <1>11, Zenon
  <2> QED
    BY <1>1, <1>11, <2>1, <2>2
<1> QED
  BY <1>10, <1>11

\* The arrays before the first that is none.
LEMMA BeforeIs ==
  ASSUME NEW arrays \in Seq(Arrays), NEW b, b = BeforeNone(arrays)
  PROVE  /\ b \in Seq(Seq(Items)) /\ Len(b) =< Len(arrays)
         /\ \A i \in 1..Len(b) : b[i] = arrays[i] /\ IsArray(arrays[i])
         /\ FirstNone(arrays) = 0 => b = arrays
         /\ Len(b) < Len(arrays) => ~IsArray(arrays[Len(b) + 1])
<1> DEFINE n == Len(arrays)
           I == {i \in 1..n : ~IsArray(arrays[i])}
           m == Min(I)
           first == FirstNone(arrays)
<1>1. n \in Nat
  OBVIOUS
<1>2. first = IF I # {} THEN m ELSE 0
  BY DEF FirstNone, SelectInSeq
<1>3. I # {} => m \in I /\ m \in 1..n /\ \A i \in I : m =< i
  <2>1. I \in SUBSET (1..n)
    OBVIOUS
  <2> HIDE DEF I
  <2> QED
    BY <1>1, <2>1, Least
<1>4. ASSUME NEW i \in 1..n, IsArray(arrays[i]) PROVE arrays[i] \in Seq(Items)
  BY <1>4 DEF Arrays, ItemLists, IsArray
<1>5. b = IF first = 0 THEN arrays ELSE SubSeq(arrays, 1, first - 1)
  BY DEF BeforeNone
<1> HIDE DEF m, first
<1>6. CASE I = {}
  <2>1. b = arrays /\ \A i \in 1..n : IsArray(arrays[i])
    BY <1>2, <1>5, <1>6
  <2>2. b \in [1..n -> Seq(Items)]
    BY <1>4, <2>1
  <2>3. b \in Seq(Seq(Items))
    BY <1>1, <2>2
  <2> QED
    BY <2>1, <2>3
<1>7. CASE I # {}
  <2>1. first = m /\ m \in 1..n /\ ~IsArray(arrays[m]) /\ b = SubSeq(arrays, 1, m - 1)
    BY <1>2, <1>3, <1>5, <1>7
  <2>2. \A i \in 1..(m - 1) : i \in 1..n /\ IsArray(arrays[i])
    <3> SUFFICES ASSUME NEW i \in 1..(m - 1) PROVE i \in 1..n /\ IsArray(arrays[i])
      OBVIOUS
    <3>1. i \in 1..n /\ ~(m =< i)
      BY <1>1, <2>1
    <3>2. i \notin I
      BY <1>3, <1>7, <3>1
    <3> QED
      BY <3>1, <3>2
  <2>3. Len(b) = m - 1 /\ \A i \in 1..(m - 1) : b[i] = arrays[i]
    BY <1>1, <2>1
  <2>4. b \in Seq(Arrays)
    BY <2>1
  <2>5. b \in [1..(m - 1) -> Seq(Items)]
    <3>1. b \in [1..(m - 1) -> Arrays]
      BY <2>3, <2>4
    <3> QED
      BY <1>4, <2>2, <2>3, <3>1
  <2>6. b \in Seq(Seq(Items))
    <3>1. m - 1 \in Nat
      BY <2>1
    <3> QED
      BY <2>5, <3>1
  <2>7. first # 0 /\ Len(b) + 1 = m /\ Len(b) =< n
    BY <1>1, <2>1, <2>3
  <2> QED
    BY <2>1, <2>2, <2>3, <2>6, <2>7 DEF first
<1> QED
  BY <1>6, <1>7

MeasureLens(arrays) == LenArrays(arrays).out

MeasureSummands(lens) ==
  [i \in 1..Len(lens) |->
     [type |-> IF lens[i] = Missing THEN "missing" ELSE "number", n |-> lens[i], float |-> FALSE]]

\* The sum of the lengths is that of the arrays before the first that is none.
LEMMA SumFits ==
  ASSUME NEW arrays \in Seq(Arrays), NEW b, b = BeforeNone(arrays),
         NEW G \in [0..Len(b) -> Seq(Items)], G[0] = <<>>, \A k \in 1..Len(b) : G[k] = G[k - 1] \o b[k]
  PROVE  AddItems(MeasureSummands(MeasureLens(arrays))).out.sum = Len(G[Len(b)])
<1> DEFINE n == Len(arrays)
           K == Len(b)
           lens == MeasureLens(arrays)
           ss == MeasureSummands(lens)
           I == {i \in 1..n : Unaddable(ss[i])}
           stop == SelectInSeq(ss, Unaddable)
           seen == IF stop = 0 THEN ss ELSE SubSeq(ss, 1, stop - 1)
<1>1. n \in Nat /\ K \in Nat /\ K =< n /\ \A i \in 1..K : b[i] = arrays[i] /\ b[i] \in Seq(Items)
  BY BeforeIs
<1>2. lens = [i \in 1..n |-> IF i =< K THEN Len(arrays[i]) ELSE Missing]
  BY Zenon DEF MeasureLens, LenArrays, Gives
<1>3. ASSUME NEW i \in 1..n PROVE lens[i] \in Int /\ (lens[i] = Missing <=> ~(i =< K))
                                  /\ (i =< K => lens[i] = Len(b[i]))
  <2>1. CASE i =< K
    <3>1. i \in 1..K
      BY <1>1, <2>1
    <3>2. Len(b[i]) \in Nat /\ lens[i] = Len(b[i])
      BY <1>1, <1>2, <2>1, <3>1
    <3> QED
      BY <2>1, <3>2 DEF Missing
  <2>2. CASE ~(i =< K)
    BY <1>2, <2>2 DEF Missing
  <2> QED
    BY <2>1, <2>2
<1>4. Len(lens) = n
  BY <1>1, <1>2
<1> HIDE DEF lens, K, n
<1> DEFINE summand(i) == [type |-> IF lens[i] = Missing THEN "missing" ELSE "number", n |-> lens[i], float |-> FALSE]
<1>5. ss = [i \in 1..n |-> summand(i)]
  BY <1>4 DEF MeasureSummands
<1>6. ASSUME NEW i \in 1..n
      PROVE  /\ ss[i] \in Summands /\ ss[i].n = lens[i]
             /\ Unaddable(ss[i]) <=> ~(i =< K)
             /\ Added(ss[i]) <=> i =< K
  <2>1. ss[i] = summand(i)
    BY <1>5
  <2>2. summand(i).n = lens[i] /\ summand(i).type = IF lens[i] = Missing THEN "missing" ELSE "number"
    OBVIOUS
  <2>3. summand(i) \in Summands
    BY <1>3 DEF Summands
  <2> HIDE DEF summand
  <2> QED
    BY <1>3, <2>1, <2>2, <2>3 DEF Unaddable, Added
<1>7. ss \in Seq(Summands) /\ Len(ss) = n
  BY <1>1, <1>5, <1>6
<1>8. stop = IF I # {} THEN Min(I) ELSE 0
  BY <1>7 DEF SelectInSeq
<1> HIDE DEF ss, stop
<1>9. seen \in Seq(Summands) /\ Len(seen) = K /\ \A k \in 1..K : seen[k] = ss[k]
  <2>1. CASE K = n
    <3>1. I = {}
      BY <1>1, <1>6, <2>1
    <3>2. seen = ss
      BY <1>8, <3>1
    <3> QED
      BY <1>7, <2>1, <3>2
  <2>2. CASE K < n
    <3> DEFINE m == Min(I)
    <3>1. K + 1 \in I /\ I \in SUBSET (1..n)
      BY <1>1, <1>6, <2>2
    <3>2. m \in I /\ \A i \in I : m =< i
      <4> HIDE DEF I
      <4> QED
        BY <1>1, <3>1, Least
    <3>3. stop = m
      BY <1>8, <3>1
    <3> HIDE DEF m
    <3>4. m \in 1..n /\ ~(m =< K) /\ m =< K + 1
      BY <1>6, <3>1, <3>2
    <3>5. stop = K + 1 /\ stop # 0
      BY <1>1, <3>3, <3>4
    <3>6. seen = SubSeq(ss, 1, K)
      BY <1>1, <3>5
    <3> HIDE DEF seen
    <3> QED
      BY <1>1, <1>7, <2>2, <3>6
  <2> QED
    BY <1>1, <2>1, <2>2
<1>10. AddItems(ss).out.sum = Result(seen).sum
  <2>1. AddItems(ss) = Gives(Result(seen))
    BY Zenon DEF AddItems, stop
  <2> QED
    BY <2>1 DEF Gives
<1> HIDE DEF seen
<1>11. PICK S \in [0..K -> Int] :
         /\ S[0] = 0
         /\ \A k \in 1..K : S[k] = AddTurn(S[k - 1], seen[k])
         /\ Result(seen).sum = S[K]
  BY <1>9, SumIsWalk
<1> DEFINE Q == {k \in 0..K : S[k] = Len(G[k])}
<1>12. 0 \in Q
  BY <1>1, <1>11
<1>13. ASSUME NEW k \in 1..K, k - 1 \in Q PROVE k \in Q
  <2>1. k \in 0..K /\ k - 1 \in 0..K /\ k \in 1..n /\ k =< K
    BY <1>1
  <2>2. S[k - 1] = Len(G[k - 1]) /\ G[k - 1] \in Seq(Items) /\ b[k] \in Seq(Items) /\ G[k] = G[k - 1] \o b[k]
    BY <1>1, <1>13, <2>1 DEF K
  <2>3. seen[k] = ss[k] /\ Added(ss[k]) /\ ss[k].n = Len(b[k])
    BY <1>3, <1>6, <1>9, <2>1
  <2>4. S[k] = S[k - 1] + Len(b[k])
    BY <1>11, <2>3 DEF AddTurn
  <2>5. Len(G[k]) = Len(G[k - 1]) + Len(b[k])
    BY <2>2
  <2> QED
    BY <2>1, <2>2, <2>4, <2>5
<1> HIDE DEF Q
<1>14. \A k \in 0..K : k \in Q
  BY <1>1, <1>12, <1>13, Reaches
<1>15. K \in 0..K
  BY <1>1
<1> QED
  BY <1>10, <1>11, <1>14, <1>15 DEF Q, K, ss, lens

Total(x) == IF x.type = "none" THEN <<>> ELSE x.items

\* What is merged of two arguments is the one's items and then the other's.
LEMMA TotalMerges ==
  ASSUME NEW a \in Merged, NEW b \in Merged
  PROVE  /\ Total(a) \in Seq(Items) /\ Total(b) \in Seq(Items)
         /\ Total(MergeFunction(a, b)) = Total(a) \o Total(b)
<1>1. a.type \in {"none", "array"} /\ b.type \in {"none", "array"}
  BY DEF Merged
<1>2. a.type = "none" => MergeFunction(a, b) = b
  BY <1>1, Zenon DEF MergeFunction
<1>3. a.type # "none" /\ b.type = "none" => MergeFunction(a, b) = a
  BY <1>1, Zenon DEF MergeFunction
<1>4. a.type # "none" /\ b.type # "none" => MergeFunction(a, b) = [type |-> "array", items |-> a.items \o b.items]
  BY <1>1, Zenon DEF MergeFunction
<1>5. /\ a.type # "none" => a.items \in Seq(Items)
      /\ b.type # "none" => b.items \in Seq(Items)
  BY DEF Merged
<1>6. Total(a) \in Seq(Items) /\ Total(b) \in Seq(Items)
  BY <1>5 DEF Total
<1>7. \A s \in Seq(Items) : s \o <<>> = s /\ <<>> \o s = s
  OBVIOUS
<1>8. CASE a.type = "none"
  BY <1>2, <1>6, <1>7, <1>8 DEF Total
<1>9. CASE a.type # "none" /\ b.type = "none"
  BY <1>3, <1>6, <1>7, <1>9 DEF Total
<1>10. CASE a.type # "none" /\ b.type # "none"
  <2> DEFINE o == a.items \o b.items
  <2>1. [type |-> "array", items |-> o].type = "array" /\ [type |-> "array", items |-> o].items = o
    OBVIOUS
  <2>2. "array" # "none"
    OBVIOUS
  <2>3. Total(a) = a.items /\ Total(b) = b.items
    BY <1>10 DEF Total
  <2> HIDE DEF o
  <2>4. Total([type |-> "array", items |-> o]) = o
    BY <2>1, <2>2 DEF Total
  <2> QED
    BY <1>4, <1>6, <1>10, <2>3, <2>4 DEF o
<1> QED
  BY <1>6, <1>8, <1>9, <1>10

Argument(a) == IF IsArray(a) THEN [type |-> "array", items |-> a] ELSE [type |-> "none"]

MergedArguments(arrays) ==
  FoldLeft(MergeFunction, [type |-> "none"], [i \in 1..Len(arrays) |-> Argument(arrays[i])])

\* The function merges at least what merge-arrays does.
LEMMA FunctionFits ==
  ASSUME NEW arrays \in Seq(Arrays), NEW b, b = BeforeNone(arrays),
         NEW G \in [0..Len(b) -> Seq(Items)], G[0] = <<>>, \A k \in 1..Len(b) : G[k] = G[k - 1] \o b[k],
         NEW t, t = Total(MergedArguments(arrays))
  PROVE  /\ IsPrefix(G[Len(b)], t)
         /\ Len(b) = Len(arrays) => t = G[Len(b)]
<1> DEFINE n == Len(arrays)
           K == Len(b)
           as == [i \in 1..n |-> Argument(arrays[i])]
           g == G[K]
<1>1. n \in Nat /\ K \in Nat /\ K =< n
      /\ \A i \in 1..K : b[i] = arrays[i] /\ IsArray(arrays[i]) /\ b[i] \in Seq(Items)
  BY BeforeIs
<1>2. ASSUME NEW i \in 1..n PROVE as[i] \in Merged /\ (IsArray(arrays[i]) => Total(as[i]) = arrays[i])
  <2>1. CASE IsArray(arrays[i])
    <3> DEFINE a == arrays[i]
    <3>1. a \in Seq(Items)
      BY <2>1 DEF Arrays, ItemLists, IsArray
    <3>2. as[i] = [type |-> "array", items |-> a]
      BY <2>1 DEF Argument
    <3> HIDE DEF a, as
    <3>3. [type |-> "array", items |-> a] \in [type : {"array"}, items : Seq(Items)]
      BY <3>1
    <3>4. as[i] \in Merged
      BY <3>2, <3>3 DEF Merged
    <3>5. as[i].type = "array" /\ as[i].items = a /\ "array" # "none"
      BY <3>2
    <3>6. Total(as[i]) = a
      BY <3>5 DEF Total
    <3> QED
      BY <3>4, <3>6 DEF a
  <2>2. CASE ~IsArray(arrays[i])
    BY <2>2 DEF Argument, Merged
  <2> QED
    BY <2>1, <2>2
<1>3. as \in Seq(Merged) /\ Len(as) = n
  BY <1>1, <1>2
<1> HIDE DEF as, n, K
<1>4. PICK H \in [0..n -> Merged] :
        /\ H[0] = [type |-> "none"]
        /\ \A k \in 1..n : H[k] = MergeFunction(H[k - 1], as[k])
        /\ FoldLeft(MergeFunction, [type |-> "none"], as) = H[n]
  BY <1>3, MergeIsWalk
<1>5. \A k \in 0..n : Total(H[k]) \in Seq(Items)
  BY TotalMerges
<1>6. ASSUME NEW k \in 1..n
      PROVE  Total(H[k]) = Total(H[k - 1]) \o Total(as[k]) /\ Total(H[k - 1]) \in Seq(Items) /\ Total(as[k]) \in Seq(Items)
  <2>1. k - 1 \in 0..n
    BY <1>1
  <2>2. H[k - 1] \in Merged /\ as[k] \in Merged /\ H[k] = MergeFunction(H[k - 1], as[k])
    BY <1>2, <1>4, <2>1
  <2> QED
    BY <2>2, TotalMerges
<1>7. g \in Seq(Items)
  BY <1>1 DEF K
<1> DEFINE Fit(k) == /\ k =< K => Total(H[k]) = G[k]
                     /\ k >= K => IsPrefix(g, Total(H[k]))
           S == {k \in 0..n : Fit(k)}
<1>8. \A s \in Seq(Items) : IsPrefix(s, s)
  BY DEF IsPrefix
<1>9. ASSUME NEW k \in 0..n, k =< K => Total(H[k]) = G[k], k > K => IsPrefix(g, Total(H[k])) PROVE k \in S
  <2>1. k = K => IsPrefix(g, Total(H[k]))
    BY <1>7, <1>8, <1>9
  <2>2. k \in Nat
    BY <1>1
  <2>3. k >= K => k = K \/ k > K
    BY <1>1, <2>2
  <2> HIDE DEF g
  <2> QED
    BY <1>9, <2>1, <2>3
<1> HIDE DEF S, Fit
<1>10. 0 \in S
  <2>1. 0 \in 0..n /\ ~(0 > K)
    BY <1>1
  <2>2. Total([type |-> "none"]) = <<>>
    BY DEF Total
  <2>3. Total(H[0]) = G[0]
    BY <1>4, <2>2, Zenon
  <2> QED
    BY <1>9, <2>1, <2>3
<1>11. ASSUME NEW k \in 1..n, k - 1 \in S PROVE k \in S
  <2>1. k \in 0..n /\ k - 1 \in 0..n /\ k \in Nat
    BY <1>1
  <2>2. Fit(k - 1)
    BY <1>11 DEF S
  <2>3. CASE k =< K
    <3>1. k \in 1..K /\ k - 1 =< K /\ ~(k > K)
      BY <1>1, <2>1, <2>3
    <3>2. Total(H[k - 1]) = G[k - 1]
      BY <2>2, <3>1 DEF Fit
    <3>3. Total(as[k]) = b[k]
      BY <1>1, <1>2, <3>1
    <3>4. G[k] = G[k - 1] \o b[k]
      BY <3>1 DEF K
    <3>5. Total(H[k]) = G[k]
      BY <1>6, <3>2, <3>3, <3>4
    <3> QED
      BY <1>9, <2>1, <3>1, <3>5
  <2>4. CASE k > K
    <3>1. k - 1 >= K /\ ~(k =< K)
      BY <1>1, <2>1, <2>4
    <3> DEFINE u == Total(H[k - 1])
               w == Total(as[k])
    <3>2. IsPrefix(g, u)
      BY <2>2, <3>1 DEF Fit
    <3>3. u \in Seq(Items) /\ w \in Seq(Items) /\ Total(H[k]) = u \o w
      BY <1>6
    <3> HIDE DEF u, w, g
    <3>4. IsPrefix(g, u \o w)
      <4> DEFINE o == u \o w
      <4>1. o \in Seq(Items) /\ Len(o) = Len(u) + Len(w) /\ Len(g) \in Nat /\ Len(u) \in Nat /\ Len(w) \in Nat
            /\ \A i \in 1..Len(u) : o[i] = u[i]
        BY <1>7, <3>3
      <4>2. Len(g) =< Len(u) /\ SubSeq(g, 1, Len(g)) = SubSeq(u, 1, Len(g))
        BY <3>2 DEF IsPrefix
      <4>3. SubSeq(u, 1, Len(g)) = SubSeq(o, 1, Len(g))
        <5> HIDE DEF o
        <5>1. \A i \in 1..Len(g) : u[i] = o[i]
          BY <4>1, <4>2
        <5>2. /\ SubSeq(u, 1, Len(g)) = [i \in 1..Len(g) |-> u[i]]
              /\ SubSeq(o, 1, Len(g)) = [i \in 1..Len(g) |-> o[i]]
          BY <3>3, <4>1, <4>2
        <5> QED
          BY <5>1, <5>2
      <4>4. Len(g) =< Len(o)
        BY <4>1, <4>2
      <4> HIDE DEF o
      <4>5. IsPrefix(g, o)
        BY <4>2, <4>3, <4>4 DEF IsPrefix
      <4> QED
        BY <4>5 DEF o
    <3>5. IsPrefix(g, Total(H[k]))
      BY <3>3, <3>4
    <3> QED
      BY <1>9, <2>1, <3>1, <3>5
  <2> QED
    BY <1>1, <2>1, <2>3, <2>4
<1>12. \A k \in 0..n : k \in S
  BY <1>1, <1>10, <1>11, Reaches
<1>13. n \in 0..n
  BY <1>1
<1>14. Fit(n)
  BY <1>12, <1>13 DEF S
<1>15. t = Total(H[n])
  BY <1>4 DEF as, n, MergedArguments
<1>16. n >= K /\ (K = n => n =< K)
  BY <1>1
<1>17. IsPrefix(g, t) /\ (K = n => t = G[K])
  BY <1>14, <1>15, <1>16 DEF Fit
<1> QED
  BY <1>17 DEF K, n

Measured(c) ==
  LET lens == LenArrays(c.arrays).out
      summands == [i \in 1..Len(lens) |->
                     [type |-> IF lens[i] = Missing THEN "missing" ELSE "number",
                      n |-> lens[i], float |-> FALSE]]
  IN [merged |-> MergeItems(c.arrays), lens |-> lens, added |-> AddItems(summands).out,
      filtered |-> FilterArrayItems(c.arrays, TRUE, <<>>),
      shifted |-> ShiftArrayItems(c.arrays, TRUE, <<>>, FALSE, FALSE, Nat),
      function |-> FoldLeft(MergeFunction, [type |-> "none"],
                     [i \in 1..Len(c.arrays) |->
                        IF IsArray(c.arrays[i]) THEN [type |-> "array", items |-> c.arrays[i]]
                        ELSE [type |-> "none"]])]

\* What the operators that go through arrays of arrays answer to any of them.
LEMMA MeasuresFit ==
  ASSUME NEW c, c.arrays \in Seq(Arrays), NEW r, r = Measured(c)
  PROVE  LET total == IF r.function.type = "none" THEN <<>> ELSE r.function.items
         IN /\ r.filtered.err = r.shifted.err
            /\ ~r.merged.err => Len(r.merged.out) = r.added.sum /\ IsPrefix(r.merged.out, total)
            /\ ~r.filtered.err => ~r.merged.err /\ r.merged.out = total /\ total = FlattenSeq(c.arrays)
<1> DEFINE arrays == c.arrays
           b == BeforeNone(arrays)
           f == NestedFilter(arrays)
           x == NestedShift(arrays)
           fun == MergedArguments(arrays)
           sum == AddItems(MeasureSummands(MeasureLens(arrays))).out.sum
           m == MergeItems(arrays)
<1>1. /\ r.merged = m /\ r.added.sum = sum
      /\ r.filtered = f /\ r.shifted = x /\ r.function = fun
  BY Zenon DEF Measured, MeasureSummands, MeasureLens, Argument, NestedFilter, NestedShift, MergedArguments
<1>2. /\ b \in Seq(Seq(Items)) /\ Len(b) =< Len(arrays)
      /\ \A i \in 1..Len(b) : b[i] = arrays[i] /\ IsArray(arrays[i])
      /\ FirstNone(arrays) = 0 => b = arrays
      /\ Len(b) < Len(arrays) => ~IsArray(arrays[Len(b) + 1])
  BY BeforeIs
<1>3. PICK G \in [0..Len(b) -> Seq(Items)] :
        /\ G[0] = <<>>
        /\ \A k \in 1..Len(b) : G[k] = G[k - 1] \o b[k]
        /\ FlattenSeq(b) = G[Len(b)]
  BY <1>2, FlattenIsWalk
<1> DEFINE g == G[Len(b)]
           total == IF fun.type = "none" THEN <<>> ELSE fun.items
<1>4. sum = Len(g)
  BY <1>3, SumFits
<1>5. IsPrefix(g, total) /\ (Len(b) = Len(arrays) => total = g)
  <2> DEFINE t == Total(fun)
  <2>1. IsPrefix(g, t) /\ (Len(b) = Len(arrays) => t = g)
    <3>1. arrays \in Seq(Arrays)
      OBVIOUS
    <3>2. G[0] = <<>> /\ \A k \in 1..Len(b) : G[k] = G[k - 1] \o b[k]
      BY <1>3
    <3> HIDE DEF arrays, fun, b
    <3>3. b = BeforeNone(arrays) /\ t = Total(MergedArguments(arrays))
      BY DEF b, fun
    <3> HIDE DEF t
    <3> QED
      BY <3>1, <3>2, <3>3, FunctionFits
  <2> QED
    BY <2>1 DEF Total
<1>6. f.err = x.err /\ (~f.err => \A i \in 1..Len(arrays) : IsArray(arrays[i]))
  BY NestedFails
<1>7. m = IF FirstNone(arrays) # 0 /\ g # <<>> THEN Fails ELSE Gives(g)
  BY <1>3, Zenon DEF MergeItems
<1>8. Fails.err = TRUE /\ \A y : Gives(y).err = FALSE /\ Gives(y).out = y
  BY DEF Fails, Gives
<1>9. Len(arrays) \in Nat /\ Len(b) \in Nat
  BY <1>2
<1> HIDE DEF arrays, b, f, x, fun, sum, m, g, total
<1>10. ~m.err => m.out = g
  BY <1>7, <1>8
<1>11. ASSUME ~f.err PROVE ~m.err /\ m.out = total /\ total = FlattenSeq(arrays)
  <2>1. Len(b) = Len(arrays)
    <3> SUFFICES ASSUME Len(b) < Len(arrays) PROVE FALSE
      BY <1>2, <1>9
    <3>1. Len(b) + 1 \in 1..Len(arrays)
      BY <1>9
    <3> QED
      BY <1>2, <1>6, <1>11, <3>1
  <2>2. FirstNone(arrays) = 0
    <3> DEFINE I == {i \in 1..Len(arrays) : ~IsArray(arrays[i])}
    <3>1. FirstNone(arrays) = IF I # {} THEN Min(I) ELSE 0
      BY DEF FirstNone, SelectInSeq
    <3>2. I = {}
      BY <1>6, <1>11
    <3> QED
      BY <3>1, <3>2
  <2>3. m = Gives(g) /\ b = arrays
    BY <1>2, <1>7, <2>2
  <2> QED
    BY <1>3, <1>5, <1>8, <2>1, <2>3 DEF g
<1>12. total = IF r.function.type = "none" THEN <<>> ELSE r.function.items
  BY <1>1, Zenon DEF total
<1> QED
  BY <1>1, <1>4, <1>5, <1>6, <1>10, <1>11, <1>12 DEF arrays

-----------------------------------------------------------------------------
(***************************************************************************)
(* What set-properties writes.                                             *)
(***************************************************************************)
\* What set-properties makes of a document, where it fails and where it loses it included.
Doc == [attr : Values, items : Seq(Out) \cup {NotArray}]
Good(w) == \E d \in Doc : w = Gives(d)
DocAnswers == {Gives(d) : d \in Doc} \cup {Fails, Gives(Lost)}

\* Documents, lost ones and answers without one are told apart.
LEMMA DocFacts ==
  /\ \A d \in Documents : d \in Doc
  /\ \A d \in Doc : d # Lost /\ (IsArray(d.items) <=> d.items \in Seq(Out))
                    /\ (~IsArray(d.items) <=> d.items = NotArray) /\ d.attr \in Values
  /\ Lost.items = NotArray /\ ~IsArray(NotArray)
  /\ ~Good(Fails) /\ ~Good(Gives(Lost))
<1>1. ASSUME NEW d \in Documents PROVE d \in Doc
  <2>1. d.items \in Seq(Out) \cup {NotArray} /\ d.attr \in Values /\ d = [attr |-> d.attr, items |-> d.items]
    <3>1. \A it \in Items : it \in Out
      BY ItemsOut
    <3>2. d.items \in Arrays /\ d.attr \in Values /\ d = [attr |-> d.attr, items |-> d.items]
      BY DEF Documents
    <3>3. \A s \in Seq(Items) : s \in Seq(Out)
      BY <3>1
    <3> QED
      BY <3>2, <3>3 DEF Arrays, ItemLists
  <2> QED
    BY <2>1 DEF Doc
<1>2. ASSUME NEW d \in Doc PROVE d # Lost
  <2>1. DOMAIN d = {"attr", "items"}
    BY DEF Doc
  <2>2. DOMAIN Lost = {"attr", "items", "lost"}
    BY DEF Lost
  <2> QED
    BY <2>1, <2>2
<1>3. NotArray \notin Seq(Out)
  <2> SUFFICES ASSUME NotArray \in Seq(Out) PROVE FALSE
    OBVIOUS
  <2>1. Len(NotArray) = 1 /\ NotArray[1] = [type |-> "not an array"]
    BY DEF NotArray
  <2>2. \A s \in Seq(Out) : Len(s) = 1 => s[1] \in Out
    BY ElementOfSeq
  <2>3. NotArray[1] \in Out
    BY <2>1, <2>2
  <2>4. \A x \in Out : x.type \in Types
    BY DEF Out
  <2>5. NotArray[1].type \in Types
    BY <2>3, <2>4
  <2>6. NotArray[1].type = "not an array"
    <3>1. [type |-> "not an array"].type = "not an array"
      OBVIOUS
    <3> QED
      BY <2>1, <3>1, Zenon
  <2> QED
    BY <2>5, <2>6 DEF Types
<1>4. \A d \in Doc : d.items \in Seq(Out) \cup {NotArray} /\ d.attr \in Values
  BY DEF Doc
<1>5. Lost.items = NotArray
  BY DEF Lost
<1>6. Fails.err # Gives(Lost).err /\ \A d : Gives(d).err = FALSE /\ Gives(d).out = d
  BY DEF Fails, Gives
<1>7. Fails.err = TRUE
  BY DEF Fails
<1>8. ~Good(Fails)
  BY <1>6, <1>7 DEF Good
<1>9. ~Good(Gives(Lost))
  <2> SUFFICES ASSUME NEW d \in Doc, Gives(Lost) = Gives(d) PROVE FALSE
    BY DEF Good
  <2>1. Lost = d
    BY <1>6
  <2> QED
    BY <1>2, <2>1
<1> HIDE DEF Lost, NotArray
<1> QED
  BY <1>1, <1>2, <1>3, <1>4, <1>5, <1>8, <1>9 DEF IsArray

\* Whether a property is to be set.
LEMMA ShouldIs ==
  ASSUME NEW p \in Properties, NEW a \in Values
  PROVE  /\ ShouldBeSet(p, a) \in {"yes", "no", "error"}
         /\ p.ifMissing /\ a \notin {Missing, Null} => ShouldBeSet(p, a) = "no"
<1> DEFINE c == p.criterion
<1>1. c.type \in {"empty", "term", "expression"}
  <2>1. p.criterion \in CriteriaKinds
    BY DEF Properties
  <2> QED
    BY <2>1 DEF CriteriaKinds
<1> HIDE DEF c
<1>2. TermVerdict(c, a) \in {"yes", "no", "error"}
  BY DEF TermVerdict
<1>3. ExpressionVerdict(c, a, 0) \in {"yes", "no", "error"}
  BY DEF ExpressionVerdict
<1>4. Verdict(c, a, 0) \in {"yes", "no", "error"}
  BY <1>1, <1>2, <1>3 DEF Verdict
<1>5. ShouldBeSet(p, a) \in {"yes", "no", "error"}
  BY <1>4 DEF ShouldBeSet, c
<1> QED
  BY <1>5 DEF ShouldBeSet

\* What one property does to a document.
LEMMA PlainIs ==
  ASSUME NEW p \in Properties, NEW d \in Doc, NEW v, v = ShouldBeSet(p, d.attr), NEW w, w = SetPlain(d, p)
  PROVE  /\ v = "error" \/ (v = "yes" /\ p.value = Missing) => w = Fails
         /\ v = "yes" /\ p.value # Missing => w = Gives([attr |-> p.value, items |-> d.items])
         /\ v = "no" => w = Gives(d)
<1>1. d # Lost
  BY DocFacts
<1> QED
  BY <1>1, Zenon DEF SetPlain

\* It sets some items, each asked for; all that are if nothing fails on the way.
LEMMA EachIs ==
  ASSUME NEW p \in Properties, NEW d \in Doc, IsArray(d.items), NEW w, w = SetEach(d, p)
  PROVE  \E e \in Doc :
           /\ w = Gives(e)
           /\ e.attr = d.attr /\ IsArray(e.items) /\ Len(e.items) = Len(d.items)
           /\ \A i \in 1..Len(d.items) :
                \/ e.items[i] = d.items[i]
                \/ /\ ShouldBeSet(p, d.items[i].attr) = "yes" /\ p.value # Missing
                   /\ e.items[i].attr = p.value
           /\ (\A i \in 1..Len(d.items) : ShouldBeSet(p, d.items[i].attr) # "error") /\ p.value # Missing =>
                \A i \in 1..Len(d.items) : ShouldBeSet(p, d.items[i].attr) = "yes" => e.items[i].attr = p.value
<1> DEFINE s == d.items
           n == Len(s)
           v(i) == ShouldBeSet(p, s[i].attr)
           fails(i) == v(i) = "error" \/ (v(i) = "yes" /\ p.value = Missing)
           q == [i \in 1..n |-> i]
           I == {i \in 1..n : fails(q[i])}
           stop == SelectInSeq(q, LAMBDA i : fails(i))
           set(i) == (stop = 0 \/ i < stop) /\ v(i) = "yes"
           t == [i \in 1..n |-> IF set(i) THEN Item(s[i].type, s[i].id, p.value, p.of) ELSE s[i]]
           e == [attr |-> d.attr, items |-> t]
<1>1. s \in Seq(Out) /\ n \in Nat /\ d.attr \in Values /\ p.value \in Values /\ p.of \in JsonTypes
  BY DocFacts DEF Properties
<1>2. w = Gives(e)
  BY Zenon DEF SetEach
<1>3. stop = IF I # {} THEN Min(I) ELSE 0
  <2>1. Len(q) = n
    BY <1>1
  <2> QED
    BY <2>1 DEF SelectInSeq
<1>4. /\ stop \in 0..n
      /\ stop = 0 => \A i \in 1..n : ~fails(i)
      /\ stop # 0 => \A i \in 1..n : fails(i) => stop =< i
  <2>1. \A i \in 1..n : i \in I <=> fails(i)
    BY <1>1
  <2>2. I # {} => Min(I) \in I /\ \A i \in I : Min(I) =< i
    <3>1. I \in SUBSET (1..n)
      OBVIOUS
    <3> HIDE DEF I
    <3> QED
      BY <1>1, <3>1, Least
  <2>3. I \subseteq 1..n
    OBVIOUS
  <2> HIDE DEF I, stop, fails, n
  <2>4. CASE I = {}
    BY <1>1, <1>3, <2>1, <2>4
  <2>5. CASE I # {}
    <3> DEFINE m == Min(I)
    <3>1. m \in I /\ (\A i \in I : m =< i) /\ stop = m
      BY <1>3, <2>2, <2>5
    <3>2. m \in 1..n
      BY <2>3, <3>1
    <3>3. stop \in 0..n /\ stop # 0
      BY <1>1, <3>1, <3>2
    <3> QED
      BY <2>1, <3>1, <3>3
  <2> QED
    BY <2>4, <2>5
<1>5. \A i \in 1..n : set(i) => v(i) = "yes" /\ p.value # Missing
  <2> SUFFICES ASSUME NEW i \in 1..n, set(i), p.value = Missing PROVE FALSE
    OBVIOUS
  <2>1. fails(i)
    OBVIOUS
  <2>2. stop = 0 \/ i < stop
    OBVIOUS
  <2> HIDE DEF fails, stop, set
  <2> QED
    BY <1>1, <1>4, <2>1, <2>2
<1>6. (\A i \in 1..n : v(i) # "error") /\ p.value # Missing => \A i \in 1..n : v(i) = "yes" => set(i)
  <2> SUFFICES ASSUME \A i \in 1..n : v(i) # "error", p.value # Missing PROVE stop = 0
    OBVIOUS
  <2>1. \A i \in 1..n : ~fails(i)
    OBVIOUS
  <2>2. I = {}
    BY <2>1
  <2> QED
    BY <1>3, <2>2
<1>7. \A i \in 1..n : /\ s[i] \in Out
                      /\ Item(s[i].type, s[i].id, p.value, p.of) \in Out
                      /\ Item(s[i].type, s[i].id, p.value, p.of).attr = p.value
  <2> SUFFICES ASSUME NEW i \in 1..n
               PROVE /\ s[i] \in Out
                     /\ Item(s[i].type, s[i].id, p.value, p.of) \in Out
                     /\ Item(s[i].type, s[i].id, p.value, p.of).attr = p.value
    OBVIOUS
  <2> DEFINE x == s[i]
  <2>1. x \in Out
    BY <1>1
  <2>2. x.type \in Types /\ x.id \in Nat
    BY <2>1 DEF Out
  <2> HIDE DEF x
  <2>3. Item(x.type, x.id, p.value, p.of) \in Out /\ Item(x.type, x.id, p.value, p.of).attr = p.value
    BY <1>1, <2>2 DEF Item, Out
  <2> QED
    BY <2>1, <2>3 DEF x
<1> HIDE DEF stop, s
<1>8. /\ \A i \in 1..n : t[i] = IF set(i) THEN Item(s[i].type, s[i].id, p.value, p.of) ELSE s[i]
      /\ t \in Seq(Out) /\ Len(t) = n
  <2> HIDE DEF set
  <2>1. \A i \in 1..n : t[i] = (IF set(i) THEN Item(s[i].type, s[i].id, p.value, p.of) ELSE s[i]) /\ t[i] \in Out
    BY <1>7
  <2>2. t \in [1..n -> Out]
    BY <2>1
  <2> HIDE DEF t
  <2> QED
    BY <1>1, <2>1, <2>2
<1> HIDE DEF t, set
<1>9. e \in Doc /\ e.attr = d.attr /\ e.items = t
  BY <1>1, <1>8 DEF Doc
<1>10. IsArray(e.items)
  BY <1>8, <1>9, DocFacts
<1>11. \A i \in 1..n : \/ t[i] = s[i]
                       \/ v(i) = "yes" /\ p.value # Missing /\ t[i].attr = p.value
  BY <1>5, <1>7, <1>8
<1>12. (\A i \in 1..n : v(i) # "error") /\ p.value # Missing => \A i \in 1..n : v(i) = "yes" => t[i].attr = p.value
  BY <1>6, <1>7, <1>8
<1> HIDE DEF e
<1> QED
  BY <1>2, <1>8, <1>9, <1>10, <1>11, <1>12 DEF s

\* It loses a document without the array.
LEMMA NotEach ==
  ASSUME NEW p, NEW d, d.items = NotArray PROVE SetEach(d, p) = Gives(Lost)
<1>1. ~IsArray(d.items)
  BY DocFacts
<1> QED
  BY <1>1, Zenon DEF SetEach

\* And what is lost or failed stays lost or failed.
LEMMA LostStays ==
  ASSUME NEW p \in Properties
  PROVE  SetProperty(Fails, p) = Fails /\ SetProperty(Gives(Lost), p) \in {Fails, Gives(Lost)}
<1>1. Fails.err = TRUE /\ Gives(Lost).err = FALSE /\ Gives(Lost).out = Lost
  BY DEF Fails, Gives
<1>2. SetProperty(Fails, p) = Fails
  BY <1>1, Zenon DEF SetProperty
<1>3. SetProperty(Gives(Lost), p) = IF p.each THEN SetEach(Lost, p) ELSE SetPlain(Lost, p)
  BY <1>1 DEF SetProperty
<1>4. SetEach(Lost, p) = Gives(Lost)
  BY DocFacts, NotEach
<1>5. SetPlain(Lost, p) \in {Fails, Gives(Lost)}
  <2> DEFINE v == ShouldBeSet(p, Lost.attr)
  <2>1. v = "error" \/ v = "yes" => SetPlain(Lost, p) = Fails
    BY Zenon DEF SetPlain
  <2>2. v # "error" /\ v # "yes" => SetPlain(Lost, p) = Gives(Lost)
    BY Zenon DEF SetPlain
  <2> HIDE DEF v
  <2> QED
    BY <2>1, <2>2
<1> QED
  BY <1>2, <1>3, <1>4, <1>5

\* A property leaves an answer.
LEMMA SetPropertyType ==
  ASSUME NEW r \in DocAnswers, NEW p \in Properties PROVE SetProperty(r, p) \in DocAnswers
<1>1. CASE r \in {Fails, Gives(Lost)}
  BY <1>1, LostStays DEF DocAnswers
<1>2. CASE \E d \in Doc : r = Gives(d)
  <2>1. PICK d \in Doc : r = Gives(d)
    BY <1>2
  <2>2. r.err = FALSE /\ r.out = d
    BY <2>1 DEF Gives
  <2>3. SetProperty(r, p) = IF p.each THEN SetEach(d, p) ELSE SetPlain(d, p)
    BY <2>2 DEF SetProperty
  <2>4. CASE p.each /\ IsArray(d.items)
    <3>1. PICK e \in Doc : SetEach(d, p) = Gives(e)
      BY <2>4, EachIs
    <3> QED
      BY <2>3, <2>4, <3>1 DEF DocAnswers
  <2>5. CASE p.each /\ ~IsArray(d.items)
    <3>1. SetEach(d, p) = Gives(Lost)
      BY <2>5, DocFacts, NotEach
    <3> QED
      BY <2>3, <2>5, <3>1 DEF DocAnswers
  <2>6. CASE ~p.each
    <3> DEFINE v == ShouldBeSet(p, d.attr)
               w == SetPlain(d, p)
    <3>1. v \in {"yes", "no", "error"} /\ d.attr \in Values /\ p.value \in Values
      BY DocFacts, ShouldIs DEF Properties
    <3>2. /\ v = "error" \/ (v = "yes" /\ p.value = Missing) => w = Fails
          /\ v = "yes" /\ p.value # Missing => w = Gives([attr |-> p.value, items |-> d.items])
          /\ v = "no" => w = Gives(d)
      BY PlainIs
    <3>3. [attr |-> p.value, items |-> d.items] \in Doc
      BY <3>1 DEF Doc
    <3> HIDE DEF v, w
    <3>4. w \in DocAnswers
      BY <3>1, <3>2, <3>3 DEF DocAnswers
    <3> QED
      BY <2>3, <2>6, <3>4 DEF w
  <2> QED
    BY <2>4, <2>5, <2>6
<1> QED
  BY <1>1, <1>2 DEF DocAnswers

\* set-properties is a walk through the properties.
LEMMA SetIsWalk ==
  ASSUME NEW doc \in Doc, NEW props \in Seq(Properties)
  PROVE  \E F \in [0..Len(props) -> DocAnswers] :
           /\ F[0] = Gives(doc)
           /\ \A k \in 1..Len(props) : F[k] = SetProperty(F[k - 1], props[k])
           /\ SetProperties(doc, props) = F[Len(props)]
<1> DEFINE n == Len(props)
           A == DocAnswers
           E == Properties
           q == props
           op == [p \in A \X E |-> SetProperty(p[1], p[2])]
           Loop(f) == [s \in SUBSET (DOMAIN q) |-> IF s = {} THEN Gives(doc)
                         ELSE SetProperty(f[s \ {Max(s)}], q[Max(s)])]
           h == CHOOSE f : f = Loop(f)
           F == [k \in 0..n |-> h[1..k]]
<1>1. n \in Nat /\ q \in [1..n -> E] /\ DOMAIN q = 1..n /\ \A k \in 1..n : q[k] = props[k]
  OBVIOUS
<1>2. \A a \in A, x \in E : SetProperty(a, x) \in A
  BY SetPropertyType
<1>3. Gives(doc) \in A
  BY DEF A, DocAnswers
<1>4. op \in [A \X E -> A] /\ \A a \in A, x \in E : op[<<a, x>>] = SetProperty(a, x)
  <2> HIDE DEF A, E, q, n
  <2> QED
    BY <1>2
<1>5. PICK g \in [SUBSET (1..n) -> A] : IsLoop(g, Gives(doc), op, q, n)
  <2> HIDE DEF n, A, E, op, q
  <2> QED
    BY <1>1, <1>3, <1>4, LoopExists
<1>6. g = Loop(g)
  <2> HIDE DEF op, A, E, q, n
  <2>1. \A s \in SUBSET (1..n) : s # {} => Max(s) \in 1..n /\ s \ {Max(s)} \in SUBSET (1..n)
    BY <1>1, Greatest
  <2>2. \A s \in SUBSET (1..n) : g[s] = Loop(g)[s]
    BY <1>1, <1>4, <1>5, <2>1 DEF IsLoop
  <2> QED
    BY <1>1, <2>2
<1>7. h = Loop(h)
  <2> HIDE DEF Loop
  <2> QED
    BY <1>6
<1>8. SetProperties(doc, props) = h[DOMAIN q]
  BY Zenon DEF SetProperties, FoldLeft, MapThenFoldSet
<1> HIDE DEF h, q, A, E, n
<1>9. F[0] = Gives(doc)
  BY <1>1, <1>7
<1>10. \A k \in 1..n : F[k] = SetProperty(F[k - 1], q[k])
  <2>1. \A s \in SUBSET (1..n) : s # {} => h[s] = SetProperty(h[s \ {Max(s)}], q[Max(s)])
    BY <1>1, <1>7
  <2>2. \A k \in 1..n : h[1..k] = SetProperty(h[1..(k - 1)], q[k])
    <3> HIDE DEF F
    <3> TAKE k \in 1..n
    <3>1. 1..k \in SUBSET (1..n) /\ 1..k # {} /\ Max(1..k) = k /\ (1..k) \ {k} = 1..(k - 1)
      BY <1>1, UpToTurn
    <3>2. h[1..k] = SetProperty(h[(1..k) \ {Max(1..k)}], q[Max(1..k)])
      BY <2>1, <3>1
    <3> QED
      BY <3>1, <3>2
  <2>3. \A k \in 1..n : k \in 0..n /\ k - 1 \in 0..n
    BY <1>1
  <2> QED
    BY <2>2, <2>3
<1>11. \A k \in 0..n : F[k] \in A
  <2> DEFINE S == {k \in 0..n : F[k] \in A}
  <2>1. 0 \in S
    BY <1>1, <1>3, <1>9
  <2>2. ASSUME NEW k \in 1..n, k - 1 \in S PROVE k \in S
    <3>1. k \in 0..n /\ F[k - 1] \in A /\ q[k] \in E
      BY <1>1, <2>2
    <3> HIDE DEF F
    <3> QED
      BY <1>2, <1>10, <3>1
  <2> HIDE DEF S
  <2>3. \A k \in 0..n : k \in S
    BY <1>1, <2>1, <2>2, Reaches
  <2> QED
    BY <2>3 DEF S
<1>12. F \in [0..n -> A] /\ SetProperties(doc, props) = F[n]
  <2>1. n \in 0..n
    BY <1>1
  <2>2. F[n] = h[DOMAIN q]
    BY <1>1, <2>1
  <2>3. SetProperties(doc, props) = F[n]
    BY <1>8, <2>2, Zenon
  <2> QED
    BY <1>11, <2>3
<1>13. \A k \in 1..n : F[k] = SetProperty(F[k - 1], props[k])
  BY <1>1, <1>10
<1> HIDE DEF F
<1>14. \E G \in [0..n -> A] : G[0] = Gives(doc) /\ (\A k \in 1..n : G[k] = SetProperty(G[k - 1], props[k]))
                                /\ SetProperties(doc, props) = G[n]
  BY <1>9, <1>12, <1>13
<1> QED
  BY <1>14 DEF n, A

\* A value is written, one of vs, only where there was none.
Written(old, new, vs) == new = old \/ (old \in {Missing, Null} /\ new \in vs)
DocWritten(d, e, vs) ==
  /\ Written(d.attr, e.attr, vs)
  /\ IsArray(d.items) <=> IsArray(e.items)
  /\ IsArray(d.items) =>
       /\ Len(e.items) = Len(d.items)
       /\ \A i \in 1..Len(d.items) : Written(d.items[i].attr, e.items[i].attr, vs)

\* To write nothing, or once more, is to write.
LEMMA WrittenThrough ==
  ASSUME NEW d, NEW e, NEW f, NEW vs
  PROVE  DocWritten(d, d, vs) /\ (DocWritten(d, e, vs) /\ DocWritten(e, f, vs) => DocWritten(d, f, vs))
<1>1. \A a, b, c : Written(a, a, vs) /\ (Written(a, b, vs) /\ Written(b, c, vs) => Written(a, c, vs))
  BY DEF Written
<1>2. DocWritten(d, d, vs)
  BY <1>1 DEF DocWritten
<1>3. ASSUME DocWritten(d, e, vs), DocWritten(e, f, vs) PROVE DocWritten(d, f, vs)
  <2>1. Written(d.attr, f.attr, vs) /\ (IsArray(d.items) <=> IsArray(f.items))
    BY <1>1, <1>3 DEF DocWritten
  <2>2. ASSUME IsArray(d.items)
        PROVE  /\ Len(f.items) = Len(d.items)
               /\ \A i \in 1..Len(d.items) : Written(d.items[i].attr, f.items[i].attr, vs)
    BY <1>1, <1>3, <2>2 DEF DocWritten
  <2> QED
    BY <2>1, <2>2 DEF DocWritten
<1> QED
  BY <1>2, <1>3

\* What is still a document was one before.
LEMMA GoodBefore ==
  ASSUME NEW r \in DocAnswers, NEW p \in Properties, Good(SetProperty(r, p)) PROVE Good(r)
<1>1. CASE r \in {Fails, Gives(Lost)}
  BY <1>1, LostStays, DocFacts
<1>2. CASE \E d \in Doc : r = Gives(d)
  BY <1>2 DEF Good
<1> QED
  BY <1>1, <1>2 DEF DocAnswers

\* The two ways a property is set.
LEMMA SetPropertyIs ==
  ASSUME NEW d, NEW p
  PROVE  /\ p.each => SetProperty(Gives(d), p) = SetEach(d, p)
         /\ ~p.each => SetProperty(Gives(d), p) = SetPlain(d, p)
<1>1. Gives(d).err = FALSE /\ Gives(d).out = d
  BY DEF Gives
<1> QED
  BY <1>1 DEF SetProperty

\* What one property, only to set where it is missing, writes.
LEMMA OneWrites ==
  ASSUME NEW p \in Properties, p.ifMissing, NEW vs, p.value = Missing \/ p.value \in vs,
         NEW d \in Doc, NEW e \in Doc, SetProperty(Gives(d), p) = Gives(e)
  PROVE  /\ DocWritten(d, e, vs)
         /\ p.each => IsArray(d.items)
<1>1. \A x : Gives(x).out = x /\ Gives(x) # Fails
  BY DEF Gives, Fails
<1>2. \A a \in Values : ShouldBeSet(p, a) = "yes" => a \in {Missing, Null}
  BY ShouldIs
<1>3. CASE p.each
  <2>1. SetEach(d, p) = Gives(e)
    BY <1>3, SetPropertyIs
  <2>2. IsArray(d.items)
    <3> SUFFICES ASSUME ~IsArray(d.items) PROVE FALSE
      OBVIOUS
    <3>1. Gives(e) = Gives(Lost)
      BY <2>1, DocFacts, NotEach
    <3> QED
      BY <1>1, <3>1, DocFacts
  <2>3. PICK x \in Doc :
           /\ SetEach(d, p) = Gives(x)
           /\ x.attr = d.attr /\ IsArray(x.items) /\ Len(x.items) = Len(d.items)
           /\ \A i \in 1..Len(d.items) :
                \/ x.items[i] = d.items[i]
                \/ /\ ShouldBeSet(p, d.items[i].attr) = "yes" /\ p.value # Missing
                   /\ x.items[i].attr = p.value
    BY <2>2, EachIs
  <2>4. x = e
    BY <1>1, <2>1, <2>3
  <2>5. ASSUME NEW i \in 1..Len(d.items) PROVE d.items[i].attr \in Values
    <3>1. d.items \in Seq(Out)
      BY <2>2, DocFacts
    <3>2. d.items[i] \in Out
      BY <3>1, ElementOfSeq
    <3> QED
      BY <3>2 DEF Out
  <2> QED
    BY <1>2, <2>2, <2>3, <2>4, <2>5 DEF DocWritten, Written
<1>4. CASE ~p.each
  <2> DEFINE v == ShouldBeSet(p, d.attr)
             y == [attr |-> p.value, items |-> d.items]
  <2>1. SetPlain(d, p) = Gives(e)
    BY <1>4, SetPropertyIs
  <2>2. d.attr \in Values /\ v \in {"yes", "no", "error"}
    BY DocFacts, ShouldIs
  <2>3. /\ v = "error" \/ (v = "yes" /\ p.value = Missing) => Gives(e) = Fails
        /\ v = "yes" /\ p.value # Missing => Gives(e) = Gives(y)
        /\ v = "no" => Gives(e) = Gives(d)
    BY <2>1, PlainIs
  <2>4. y.attr = p.value /\ y.items = d.items
    OBVIOUS
  <2>5. v = "yes" => d.attr \in {Missing, Null}
    BY <1>2, <2>2
  <2> HIDE DEF v, y
  <2>6. (v = "yes" /\ p.value # Missing /\ e = y) \/ (v = "no" /\ e = d)
    BY <1>1, <2>2, <2>3
  <2>7. CASE e = d
    BY <2>7, WrittenThrough, <1>4
  <2>8. CASE v = "yes" /\ p.value # Missing /\ e = y
    <3>1. Written(d.attr, e.attr, vs) /\ e.items = d.items
      BY <2>4, <2>5, <2>8 DEF Written
    <3>2. \A i : Written(d.items[i].attr, d.items[i].attr, vs)
      BY DEF Written
    <3> QED
      BY <1>4, <3>1, <3>2 DEF DocWritten
  <2> QED
    BY <2>6, <2>7, <2>8
<1> QED
  BY <1>3, <1>4

\* A property that no criterion asks for, or that has no value, changes nothing.
LEMMA Refused ==
  ASSUME NEW p \in Properties, NEW d \in Doc,
         ~p.each => ShouldBeSet(p, d.attr) = "no",
         p.each => /\ IsArray(d.items)
                   /\ \/ p.value = Missing
                      \/ \A i \in 1..Len(d.items) : ShouldBeSet(p, d.items[i].attr) # "yes"
  PROVE  SetProperty(Gives(d), p) = Gives(d)
<1>1. CASE ~p.each
  BY <1>1, PlainIs, SetPropertyIs
<1>2. CASE p.each
  <2>1. PICK e \in Doc :
           /\ SetEach(d, p) = Gives(e)
           /\ e.attr = d.attr /\ IsArray(e.items) /\ Len(e.items) = Len(d.items)
           /\ \A i \in 1..Len(d.items) :
                \/ e.items[i] = d.items[i]
                \/ /\ ShouldBeSet(p, d.items[i].attr) = "yes" /\ p.value # Missing
                   /\ e.items[i].attr = p.value
    BY <1>2, EachIs
  <2>2. \A i \in 1..Len(d.items) : e.items[i] = d.items[i]
    BY <1>2, <2>1
  <2>3. e.items \in Seq(Out) /\ d.items \in Seq(Out)
    BY <1>2, <2>1, DocFacts
  <2>4. e.items = d.items
    BY <2>1, <2>2, <2>3, SeqEqual
  <2>5. e = [attr |-> e.attr, items |-> e.items] /\ d = [attr |-> d.attr, items |-> d.items]
    BY DEF Doc
  <2>6. e = d
    BY <2>1, <2>4, <2>5
  <2> QED
    BY <1>2, <2>1, <2>6, SetPropertyIs
<1> QED
  BY <1>1, <1>2

\* What was asked for and written is not asked for again, nor what was not.
LEMMA NotAgain ==
  ASSUME NEW p \in Properties, p.ifMissing, p.value # Null,
         NEW d \in Doc, NEW e \in Doc, SetProperty(Gives(d), p) = Gives(e),
         p.each => \A i \in 1..Len(d.items) : ShouldBeSet(p, d.items[i].attr) # "error",
         NEW f \in Doc, DocWritten(e, f, Nat)
  PROVE  SetProperty(Gives(f), p) = Gives(f)
<1>1. p.value \in Values /\ (p.value # Missing => p.value \in Nat)
  <2>1. p.value \in Values
    BY DEF Properties
  <2> QED
    BY <2>1 DEF Values, Missing, Null
<1>2. \A a \in Nat : a \in Values /\ a \notin {Missing, Null}
  BY DEF Values, Missing, Null
<1>3. \A a \in Nat : ShouldBeSet(p, a) = "no"
  BY <1>2, ShouldIs
<1>4. DocWritten(d, e, Nat) /\ DocWritten(d, f, Nat) /\ (p.each => IsArray(d.items))
  BY <1>1, OneWrites, WrittenThrough
<1>5. \A a, b : Written(a, b, Nat) /\ a \in Nat => b = a
  BY <1>2 DEF Written
<1>6. \A a, b : Written(a, b, Nat) /\ ShouldBeSet(p, a) = "no" => ShouldBeSet(p, b) = "no"
  BY <1>3 DEF Written
<1>7. CASE ~p.each
  <2> DEFINE v == ShouldBeSet(p, d.attr)
             y == [attr |-> p.value, items |-> d.items]
  <2>1. SetPlain(d, p) = Gives(e)
    BY <1>7, SetPropertyIs
  <2>2. d.attr \in Values /\ v \in {"yes", "no", "error"}
    BY DocFacts, ShouldIs
  <2>3. /\ v = "error" \/ (v = "yes" /\ p.value = Missing) => Gives(e) = Fails
        /\ v = "yes" /\ p.value # Missing => Gives(e) = Gives(y)
    BY <2>1, PlainIs
  <2>4. y.attr = p.value
    OBVIOUS
  <2>5. \A x : Gives(x).out = x /\ Gives(x) # Fails
    BY DEF Gives, Fails
  <2>6. Written(d.attr, f.attr, Nat) /\ Written(e.attr, f.attr, Nat)
    BY <1>4 DEF DocWritten
  <2> HIDE DEF v, y
  <2>7. CASE v = "yes"
    <3>1. e.attr = p.value /\ p.value \in Nat
      <4>1. p.value # Missing
        BY <2>3, <2>5, <2>7
      <4>2. e = y
        BY <2>3, <2>5, <2>7, <4>1
      <4> QED
        BY <1>1, <2>4, <4>1, <4>2
    <3>2. f.attr = p.value
      BY <1>5, <2>6, <3>1
    <3>3. ShouldBeSet(p, f.attr) = "no"
      BY <1>3, <3>1, <3>2
    <3> QED
      BY <1>7, <3>3, Refused
  <2>8. CASE v = "no"
    <3>1. ShouldBeSet(p, f.attr) = "no"
      BY <1>6, <2>6, <2>8 DEF v
    <3> QED
      BY <1>7, <3>1, Refused
  <2>9. v # "error"
    BY <2>3, <2>5
  <2> QED
    BY <2>2, <2>7, <2>8, <2>9
<1>8. CASE p.each
  <2>1. IsArray(d.items) /\ IsArray(f.items) /\ Len(f.items) = Len(d.items) /\ Len(e.items) = Len(d.items)
        /\ \A i \in 1..Len(d.items) : /\ Written(d.items[i].attr, f.items[i].attr, Nat)
                                      /\ Written(e.items[i].attr, f.items[i].attr, Nat)
    BY <1>4, <1>8 DEF DocWritten
  <2>2. PICK x \in Doc :
           /\ SetEach(d, p) = Gives(x)
           /\ (\A i \in 1..Len(d.items) : ShouldBeSet(p, d.items[i].attr) # "error") /\ p.value # Missing =>
                \A i \in 1..Len(d.items) : ShouldBeSet(p, d.items[i].attr) = "yes" => x.items[i].attr = p.value
    BY <2>1, EachIs
  <2>3. x = e
    <3>1. Gives(x) = Gives(e)
      BY <1>8, <2>2, SetPropertyIs
    <3>2. \A z : Gives(z).out = z
      BY DEF Gives
    <3> QED
      BY <3>1, <3>2
  <2>4. ASSUME p.value # Missing, NEW i \in 1..Len(f.items) PROVE ShouldBeSet(p, f.items[i].attr) # "yes"
    <3>1. d.items[i].attr \in Values
      <4>1. d.items \in Seq(Out) /\ i \in 1..Len(d.items)
        BY <2>1, <2>4, DocFacts
      <4>2. d.items[i] \in Out
        BY <4>1, ElementOfSeq
      <4> QED
        BY <4>2 DEF Out
    <3>2. ShouldBeSet(p, d.items[i].attr) \in {"yes", "no"}
      BY <1>8, <2>1, <2>4, <3>1, ShouldIs
    <3>3. CASE ShouldBeSet(p, d.items[i].attr) = "yes"
      <4>1. e.items[i].attr = p.value
        BY <1>8, <2>1, <2>2, <2>3, <2>4, <3>3
      <4>2. f.items[i].attr = p.value /\ p.value \in Nat
        BY <1>1, <1>5, <2>1, <2>4, <4>1
      <4>3. ShouldBeSet(p, f.items[i].attr) = "no"
        BY <1>3, <4>2
      <4> QED
        BY <4>3
    <3>4. CASE ShouldBeSet(p, d.items[i].attr) = "no"
      <4>1. ShouldBeSet(p, f.items[i].attr) = "no"
        BY <1>6, <2>1, <2>4, <3>4
      <4> QED
        BY <4>1
    <3> QED
      BY <3>2, <3>3, <3>4
  <2> QED
    BY <1>8, <2>1, <2>4, Refused
<1> QED
  BY <1>7, <1>8

\* The documents between the properties, and what is written from one to a later one.
Through(D, props) == \A k \in 1..Len(props) : SetProperty(Gives(D[k - 1]), props[k]) = Gives(D[k])

\* What all of the properties write between two of them.
LEMMA ManyWrite ==
  ASSUME NEW props \in Seq(Properties), \A i \in 1..Len(props) : props[i].ifMissing,
         NEW vs, \A i \in 1..Len(props) : props[i].value = Missing \/ props[i].value \in vs,
         NEW D \in [0..Len(props) -> Doc], Through(D, props),
         NEW j \in 0..Len(props), NEW k \in 0..Len(props), j =< k
  PROVE  DocWritten(D[j], D[k], vs)
<1> DEFINE n == Len(props)
           S == {l \in 0..n : j =< l => DocWritten(D[j], D[l], vs)}
<1>1. n \in Nat
  OBVIOUS
<1>2. 0 \in S
  <2>1. j =< 0 => D[j] = D[0]
    OBVIOUS
  <2> QED
    BY <1>1, <2>1, WrittenThrough
<1>3. ASSUME NEW l \in 1..n, l - 1 \in S PROVE l \in S
  <2>1. l \in 0..n /\ l - 1 \in 0..n
    BY <1>1
  <2>2. CASE j =< l - 1
    <3>1. DocWritten(D[j], D[l - 1], vs)
      BY <1>3, <2>2
    <3>2. D[l - 1] \in Doc /\ D[l] \in Doc /\ props[l] \in Properties
      BY <2>1
    <3>3. SetProperty(Gives(D[l - 1]), props[l]) = Gives(D[l])
      BY DEF Through
    <3>4. DocWritten(D[l - 1], D[l], vs)
      BY <3>2, <3>3, OneWrites
    <3> QED
      BY <2>1, <3>1, <3>4, WrittenThrough
  <2>3. CASE j = l
    BY <2>1, <2>3, WrittenThrough
  <2>4. j =< l => j =< l - 1 \/ j = l
    BY <1>1, <2>1
  <2>5. ASSUME ~(j =< l) PROVE l \in S
    BY <2>1, <2>5
  <2> HIDE DEF S
  <2> QED
    BY <2>2, <2>3, <2>4, <2>5
<1> HIDE DEF S
<1>4. \A l \in 0..n : l \in S
  BY <1>1, <1>2, <1>3, Reaches
<1> QED
  BY <1>4 DEF S

\* After the last property none of them changes the document, if each of them is sound.
LEMMA NoneAgain ==
  ASSUME NEW props \in Seq(Properties), \A i \in 1..Len(props) : props[i].ifMissing,
         \A i \in 1..Len(props) : props[i].value # Null,
         NEW D \in [0..Len(props) -> Doc], Through(D, props),
         \A k \in 1..Len(props) : props[k].each /\ IsArray(D[0].items) =>
           \A i \in 1..Len(D[0].items) : ShouldBeSet(props[k], D[0].items[i].attr) # "error",
         NEW k \in 1..Len(props)
  PROVE  SetProperty(Gives(D[Len(props)]), props[k]) = Gives(D[Len(props)])
<1> DEFINE n == Len(props)
           p == props[k]
           d == D[k - 1]
           e == D[k]
           f == D[n]
<1>1. n \in Nat /\ k \in 0..n /\ k - 1 \in 0..n /\ 0 \in 0..n /\ n \in 0..n /\ k =< n /\ 0 =< k - 1
  OBVIOUS
<1>2. p \in Properties /\ p.ifMissing /\ p.value # Null /\ d \in Doc /\ e \in Doc /\ f \in Doc /\ D[0] \in Doc
  BY <1>1
<1>3. SetProperty(Gives(d), p) = Gives(e)
  BY DEF Through
<1>4. \A i \in 1..n : props[i].value = Missing \/ props[i].value \in Nat
  <2> SUFFICES ASSUME NEW i \in 1..n PROVE props[i].value = Missing \/ props[i].value \in Nat
    OBVIOUS
  <2>1. props[i] \in Properties /\ props[i].value # Null
    OBVIOUS
  <2>2. props[i].value \in Values
    BY <2>1 DEF Properties
  <2> QED
    BY <2>1, <2>2 DEF Values, Missing, Null
<1>5. DocWritten(e, f, Nat)
  BY <1>1, <1>4, ManyWrite
<1>6. DocWritten(D[0], d, Nat)
  BY <1>1, <1>4, ManyWrite
<1>7. ASSUME p.each, NEW i \in 1..Len(d.items) PROVE ShouldBeSet(p, d.items[i].attr) # "error"
  <2>1. IsArray(d.items)
    <3>1. p.value = Missing \/ p.value \in Nat
      BY <1>4
    <3> HIDE DEF p, d, e
    <3> QED
      BY <1>2, <1>3, <1>7, <3>1, OneWrites
  <2>2. IsArray(D[0].items) /\ i \in 1..Len(D[0].items) /\ Written(D[0].items[i].attr, d.items[i].attr, Nat)
    BY <1>6, <1>7, <2>1 DEF DocWritten
  <2>3. ShouldBeSet(p, D[0].items[i].attr) # "error"
    BY <1>7, <2>2
  <2>4. d.items[i].attr \in Nat => ShouldBeSet(p, d.items[i].attr) = "no"
    <3>1. \A a \in Nat : a \in Values /\ a \notin {Missing, Null}
      BY DEF Values, Missing, Null
    <3> QED
      BY <1>2, <3>1, ShouldIs
  <2> QED
    BY <2>2, <2>3, <2>4 DEF Written
<1> HIDE DEF p, d, e, f
<1>8. SetProperty(Gives(f), p) = Gives(f)
  BY <1>2, <1>3, <1>5, <1>7, NotAgain
<1> QED
  BY <1>8 DEF p, f

\* The documents of a call that answers one.
LEMMA Documented ==
  ASSUME NEW doc \in Doc, NEW props \in Seq(Properties), NEW r, r = SetProperties(doc, props),
         ~r.err, r.out # Lost
  PROVE  \E D \in [0..Len(props) -> Doc] :
           D[0] = doc /\ Through(D, props) /\ r = Gives(D[Len(props)])
<1> DEFINE n == Len(props)
<1>1. n \in Nat /\ \A k \in 1..n : props[k] \in Properties
  OBVIOUS
<1>2. PICK F \in [0..n -> DocAnswers] :
        /\ F[0] = Gives(doc)
        /\ \A k \in 1..n : F[k] = SetProperty(F[k - 1], props[k])
        /\ SetProperties(doc, props) = F[n]
  BY SetIsWalk
<1>3. Good(F[n])
  <2>1. n \in 0..n
    BY <1>1
  <2>2. F[n] \in DocAnswers /\ r = F[n]
    BY <1>2, <2>1
  <2>3. Fails.err = TRUE /\ Gives(Lost).out = Lost
    BY DEF Fails, Gives
  <2> QED
    BY <2>2, <2>3 DEF DocAnswers, Good
<1> HIDE DEF n
<1> DEFINE S == {k \in 0..n : Good(F[n - k])}
<1>4. 0 \in S
  <2>1. n - 0 = n /\ 0 \in 0..n
    BY <1>1
  <2> QED
    BY <1>3, <2>1
<1>5. ASSUME NEW k \in 1..n, k - 1 \in S PROVE k \in S
  <2> DEFINE l == n - k + 1
  <2>1. k \in 0..n /\ l \in 1..n /\ l - 1 = n - k /\ l = n - (k - 1) /\ l - 1 \in 0..n
    BY <1>1
  <2>2. Good(F[l])
    BY <1>5, <2>1
  <2> HIDE DEF l, S
  <2>3. F[l] = SetProperty(F[l - 1], props[l]) /\ F[l - 1] \in DocAnswers /\ props[l] \in Properties
    BY <1>1, <1>2, <2>1
  <2>4. Good(F[l - 1])
    BY <2>2, <2>3, GoodBefore
  <2> QED
    BY <2>1, <2>4 DEF S
<1> HIDE DEF S
<1>6. \A k \in 0..n : k \in S
  BY <1>1, <1>4, <1>5, Reaches
<1>7. ASSUME NEW k \in 0..n PROVE Good(F[k])
  <2> DEFINE l == n - k
  <2>1. l \in 0..n /\ n - l = k
    BY <1>1
  <2> HIDE DEF l
  <2>2. Good(F[n - l])
    BY <1>6, <2>1 DEF S
  <2> QED
    BY <2>1, <2>2
<1> DEFINE D == [k \in 0..n |-> F[k].out]
<1>8. \A d : Gives(d).out = d
  BY DEF Gives
<1>9. \A k \in 0..n : D[k] \in Doc /\ F[k] = Gives(D[k])
  <2> SUFFICES ASSUME NEW k \in 0..n PROVE F[k].out \in Doc /\ F[k] = Gives(F[k].out)
    OBVIOUS
  <2>1. PICK d \in Doc : F[k] = Gives(d)
    BY <1>7 DEF Good
  <2>2. F[k].out = d
    BY <1>8, <2>1
  <2> QED
    BY <2>1, <2>2
<1>10. D \in [0..n -> Doc]
  BY <1>9
<1>11. 0 \in 0..n /\ n \in 0..n /\ \A k \in 1..n : k \in 0..n /\ k - 1 \in 0..n
  BY <1>1
<1>12. D[0] = doc
  BY <1>2, <1>8, <1>11
<1> HIDE DEF D
<1>13. r = Gives(D[n])
  BY <1>2, <1>9, <1>11
<1>14. \A k \in 1..n : SetProperty(Gives(D[k - 1]), props[k]) = Gives(D[k])
  BY <1>2, <1>9, <1>11
<1> QED
  BY <1>10, <1>12, <1>13, <1>14 DEF Through, n

\* set-properties on any document, the properties all to set only where they are missing.
LEMMA SetFits ==
  ASSUME NEW doc \in Documents, NEW props \in Seq(Properties), \A i \in 1..Len(props) : props[i].ifMissing,
         NEW r, r = SetProperties(doc, props), ~r.err, r.out # Lost
  PROVE  /\ doc.attr \in {Missing, Null} \/ r.out.attr = doc.attr
         /\ IsArray(doc.items) =>
              \A i \in 1..Len(doc.items) :
                 doc.items[i].attr \in {Missing, Null} \/ r.out.items[i].attr = doc.items[i].attr
         /\ (\A k \in 1..Len(props) :
               /\ props[k].value # Null
               /\ props[k].each /\ IsArray(doc.items) =>
                    \A i \in 1..Len(doc.items) : ShouldBeSet(props[k], doc.items[i].attr) # "error") =>
              SetProperties(doc, props \o props) = r
<1> DEFINE n == Len(props)
           pp == props \o props
<1>1. n \in Nat /\ pp \in Seq(Properties) /\ Len(pp) = n + n
      /\ \A k \in 1..n : pp[k] = props[k] /\ pp[n + k] = props[k]
  OBVIOUS
<1>2. doc \in Doc
  BY DocFacts
<1>3. PICK D \in [0..n -> Doc] : D[0] = doc /\ Through(D, props) /\ r = Gives(D[n])
  BY <1>2, Documented
<1>4. r.out = D[n]
  BY <1>3 DEF Gives
<1>5. DocWritten(doc, D[n], Values)
  <2>1. \A i \in 1..Len(props) : props[i].value = Missing \/ props[i].value \in Values
    <3>1. \A i \in 1..Len(props) : props[i] \in Properties
      OBVIOUS
    <3> QED
      BY <3>1 DEF Properties
  <2>2. 0 \in 0..Len(props) /\ Len(props) \in 0..Len(props) /\ 0 =< Len(props)
    BY <1>1
  <2>3. DocWritten(D[0], D[Len(props)], Values)
    BY <1>3, <2>1, <2>2, ManyWrite
  <2> QED
    BY <1>3, <2>3
<1>6. ASSUME \A k \in 1..n :
               /\ props[k].value # Null
               /\ props[k].each /\ IsArray(doc.items) =>
                    \A i \in 1..Len(doc.items) : ShouldBeSet(props[k], doc.items[i].attr) # "error"
      PROVE  SetProperties(doc, pp) = r
  <2>1. \A k \in 1..n : SetProperty(Gives(D[n]), props[k]) = Gives(D[n])
    BY <1>3, <1>6, NoneAgain
  <2>2. PICK F \in [0..Len(pp) -> DocAnswers] :
          /\ F[0] = Gives(doc)
          /\ \A k \in 1..Len(pp) : F[k] = SetProperty(F[k - 1], pp[k])
          /\ SetProperties(doc, pp) = F[Len(pp)]
    BY <1>1, <1>2, SetIsWalk
  <2>3. \A k \in 1..n : SetProperty(Gives(D[k - 1]), props[k]) = Gives(D[k])
    BY <1>3 DEF Through
  <2> DEFINE m == n + n
             S == {k \in 0..m : (k =< n => F[k] = Gives(D[k])) /\ (k >= n => F[k] = Gives(D[n]))}
  <2> HIDE DEF n, pp
  <2>4. m \in Nat
    BY <1>1
  <2>5. 0 \in S
    <3>1. F[0] = Gives(D[0])
      BY <1>3, <2>2
    <3>2. 0 \in 0..m /\ (0 >= n => n = 0)
      BY <1>1
    <3> QED
      BY <3>1, <3>2
  <2>6. ASSUME NEW k \in 1..m, k - 1 \in S PROVE k \in S
    <3>1. k \in 0..m /\ k \in 1..Len(pp) /\ k \in Nat
      BY <1>1
    <3>2. F[k] = SetProperty(F[k - 1], pp[k])
      BY <2>2, <3>1
    <3>3. CASE k =< n
      <4>1. k \in 1..n /\ k - 1 =< n
        BY <1>1, <3>1, <3>3
      <4>2. F[k - 1] = Gives(D[k - 1]) /\ pp[k] = props[k]
        BY <1>1, <2>6, <4>1
      <4>3. F[k] = Gives(D[k])
        BY <2>3, <3>2, <4>1, <4>2
      <4>4. k >= n => k = n
        BY <1>1, <3>1, <3>3
      <4> QED
        BY <3>1, <4>3, <4>4
    <3>4. CASE k > n
      <4> DEFINE l == k - n
      <4>1. l \in 1..n /\ k = n + l /\ k - 1 >= n
        BY <1>1, <3>1, <3>4
      <4> HIDE DEF l
      <4>2. pp[k] = props[l] /\ F[k - 1] = Gives(D[n])
        BY <1>1, <2>6, <4>1
      <4>3. F[k] = Gives(D[n])
        BY <2>1, <3>2, <4>1, <4>2
      <4>4. ~(k =< n)
        BY <1>1, <3>1, <3>4
      <4> QED
        BY <3>1, <4>3, <4>4
    <3> HIDE DEF S
    <3> QED
      BY <1>1, <3>1, <3>3, <3>4
  <2> HIDE DEF S, m
  <2>7. \A k \in 0..m : k \in S
    BY <2>4, <2>5, <2>6, Reaches
  <2>8. m \in 0..m /\ m >= n
    BY <1>1, <2>4 DEF m
  <2>9. F[m] = Gives(D[n])
    BY <2>7, <2>8 DEF S
  <2> QED
    BY <1>1, <1>3, <2>2, <2>9 DEF m
<1> QED
  BY <1>4, <1>5, <1>6 DEF DocWritten, Written

-----------------------------------------------------------------------------
(***************************************************************************)
(* The calls.                                                              *)
(***************************************************************************)
AnswerSet(c) ==
  [once |-> SetProperties(c.doc, c.props), twice |-> SetProperties(c.doc, c.props \o c.props)]

\* The answers of each kind, which the inductive invariant says an answer is one of.
AnswersTo(c) ==
  CASE c.kind = "select"  -> {Selected(c)}
    [] c.kind = "sort"    -> {SortArray(c.items)}
    [] c.kind = "group"   -> {[distinct |-> d, reduce |-> ReduceArray(c.items)] : d \in DistinctItems(c.items)}
    [] c.kind = "measure" -> {Measured(c)}
    [] c.kind = "set"     -> {AnswerSet(c)}

ArrayKinds == {"select", "sort", "group", "measure", "set"}

CallAnswered ==
  /\ call \in Calls
  /\ answer.kind \in ArrayKinds => answer.kind = call.kind /\ answer.value \in AnswersTo(call)

\* What the two calls with most answers reply.
LEMMA SelectAnswers ==
  ASSUME Select PROVE answer' = [kind |-> "select", value |-> Selected(call)] /\ call' = call /\ call.kind = "select"
BY Zenon DEF Select, Reply, Selected, ShiftOf

\* So for the arrays of arrays.
LEMMA MeasureAnswers ==
  ASSUME Measure PROVE answer' = [kind |-> "measure", value |-> Measured(call)] /\ call' = call /\ call.kind = "measure"
BY Zenon DEF Measure, Reply, Measured

\* The invariant is inductive.
LEMMA StaysAnswered == ArraySpec => []CallAnswered
<1>1. Init => CallAnswered
  BY DEF Init, Unanswered, CallAnswered, ArrayKinds
<1>2. CallAnswered /\ [ArrayNext \/ Elsewhere]_vars => CallAnswered'
  <2> SUFFICES ASSUME CallAnswered, [ArrayNext \/ Elsewhere]_vars PROVE CallAnswered'
    OBVIOUS
  <2>1. ASSUME NEW k \in ArrayKinds, NEW v \in AnswersTo(call), call.kind = k, call' = call,
               answer' = [kind |-> k, value |-> v]
        PROVE  CallAnswered'
    <3>1. answer'.kind = k /\ answer'.value = v
      BY <2>1
    <3> QED
      BY <2>1, <3>1 DEF CallAnswered
  <2>2. CASE Select
    <3>1. Selected(call) \in AnswersTo(call) /\ "select" \in ArrayKinds /\ call.kind = "select"
      BY <2>2, SelectAnswers, Zenon DEF AnswersTo, ArrayKinds
    <3> QED
      BY <2>1, <2>2, <3>1, SelectAnswers
  <2>3. CASE Sort
    <3>1. /\ answer' = [kind |-> "sort", value |-> SortArray(call.items)]
          /\ call' = call /\ call.kind = "sort"
      BY <2>3, Zenon DEF Sort, Reply
    <3>2. SortArray(call.items) \in AnswersTo(call) /\ "sort" \in ArrayKinds
      BY <3>1, Zenon DEF AnswersTo, ArrayKinds
    <3> QED
      BY <2>1, <3>1, <3>2
  <2>4. CASE Group
    <3>1. PICK d \in DistinctItems(call.items) :
            /\ answer' = [kind |-> "group", value |-> [distinct |-> d, reduce |-> ReduceArray(call.items)]]
            /\ call' = call /\ call.kind = "group"
      BY <2>4, Zenon DEF Group, Reply
    <3>2. [distinct |-> d, reduce |-> ReduceArray(call.items)] \in AnswersTo(call) /\ "group" \in ArrayKinds
      BY <3>1, Zenon DEF AnswersTo, ArrayKinds
    <3> QED
      BY <2>1, <3>1, <3>2
  <2>5. CASE Measure
    <3>1. Measured(call) \in AnswersTo(call) /\ "measure" \in ArrayKinds /\ call.kind = "measure"
      BY <2>5, MeasureAnswers, Zenon DEF AnswersTo, ArrayKinds
    <3> QED
      BY <2>1, <2>5, <3>1, MeasureAnswers
  <2>6. CASE SetProps
    <3>1. /\ answer' = [kind |-> "set", value |-> AnswerSet(call)]
          /\ call' = call /\ call.kind = "set"
      BY <2>6, Zenon DEF SetProps, Reply, AnswerSet
    <3>2. AnswerSet(call) \in AnswersTo(call) /\ "set" \in ArrayKinds
      BY <3>1, Zenon DEF AnswersTo, ArrayKinds
    <3> QED
      BY <2>1, <3>1, <3>2
  <2>7. CASE Elsewhere
    BY <2>7 DEF Elsewhere, CallAnswered, ArrayKinds
  <2>8. CASE UNCHANGED vars
    BY <2>8 DEF vars, CallAnswered
  <2> QED
    BY <2>2, <2>3, <2>4, <2>5, <2>6, <2>7, <2>8 DEF ArrayNext
<1> QED
  BY <1>1, <1>2, PTL DEF ArraySpec

\* It says what the properties ask for, kind by kind: what is chosen,
LEMMA AnsweredSelections == CallsAssumption /\ CallAnswered => SelectionsAgree
<1> SUFFICES ASSUME CallsAssumption, CallAnswered, answer.kind = "select" PROVE SelectionsAgree
  BY DEF SelectionsAgree
<1>1. call \in Calls /\ call.kind = "select" /\ answer.value \in AnswersTo(call)
  BY DEF CallAnswered, ArrayKinds
<1>2. answer.value = Selected(call)
  BY <1>1, Zenon DEF AnswersTo
<1> QED
  BY <1>1, <1>2, SelectionsFit DEF SelectionsAgree

\* what is sorted,
LEMMA AnsweredSorts == CallsAssumption /\ CallAnswered => SortOrders
<1> SUFFICES ASSUME CallsAssumption, CallAnswered, answer.kind = "sort", ~answer.value.err, answer.value.out # <<>>
             PROVE  SortOrders
  BY DEF SortOrders
<1>1. call \in Calls /\ call.kind = "sort" /\ answer.value \in AnswersTo(call)
  BY DEF CallAnswered, ArrayKinds
<1>2. answer.value = SortArray(call.items)
  BY <1>1, Zenon DEF AnswersTo
<1>3. call.items \in ItemLists
  BY <1>1 DEF CallsAssumption, WellFormed
<1> DEFINE items == call.items
           r == answer.value.out
<1>4. /\ Len(r) = Len(items) /\ ToSet(r) = ToSet(items)
      /\ items[1].attr = Null \/ ~Comparable(items) => r = items
      /\ items[1].attr # Null /\ Comparable(items) =>
           \A i, j \in 1..Len(r) : i < j => Ordered(items, r[i], r[j])
  BY <1>2, <1>3, SortsFit
<1> QED
  BY <1>4, Zenon DEF SortOrders, Ordered, Place, Comparable

\* what is grouped,
LEMMA AnsweredGroups == CallsAssumption /\ CallAnswered => GroupsAgree
<1> SUFFICES ASSUME CallsAssumption, CallAnswered, answer.kind = "group" PROVE GroupsAgree
  BY DEF GroupsAgree
<1>1. call \in Calls /\ call.kind = "group" /\ answer.value \in AnswersTo(call)
  BY DEF CallAnswered, ArrayKinds
<1>2. PICK d \in DistinctItems(call.items) :
        answer.value = [distinct |-> d, reduce |-> ReduceArray(call.items)]
  BY <1>1, Zenon DEF AnswersTo
<1>3. call.items \in ItemLists
  BY <1>1 DEF CallsAssumption, WellFormed
<1>4. answer.value.distinct = d /\ answer.value.reduce = ReduceArray(call.items)
  BY <1>2
<1> QED
  BY <1>3, <1>4, GroupsFit DEF GroupsAgree

\* what is measured,
LEMMA AnsweredMeasures == CallsAssumption /\ CallAnswered => MeasuresAgree
<1> SUFFICES ASSUME CallsAssumption, CallAnswered, answer.kind = "measure" PROVE MeasuresAgree
  BY DEF MeasuresAgree
<1>1. call \in Calls /\ call.kind = "measure" /\ answer.value \in AnswersTo(call)
  BY DEF CallAnswered, ArrayKinds
<1>2. answer.value = Measured(call)
  BY <1>1, Zenon DEF AnswersTo
<1>3. call.arrays \in Seq(Arrays)
  BY <1>1 DEF CallsAssumption, WellFormed
<1> QED
  BY <1>2, <1>3, MeasuresFit DEF MeasuresAgree

\* and what is set.
LEMMA AnsweredSets == CallsAssumption /\ CallAnswered => SetOnce
<1> SUFFICES ASSUME CallsAssumption, CallAnswered, answer.kind = "set", ~answer.value.once.err,
                    answer.value.once.out # Lost, \A i \in 1..Len(call.props) : call.props[i].ifMissing
             PROVE  SetOnce
  BY DEF SetOnce
<1>1. call \in Calls /\ call.kind = "set" /\ answer.value \in AnswersTo(call)
  BY DEF CallAnswered, ArrayKinds
<1>2. answer.value = AnswerSet(call)
  BY <1>1, Zenon DEF AnswersTo
<1>3. call.doc \in Documents /\ call.props \in Seq(Properties)
  BY <1>1 DEF CallsAssumption, WellFormed
<1>4. /\ answer.value.once = SetProperties(call.doc, call.props)
      /\ answer.value.twice = SetProperties(call.doc, call.props \o call.props)
  BY <1>2 DEF AnswerSet
<1> DEFINE doc == call.doc
           props == call.props
           r == answer.value.once
<1>5. /\ doc.attr \in {Missing, Null} \/ r.out.attr = doc.attr
      /\ IsArray(doc.items) =>
           \A i \in 1..Len(doc.items) :
              doc.items[i].attr \in {Missing, Null} \/ r.out.items[i].attr = doc.items[i].attr
      /\ (\A k \in 1..Len(props) :
            /\ props[k].value # Null
            /\ props[k].each /\ IsArray(doc.items) =>
                 \A i \in 1..Len(doc.items) : ShouldBeSet(props[k], doc.items[i].attr) # "error") =>
           SetProperties(doc, props \o props) = r
  <2>1. doc \in Documents /\ props \in Seq(Properties) /\ (\A i \in 1..Len(props) : props[i].ifMissing)
        /\ r = SetProperties(doc, props) /\ ~r.err /\ r.out # Lost
    BY <1>3, <1>4
  <2> HIDE DEF doc, props, r
  <2> QED
    BY <2>1, SetFits
<1> QED
  BY <1>4, <1>5, Zenon DEF SetOnce

\* filter-array-items, shift-array-items and _sortArray neither invent an item nor lose
\* one nor put it out of order, in any array, for any criteria and any sub-rules.
THEOREM SelectionsHold == ArraySpec => []ItemsSelected
<1>1. CallAnswered => ItemsSelected
  BY CallsAssumption, AnsweredSelections, AnsweredSorts DEF ItemsSelected
<1> QED
  BY <1>1, StaysAnswered, PTL

\* What distinct-items and reduce-array, merge-arrays, len-arrays, add-array-items,
\* filter-array-items and the merge function, and set-properties called twice say of the
\* same arguments fits together, failures included, for arrays of any length.
THEOREM ArraysHold == ArraySpec => []ArraysAccountedFor
<1>1. CallAnswered => ArraysAccountedFor
  BY CallsAssumption, AnsweredGroups, AnsweredMeasures, AnsweredSets DEF ArraysAccountedFor
<1> QED
  BY <1>1, StaysAnswered, PTL
=============================================================================
