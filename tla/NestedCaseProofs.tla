-------------------------- MODULE NestedCaseProofs --------------------------
(***************************************************************************)
(* Proofs about the record of a case, for every set of names and every     *)
(* configuration: a search for a free number finds one, nothing that has   *)
(* been recorded is replaced, every entry of a run reaches the parent, and *)
(* what is over has its response.                                          *)
(***************************************************************************)
EXTENDS NestedCase, FiniteSetTheorems, SequenceTheorems, WellFoundedInduction, TLAPS

\* A case has finitely many entries, so that a name has a number left.
LEMMA SomeFree ==
  ASSUME NEW es, IsFiniteSet(DOMAIN es), NEW name
  PROVE  \E k \in 0..Cardinality(DOMAIN es) : ~Used(es, name, k)
<1> DEFINE c == Cardinality(DOMAIN es)
           f == [k \in 0..c |-> Id(name, k)]
<1>1. c \in Nat
  BY FS_CardinalityType
<1>2. SUFFICES ASSUME \A k \in 0..c : Used(es, name, k) PROVE FALSE
  OBVIOUS
<1>3. f \in [0..c -> DOMAIN es]
  BY <1>2 DEF Used
<1>4. \A j, k \in 0..c : f[j] = f[k] => j = k
  BY DEF Id
<1>5. f \in Injection(0..c, DOMAIN es)
  BY <1>3, <1>4 DEF Injection, IsInjective
<1>6. Cardinality(0..c) =< c
  BY <1>5, FS_Injection
<1>7. Cardinality(0..c) = c + 1
  BY <1>1, FS_Interval
<1> QED
  BY <1>1, <1>6, <1>7

\* A nonempty set of numbers has a least one.
LEMMA LeastNumber ==
  ASSUME NEW T, T \subseteq Nat, T # {}
  PROVE  \E k \in T : \A j \in T : k =< j
<1>1. PICK k \in T : \A j \in T : <<j, k>> \notin OpToRel(<, Nat)
  BY WFMin, NatLessThanWellFounded
<1>2. k \in Nat /\ \A j \in T : j \in Nat
  OBVIOUS
<1>3. \A j \in T : ~(j < k)
  BY <1>1, <1>2 DEF OpToRel
<1>4. \A j \in T : k =< j
  BY <1>2, <1>3
<1> QED
  BY <1>4

\* ComputeFirstAvailableIndexedHarEntryId finds the first number not in use.
LEMMA FirstAvailableIsFree ==
  ASSUME NEW es, IsFiniteSet(DOMAIN es), NEW name
  PROVE  /\ FirstAvailable(es, name) \in Nat
         /\ ~Used(es, name, FirstAvailable(es, name))
         /\ \A j \in 0..(FirstAvailable(es, name) - 1) : Used(es, name, j)
<1> DEFINE c == Cardinality(DOMAIN es)
           T == {k \in 0..c : ~Used(es, name, k)}
<1>1. c \in Nat
  BY FS_CardinalityType
<1>2. T # {} /\ T \subseteq Nat
  BY <1>1, SomeFree
<1>3. PICK k \in T : \A j \in T : k =< j
  BY <1>2, LeastNumber
<1>4. \A j \in 0..(k - 1) : Used(es, name, j)
  <2> SUFFICES ASSUME NEW j \in 0..(k - 1), ~Used(es, name, j) PROVE FALSE
    OBVIOUS
  <2>1. k \in 0..c
    OBVIOUS
  <2>2. j \in T
    BY <1>1, <2>1
  <2> QED
    BY <1>3, <2>1, <2>2
<1>5. \E n \in 0..c : ~Used(es, name, n) /\ \A j \in 0..(n - 1) : Used(es, name, j)
  BY <1>4
<1>6. /\ FirstAvailable(es, name) \in 0..c
      /\ ~Used(es, name, FirstAvailable(es, name))
      /\ \A j \in 0..(FirstAvailable(es, name) - 1) : Used(es, name, j)
  BY <1>5 DEF FirstAvailable
<1> QED
  BY <1>1, <1>6

-----------------------------------------------------------------------------
AllNames == Names \cup {RequestName}

Typed(es) == IsEntries(es) /\ IsFiniteSet(DOMAIN es)

\* The numbers of a name are used without gaps.
NoGaps(es) == \A name \in AllNames, k \in Nat :
                Used(es, name, k) => \A j \in 0..k : Used(es, name, j)

\* The entries of a child come with the entry of the child itself.
Rooted(es) == \A i \in DOMAIN es : <<i[1]>> \in DOMAIN es

Record(es) == Typed(es) /\ NoGaps(es) /\ Rooted(es)

\* SetHarEntryRequest adds one entry, which is the one used last from then on.
LEMMA SetRequestAdds ==
  ASSUME NEW es, Typed(es), NEW name \in AllNames, NEW by \in Nat
  PROVE  LET k == FirstAvailable(es, name)
             new == SetRequest(es, name, by)
         IN  /\ Typed(new)
             /\ Id(name, k) \notin DOMAIN es /\ k \in Nat
             /\ DOMAIN new = DOMAIN es \cup {Id(name, k)}
             /\ new[Id(name, k)].comment = Id(name, k) /\ new[Id(name, k)].resp = "none"
             /\ \A i \in DOMAIN es : new[i] = es[i]
<1> DEFINE k == FirstAvailable(es, name)
           id == Id(name, k)
           e == [comment |-> id, resp |-> "none", by |-> by]
           new == SetRequest(es, name, by)
<1>1. k \in Nat /\ id \notin DOMAIN es
  BY FirstAvailableIsFree DEF Typed, Used
<1>2. id \in Ids /\ e \in Entry
  BY <1>1 DEF Id, Ids, Parts, Entry, Answers, AllNames
<1>3. new = Assign(es, [i \in {id} |-> e])
  BY DEF SetRequest
<1> HIDE DEF id, e, new, k
<1>4. DOMAIN new = DOMAIN es \cup {id} /\ new[id] = e /\ \A i \in DOMAIN es : new[i] = es[i]
  BY <1>1, <1>3 DEF Assign
<1>5. new = [i \in DOMAIN new |-> new[i]]
  BY <1>3 DEF Assign
<1>6. IsEntries(new)
  BY <1>2, <1>4, <1>5 DEF Typed, IsEntries
<1>7. IsFiniteSet(DOMAIN new)
  BY <1>4, FS_AddElement DEF Typed
<1> QED
  BY <1>1, <1>4, <1>6, <1>7 DEF Typed, id, e, new, k

\* SetHarEntryResponse changes the response of one entry, if any.
LEMMA SetResponseChanges ==
  ASSUME NEW es, Typed(es), NEW name, NEW resp \in Answers
  PROVE  LET new == SetResponse(es, name, resp)
             last == Id(name, LastUsed(es, name))
         IN  /\ Typed(new)
             /\ DOMAIN new = DOMAIN es
             /\ \A i \in DOMAIN es : /\ new[i].comment = es[i].comment
                                     /\ new[i].by = es[i].by
                                     /\ i # last => new[i] = es[i]
<1> DEFINE new == SetResponse(es, name, resp)
           last == Id(name, LastUsed(es, name))
<1>1. es \in [DOMAIN es -> Entry]
  BY DEF Typed, IsEntries
<1>2. CASE last \notin DOMAIN es
  BY <1>2 DEF SetResponse
<1>3. CASE last \in DOMAIN es
  <2>1. new = [es EXCEPT ![last].resp = resp]
    BY <1>3 DEF SetResponse
  <2> HIDE DEF new, last
  <2>2. es[last] \in Entry
    BY <1>1, <1>3
  <2>3. [es[last] EXCEPT !.resp = resp] \in Entry
    BY <2>2 DEF Entry
  <2>4. DOMAIN new = DOMAIN es /\ new \in [DOMAIN es -> Entry]
    BY <1>1, <1>3, <2>1, <2>3
  <2>5. \A i \in DOMAIN es : /\ new[i].comment = es[i].comment /\ new[i].by = es[i].by
                             /\ i # last => new[i] = es[i]
    BY <1>1, <1>3, <2>1, <2>2 DEF Entry
  <2> QED
    BY <2>4, <2>5 DEF Typed, IsEntries, new, last
<1> QED
  BY <1>2, <1>3

\* With numbers that have no gaps the entry just made is the one used last.
LEMMA SetRequestRecord ==
  ASSUME NEW es, Record(es), NEW name \in AllNames, NEW by \in Nat
  PROVE  LET new == SetRequest(es, name, by)
         IN  Record(new) /\ LastUsed(new, name) = FirstAvailable(es, name)
<1> DEFINE k == FirstAvailable(es, name)
           new == SetRequest(es, name, by)
           next == FirstAvailable(new, name)
<1>1. /\ Typed(new) /\ k \in Nat /\ Id(name, k) \notin DOMAIN es
      /\ DOMAIN new = DOMAIN es \cup {Id(name, k)}
  BY SetRequestAdds DEF Record
<1>2. /\ next \in Nat /\ ~Used(new, name, next)
      /\ \A j \in 0..(next - 1) : Used(new, name, j)
  BY <1>1, FirstAvailableIsFree DEF Typed
<1>3. \A j \in 0..(k - 1) : Used(es, name, j)
  BY FirstAvailableIsFree DEF Record, Typed
<1> HIDE DEF k, new, next
<1>4. \A n \in AllNames, j \in Nat : Used(new, n, j) <=> Used(es, n, j) \/ (n = name /\ j = k)
  BY <1>1 DEF Used, Id
<1>5. \A j \in Nat : Used(es, name, j) <=> j < k
  <2> SUFFICES ASSUME NEW j \in Nat, Used(es, name, j), k =< j PROVE FALSE
    BY <1>1, <1>3
  <2>1. k \in 0..j
    BY <1>1
  <2> QED
    BY <1>1, <2>1 DEF Record, NoGaps, Used
<1>6. next = k + 1
  <2>1. Used(new, name, k) /\ ~Used(new, name, k + 1)
    BY <1>1, <1>4, <1>5
  <2>2. next > k
    <3> SUFFICES ASSUME next =< k PROVE FALSE
      BY <1>1, <1>2
    <3>1. Used(new, name, next)
      BY <1>1, <1>2, <1>4, <1>5
    <3> QED
      BY <1>2, <3>1
  <2>3. ~(next > k + 1)
    <3> SUFFICES ASSUME next > k + 1 PROVE FALSE
      OBVIOUS
    <3>1. k + 1 \in 0..(next - 1)
      BY <1>1, <1>2
    <3> QED
      BY <1>2, <2>1, <3>1
  <2> QED
    BY <1>1, <1>2, <2>2, <2>3
<1>7. NoGaps(new)
  <2> SUFFICES ASSUME NEW n \in AllNames, NEW i \in Nat, Used(new, n, i), NEW j \in 0..i
               PROVE  Used(new, n, j)
    BY DEF NoGaps
  <2>1. CASE Used(es, n, i)
    BY <1>4, <2>1 DEF Record, NoGaps
  <2>2. CASE n = name /\ i = k
    BY <1>4, <1>5, <2>2
  <2> QED
    BY <1>4, <2>1, <2>2
<1>8. Rooted(new)
  <2> SUFFICES ASSUME NEW i \in DOMAIN new PROVE <<i[1]>> \in DOMAIN new
    BY DEF Rooted
  <2>1. CASE i \in DOMAIN es
    BY <1>1, <2>1 DEF Record, Rooted
  <2>2. CASE i = Id(name, k)
    <3>1. i = <<<<name, k>>>>
      BY <2>2 DEF Id
    <3>2. <<i[1]>> = i
      BY <3>1
    <3> QED
      BY <3>2
  <2> QED
    BY <1>1, <2>1, <2>2
<1> QED
  BY <1>1, <1>2, <1>6, <1>7, <1>8 DEF Record, LastUsed, k, new, next

\* A response changes neither the ids nor their numbering.
LEMMA SetResponseRecord ==
  ASSUME NEW es, Record(es), NEW name, NEW resp \in Answers
  PROVE  Record(SetResponse(es, name, resp))
<1> DEFINE new == SetResponse(es, name, resp)
<1>1. Typed(new) /\ DOMAIN new = DOMAIN es
  BY SetResponseChanges DEF Record
<1> HIDE DEF new
<1>2. NoGaps(new) /\ Rooted(new)
  BY <1>1 DEF Record, NoGaps, Rooted, Used
<1> QED
  BY <1>1, <1>2 DEF Record, new

\* What the entries of a child are called in their parent.
LEMMA TargetIsUnder ==
  ASSUME NEW e \in Entry, NEW name \in AllNames, NEW k \in Nat
  PROVE  LET base == Id(name, k)
         IN  /\ Target(e, base) \in Ids
             /\ Target(e, base)[1] = base[1]
             /\ Target(e, base) = base \/ Len(Target(e, base)) > 1
<1> DEFINE base == Id(name, k)
<1>1. base \in Seq(Parts) /\ base # <<>> /\ Len(base) = 1
  BY DEF Id, Parts, AllNames
<1>2. e.comment \in Seq(Parts) /\ e.comment # <<>>
  BY DEF Entry, Ids
<1> HIDE DEF base
<1>3. CASE IsRequest(e)
  BY <1>1, <1>3 DEF Target, Ids, base
<1>4. CASE ~IsRequest(e)
  <2>1. Target(e, base) = base \o e.comment
    BY <1>4 DEF Target
  <2>2. base \o e.comment \in Seq(Parts)
    BY <1>1, <1>2
  <2>3. Len(e.comment) \in Nat \ {0}
    BY <1>2, EmptySeq
  <2>4. Len(base \o e.comment) > 1 /\ (base \o e.comment)[1] = base[1]
    BY <1>1, <1>2, <2>3, ConcatProperties
  <2> QED
    BY <1>1, <2>1, <2>2, <2>3, <2>4 DEF Ids, base
<1> QED
  BY <1>3, <1>4 DEF base

(***************************************************************************)
(* A run is recorded under a number of its own: nothing is replaced, in    *)
(* whatever order the map of the child is read, and no other name gets an  *)
(* entry.                                                                  *)
(***************************************************************************)
LEMMA MergedAdds ==
  ASSUME NEW es, Record(es), NEW name \in AllNames,
         NEW ch, Typed(ch), \E i \in DOMAIN ch : IsRequest(ch[i]),
         NEW new \in Merged(es, ch, Id(name, FirstAvailable(es, name)))
  PROVE  /\ Record(new)
         /\ \A i \in DOMAIN es : i \in DOMAIN new /\ new[i] = es[i]
         /\ \A n \in AllNames \ {name} : \A k \in Nat : Used(new, n, k) <=> Used(es, n, k)
<1> DEFINE k == FirstAvailable(es, name)
           base == Id(name, k)
           T == {Target(ch[i], base) : i \in DOMAIN ch}
<1>1. k \in Nat /\ base \notin DOMAIN es /\ \A j \in 0..(k - 1) : Used(es, name, j)
  BY FirstAvailableIsFree DEF Record, Typed, Used
<1>2. PICK last \in [T -> DOMAIN ch] :
        new = Assign(es, [t \in T |-> [ch[last[t]] EXCEPT !.comment = t]])
  BY DEF Merged
<1>3. \A i \in DOMAIN ch : ch[i] \in Entry
  BY DEF Typed, IsEntries
<1>4. \A t \in T : t \in Ids /\ t[1] = base[1] /\ (t = base \/ Len(t) > 1)
  BY <1>1, <1>3, TargetIsUnder
<1>5. base \in T
  BY DEF Target
<1>6. base = <<<<name, k>>>> /\ <<base[1]>> = base
  BY DEF Id
<1>7. T \cap DOMAIN es = {}
  BY <1>1, <1>4, <1>6 DEF Record, Rooted
<1>8. IsFiniteSet(T)
  <2> DEFINE f == [i \in DOMAIN ch |-> Target(ch[i], base)]
  <2>1. f \in Surjection(DOMAIN ch, T)
    BY DEF Surjection
  <2> QED
    BY <2>1, FS_Surjection DEF Typed
<1> HIDE DEF T, base, k
<1>9. /\ DOMAIN new = DOMAIN es \cup T
      /\ \A i \in DOMAIN es : new[i] = es[i]
      /\ \A t \in T : new[t] = [ch[last[t]] EXCEPT !.comment = t]
      /\ new = [i \in DOMAIN new |-> new[i]]
  BY <1>2, <1>7 DEF Assign
<1>10. \A t \in T : new[t] \in Entry
  <2> SUFFICES ASSUME NEW t \in T PROVE new[t] \in Entry
    OBVIOUS
  <2>1. ch[last[t]] \in Entry /\ t \in Ids
    BY <1>2, <1>3, <1>4
  <2>2. [ch[last[t]] EXCEPT !.comment = t] \in Entry
    BY <2>1 DEF Entry
  <2> QED
    BY <1>9, <2>2
<1>11. Typed(new)
  <2>1. DOMAIN new \subseteq Ids
    BY <1>4, <1>9 DEF Record, Typed, IsEntries
  <2>2. \A i \in DOMAIN new : new[i] \in Entry
    BY <1>9, <1>10 DEF Record, Typed, IsEntries
  <2>3. IsFiniteSet(DOMAIN es)
    BY DEF Record, Typed
  <2>4. IsFiniteSet(DOMAIN es \cup T)
    BY <1>8, <2>3, FS_Union
  <2>5. IsFiniteSet(DOMAIN new)
    BY <1>9, <2>4
  <2> QED
    BY <1>9, <2>1, <2>2, <2>5 DEF Typed, IsEntries
<1>12. \A n \in AllNames, j \in Nat : Used(new, n, j) <=> Used(es, n, j) \/ (n = name /\ j = k)
  <2> SUFFICES ASSUME NEW n \in AllNames, NEW j \in Nat
               PROVE  Id(n, j) \in T <=> (n = name /\ j = k)
    BY <1>9 DEF Used
  <2>1. Len(Id(n, j)) = 1
    BY DEF Id
  <2>2. ASSUME NEW t, t = Id(n, j), t \in T PROVE t = base
    <3>1. Len(t) = 1
      BY <2>1, <2>2
    <3>2. ~(Len(t) > 1)
      BY <3>1
    <3> QED
      BY <1>4, <2>2, <3>2
  <2>3. Id(n, j) = base <=> n = name /\ j = k
    BY DEF Id, base
  <2> QED
    BY <1>5, <2>2, <2>3
<1>13. NoGaps(new)
  <2> SUFFICES ASSUME NEW n \in AllNames, NEW i \in Nat, Used(new, n, i), NEW j \in 0..i
               PROVE  Used(new, n, j)
    BY DEF NoGaps
  <2>1. CASE Used(es, n, i)
    BY <1>12, <2>1 DEF Record, NoGaps
  <2>2. CASE n = name /\ i = k
    BY <1>1, <1>12, <2>2
  <2> QED
    BY <1>12, <2>1, <2>2
<1>14. Rooted(new)
  BY <1>4, <1>5, <1>6, <1>9 DEF Record, Rooted
<1> QED
  BY <1>9, <1>11, <1>12, <1>13, <1>14 DEF Record

\* The numbers in use determine the last one.
LEMMA SameLastUsed ==
  ASSUME NEW es, Typed(es), NEW new, Typed(new), NEW name,
         \A k \in Nat : Used(new, name, k) <=> Used(es, name, k)
  PROVE  LastUsed(new, name) = LastUsed(es, name)
<1> DEFINE a == FirstAvailable(es, name)
           b == FirstAvailable(new, name)
<1>1. /\ a \in Nat /\ ~Used(es, name, a) /\ \A j \in 0..(a - 1) : Used(es, name, j)
      /\ b \in Nat /\ ~Used(new, name, b) /\ \A j \in 0..(b - 1) : Used(new, name, j)
  BY FirstAvailableIsFree DEF Typed
<1> HIDE DEF a, b
<1>2. ~(a < b)
  <2> SUFFICES ASSUME a < b PROVE FALSE
    OBVIOUS
  <2>1. a \in 0..(b - 1)
    BY <1>1
  <2> QED
    BY <1>1, <2>1
<1>3. ~(b < a)
  <2> SUFFICES ASSUME b < a PROVE FALSE
    OBVIOUS
  <2>1. b \in 0..(a - 1)
    BY <1>1
  <2> QED
    BY <1>1, <2>1
<1>4. a = b
  BY <1>1, <1>2, <1>3
<1> QED
  BY <1>4 DEF LastUsed, a, b

\* No entries, the record of a case before its request.
LEMMA NoEntriesRecord ==
  ASSUME NEW name
  PROVE  Record(NoEntries) /\ FirstAvailable(NoEntries, name) = 0
<1>1. DOMAIN NoEntries = {} /\ IsEntries(NoEntries)
  BY DEF NoEntries, IsEntries
<1>2. Record(NoEntries)
  BY <1>1, FS_EmptySet DEF Record, Typed, NoGaps, Rooted, Used
<1>3. /\ FirstAvailable(NoEntries, name) \in Nat
      /\ \A j \in 0..(FirstAvailable(NoEntries, name) - 1) : Used(NoEntries, name, j)
  BY <1>2, FirstAvailableIsFree DEF Record, Typed
<1>4. \A j : ~Used(NoEntries, name, j)
  BY <1>1 DEF Used
<1>5. ~(FirstAvailable(NoEntries, name) > 0)
  <2> SUFFICES ASSUME FirstAvailable(NoEntries, name) > 0 PROVE FALSE
    OBVIOUS
  <2>1. 0 \in 0..(FirstAvailable(NoEntries, name) - 1)
    BY <1>3
  <2> QED
    BY <1>3, <1>4, <2>1
<1> QED
  BY <1>2, <1>3, <1>5

\* A request and its response: one new entry, and no other is touched.
LEMMA ExchangeAdds ==
  ASSUME NEW es, Record(es), NEW name \in AllNames, NEW by \in Nat, NEW resp \in Answers
  PROVE  LET new == SetResponse(SetRequest(es, name, by), name, resp)
         IN  Record(new) /\ \A i \in DOMAIN es : i \in DOMAIN new /\ new[i] = es[i]
<1> DEFINE mid == SetRequest(es, name, by)
           new == SetResponse(mid, name, resp)
           k == FirstAvailable(es, name)
<1>0. Typed(es)
  BY DEF Record
<1> HIDE DEF new
<1>1. Record(mid) /\ LastUsed(mid, name) = k
  BY SetRequestRecord
<1>2. /\ Id(name, k) \notin DOMAIN es
      /\ DOMAIN mid = DOMAIN es \cup {Id(name, k)}
      /\ \A i \in DOMAIN es : mid[i] = es[i]
  BY <1>0, SetRequestAdds
<1> HIDE DEF mid
<1>3. Record(new)
  BY <1>1, SetResponseRecord DEF new
<1>4. DOMAIN new = DOMAIN mid /\ \A i \in DOMAIN mid : i # Id(name, k) => new[i] = mid[i]
  BY <1>1, SetResponseChanges DEF Record, new
<1> HIDE DEF k
<1>5. \A i \in DOMAIN es : i \in DOMAIN new /\ new[i] = es[i]
  BY <1>2, <1>4
<1> QED
  BY <1>3, <1>5 DEF new, mid

-----------------------------------------------------------------------------
Running == {"body", "boundary", "merge"}
ChildId == Id(RequestName, 0)

\* A child has the entry of its own request, which gives its other entries a root.
HasRequest(es) == ChildId \in DOMAIN es /\ IsRequest(es[ChildId])

\* A loop under way is the entry of its name used last, and has no response.
LoopOpen(es) == LET id == Id(LoopName, LastUsed(es, LoopName))
                IN  id \in DOMAIN es /\ es[id].resp = "none"

\* What keeps RecordStays: the shape of the two maps, and the place of the loop in one.
RecordInv ==
  /\ Record(entries)
  /\ Typed(child)
  /\ pc \in Running => HasRequest(child)
  /\ pc = "head" => activity = LoopName
  /\ activity = LoopName /\ pc # "idle" => LoopOpen(entries)

LEMMA NewChildHasRequest ==
  ASSUME NEW n \in Nat
  PROVE  LET new == SetRequest(NoEntries, RequestName, n)
         IN  Typed(new) /\ HasRequest(new)
<1> DEFINE new == SetRequest(NoEntries, RequestName, n)
<1>1. Typed(NoEntries) /\ FirstAvailable(NoEntries, RequestName) = 0
  BY NoEntriesRecord DEF Record
<1>2. /\ Typed(new) /\ DOMAIN new = DOMAIN NoEntries \cup {ChildId}
      /\ new[ChildId].comment = ChildId
  BY <1>1, SetRequestAdds DEF AllNames, ChildId
<1> HIDE DEF new
<1>3. IsRequest(new[ChildId])
  <2>1. ChildId = <<<<RequestName, 0>>>>
    BY DEF ChildId, Id
  <2>2. Head(ChildId) = <<RequestName, 0>>
    BY <2>1
  <2> QED
    BY <1>2, <2>2 DEF IsRequest
<1> QED
  BY <1>2, <1>3 DEF HasRequest, new

\* What the activities of a child do to its entries leaves its request there.
LEMMA ExchangeKeepsRequest ==
  ASSUME NEW es, Typed(es), HasRequest(es),
         NEW name \in AllNames, NEW by \in Nat, NEW resp \in Answers
  PROVE  LET new == SetResponse(SetRequest(es, name, by), name, resp)
         IN  Typed(new) /\ HasRequest(new)
<1> DEFINE mid == SetRequest(es, name, by)
           new == SetResponse(mid, name, resp)
           id == Id(name, FirstAvailable(es, name))
<1>0. /\ Typed(mid) /\ DOMAIN mid = DOMAIN es \cup {id}
      /\ \A i \in DOMAIN es : mid[i] = es[i]
  BY SetRequestAdds
<1> HIDE DEF mid, id
<1>1. Typed(mid) /\ \A i \in DOMAIN es : i \in DOMAIN mid /\ mid[i] = es[i]
  BY <1>0
<1>2. /\ Typed(new) /\ DOMAIN new = DOMAIN mid
      /\ \A i \in DOMAIN mid : new[i].comment = mid[i].comment
  BY <1>1, SetResponseChanges
<1> HIDE DEF new
<1>3. ChildId \in DOMAIN new /\ new[ChildId].comment = es[ChildId].comment
  BY <1>1, <1>2 DEF HasRequest
<1> QED
  BY <1>2, <1>3 DEF HasRequest, IsRequest, new, mid

LEMMA ResponseKeepsRequest ==
  ASSUME NEW es, Typed(es), HasRequest(es), NEW name, NEW resp \in Answers
  PROVE  LET new == SetResponse(es, name, resp)
         IN  Typed(new) /\ HasRequest(new)
<1> DEFINE new == SetResponse(es, name, resp)
<1>1. /\ Typed(new) /\ DOMAIN new = DOMAIN es
      /\ \A i \in DOMAIN es : new[i].comment = es[i].comment
  BY SetResponseChanges
<1> HIDE DEF new
<1> QED
  BY <1>1 DEF HasRequest, IsRequest, new

\* Entries added under other ids leave the request alone.
LEMMA AssignKeepsRequest ==
  ASSUME NEW es, Typed(es), HasRequest(es),
         NEW S, IsFiniteSet(S), S \subseteq Ids, ChildId \notin S,
         NEW g \in [S -> Entry]
  PROVE  LET new == Assign(es, g)
         IN  Typed(new) /\ HasRequest(new)
<1> DEFINE new == Assign(es, g)
<1>1. es \in [DOMAIN es -> Entry] /\ DOMAIN es \subseteq Ids /\ IsFiniteSet(DOMAIN es)
  BY DEF Typed, IsEntries
<1>2. /\ DOMAIN new = DOMAIN es \cup S
      /\ new \in [DOMAIN es \cup S -> Entry]
      /\ \A i \in DOMAIN es \ S : new[i] = es[i]
  BY <1>1 DEF Assign
<1>3. IsFiniteSet(DOMAIN es \cup S)
  BY <1>1, FS_Union
<1> HIDE DEF new
<1>4. Typed(new)
  BY <1>1, <1>2, <1>3 DEF Typed, IsEntries
<1>5. HasRequest(new)
  BY <1>2 DEF HasRequest
<1> QED
  BY <1>4, <1>5 DEF new

\* The answer to a loop is the first it gets.
LEMMA LoopAnswered ==
  ASSUME NEW es, Record(es), LoopOpen(es), NEW resp \in Answers
  PROVE  LET new == SetResponse(es, LoopName, resp)
         IN  /\ Record(new)
             /\ \A i \in DOMAIN es :
                  /\ i \in DOMAIN new
                  /\ new[i].by = es[i].by
                  /\ es[i].resp # "none" => new[i].resp = es[i].resp
<1> DEFINE new == SetResponse(es, LoopName, resp)
           id == Id(LoopName, LastUsed(es, LoopName))
<1>1. Record(new)
  BY SetResponseRecord
<1>2. Typed(es)
  BY DEF Record
<1>3. /\ DOMAIN new = DOMAIN es
      /\ \A i \in DOMAIN es : new[i].by = es[i].by /\ (i # id => new[i] = es[i])
  BY <1>2, SetResponseChanges
<1>4. es[id].resp = "none"
  BY DEF LoopOpen
<1> HIDE DEF new, id
<1>5. \A i \in DOMAIN es :
        /\ i \in DOMAIN new
        /\ new[i].by = es[i].by
        /\ es[i].resp # "none" => new[i].resp = es[i].resp
  BY <1>3, <1>4
<1> QED
  BY <1>1, <1>5 DEF new

-----------------------------------------------------------------------------
\* The facts about the constants and the state that the steps below share.
Counters == run \in Nat /\ pc \in Places /\ activity \in {NestedName, LoopName}

LEMMA TypeCounters == TypeOK => Counters
<1> SUFFICES ASSUME TypeOK PROVE Counters
  OBVIOUS
<1>1. MaxRuns \in Nat /\ run \in 0..MaxRuns /\ pc \in Places /\ activity \in {NestedName, LoopName}
  BY ConfigsAssumption DEF TypeOK
<1> QED
  BY <1>1 DEF Counters

\* Nothing happens to the entries of the parent when they are unchanged.
LEMMA SameIsKept == entries' = entries => Kept
BY DEF Kept

\* The activities of a child leave the parent's entries, and the child its request.
LEMMA ChildStepRecord ==
  ASSUME Counters, RecordInv, ChildStep
  PROVE  RecordInv' /\ Kept
<1>1. pc \in Running /\ HasRequest(child) /\ Typed(child) /\ run \in Nat
  <2>1. pc \in Running
    BY DEF ChildStep, ChildResponds, ChildFails, ChildActivity, ChildCached, ChildNested,
           ChildRuns, BoundaryEnds, Running
  <2> QED
    BY <2>1 DEF RecordInv, Counters
<1>2. UNCHANGED <<entries, activity>> /\ pc' \in Running
  BY DEF ChildStep, ChildResponds, ChildFails, ChildActivity, ChildCached, ChildNested,
         ChildRuns, BoundaryEnds, Running
<1>3. Record(entries)' /\ (activity = LoopName /\ pc # "idle" => LoopOpen(entries))' /\ pc' # "head"
  <2>1. pc # "idle" /\ pc' # "head"
    BY <1>1, <1>2 DEF Running
  <2> QED
    BY <1>2, <2>1 DEF RecordInv
<1>4. Typed(child') /\ HasRequest(child')
  <2>1. ASSUME NEW resp \in Answers, child' = SetResponse(child, RequestName, resp)
        PROVE  Typed(child') /\ HasRequest(child')
    BY <1>1, <2>1, ResponseKeepsRequest
  <2>2. ASSUME NEW name \in PlainNames, NEW resp \in Answers, ChildActivity(name, resp)
        PROVE  Typed(child') /\ HasRequest(child')
    <3>1. name \in AllNames
      BY ActivitiesAssumption DEF AllNames
    <3>2. child' = SetResponse(SetRequest(child, name, run), name, resp)
      BY <2>2 DEF ChildActivity
    <3> QED
      BY <1>1, <3>1, <3>2, ExchangeKeepsRequest
  <2>3. ASSUME NEW name \in PlainNames, ChildCached(name, "json")
        PROVE  Typed(child') /\ HasRequest(child')
    <3> DEFINE k == FirstAvailable(child, name)
               S == {Id(name, k)}
               g == [i \in S |-> [comment |-> Id(name, Bare), resp |-> "json", by |-> run]]
    <3>1. name \in Names /\ k \in Nat
      BY <1>1, ActivitiesAssumption, FirstAvailableIsFree DEF Typed
    <3>2. S \subseteq Ids /\ Id(name, Bare) \in Ids
      BY <3>1 DEF Id, Ids, Parts
    <3>3. ChildId \notin S
      BY <3>1, NamesAssumption DEF ChildId, Id
    <3>4. g \in [S -> Entry]
      BY <1>1, <3>2 DEF Entry, Answers
    <3>5. IsFiniteSet(S)
      BY FS_Singleton
    <3>6. child' = Assign(child, g)
      BY <2>3 DEF ChildCached, SetEntry
    <3> HIDE DEF S, g, k
    <3> QED
      BY <1>1, <3>2, <3>3, <3>4, <3>5, <3>6, AssignKeepsRequest
  <2>4. ASSUME NEW name \in PlainNames, ChildNested(name)
        PROVE  Typed(child') /\ HasRequest(child')
    <3> DEFINE base == Id(NestedName, FirstAvailable(child, NestedName))
               S == {base, base \o Id(name, 0)}
               g == [i \in S |-> [comment |-> i, resp |-> "json", by |-> run]]
    <3>1. name \in Names /\ NestedName \in Names /\ FirstAvailable(child, NestedName) \in Nat
      BY <1>1, ActivitiesAssumption, FirstAvailableIsFree DEF Typed
    <3>2. base \in Seq(Parts) /\ Id(name, 0) \in Seq(Parts) /\ base # <<>> /\ Len(base) = 1
          /\ Len(Id(name, 0)) = 1
      BY <3>1 DEF Id, Parts
    <3>3. S \subseteq Ids
      <4> DEFINE sub == base \o Id(name, 0)
      <4>1. sub \in Seq(Parts) /\ Len(sub) = 2
        BY <3>2, ConcatProperties
      <4> HIDE DEF sub, base
      <4>2. sub # <<>>
        BY <4>1
      <4> QED
        BY <3>2, <4>1, <4>2 DEF Ids, sub
    <3>4. ChildId \notin S
      <4>1. ChildId # base
        BY <3>1, NamesAssumption DEF ChildId, Id
      <4>2. Len(ChildId) = 1 /\ Len(base \o Id(name, 0)) = 2
        BY <3>2 DEF ChildId, Id
      <4> QED
        BY <4>1, <4>2
    <3>5. g \in [S -> Entry]
      BY <1>1, <3>3 DEF Entry, Answers
    <3>6. IsFiniteSet(S)
      <4>1. IsFiniteSet({base}) /\ IsFiniteSet({base \o Id(name, 0)})
        BY FS_Singleton
      <4>2. S = {base} \cup {base \o Id(name, 0)}
        OBVIOUS
      <4> QED
        BY <4>1, <4>2, FS_Union
    <3>7. child' = Assign(child, g)
      BY <2>4 DEF ChildNested
    <3> HIDE DEF S, g
    <3> QED
      BY <1>1, <3>3, <3>4, <3>5, <3>6, <3>7, AssignKeepsRequest
  <2>5. CASE child' = child
    BY <1>1, <2>5
  <2>6. "json" \in Answers /\ {"json", "text"} \subseteq Answers
    BY DEF Answers
  <2> QED
    BY <2>1, <2>2, <2>3, <2>4, <2>5, <2>6
    DEF ChildStep, ChildResponds, ChildFails, BoundaryEnds
<1> QED
  BY <1>2, <1>3, <1>4, SameIsKept DEF RecordInv

\* The entries of a child get names of their own, and an open loop stays open.
LEMMA MergeRecord ==
  ASSUME Counters, RecordInv, Merge
  PROVE  RecordInv' /\ Kept
<1>1. /\ Record(entries) /\ Typed(child) /\ HasRequest(child)
      /\ activity = LoopName => LoopOpen(entries)
  BY DEF Merge, RecordInv, Running
<1>2. BaseName \in AllNames /\ (activity = LoopName => LoopName \in AllNames \ {BaseName})
  BY ActivitiesAssumption DEF BaseName, AllNames
<1>3. \E i \in DOMAIN child : IsRequest(child[i])
  BY <1>1 DEF HasRequest
<1>4. entries' \in Merged(entries, child, Id(BaseName, FirstAvailable(entries, BaseName)))
  BY DEF Merge, Base
<1>5. /\ Record(entries')
      /\ \A i \in DOMAIN entries : i \in DOMAIN entries' /\ entries'[i] = entries[i]
      /\ \A n \in AllNames \ {BaseName} : \A k \in Nat : Used(entries', n, k) <=> Used(entries, n, k)
  BY <1>1, <1>2, <1>3, <1>4, MergedAdds
<1>6. ASSUME activity = LoopName PROVE LoopOpen(entries')
  <2> DEFINE id == Id(LoopName, LastUsed(entries, LoopName))
  <2>1. LastUsed(entries', LoopName) = LastUsed(entries, LoopName)
    <3>1. \A k \in Nat : Used(entries', LoopName, k) <=> Used(entries, LoopName, k)
      BY <1>2, <1>5, <1>6
    <3> QED
      BY <1>1, <1>5, <3>1, SameLastUsed DEF Record
  <2>2. id \in DOMAIN entries /\ entries[id].resp = "none"
    BY <1>1, <1>6 DEF LoopOpen
  <2>3. id \in DOMAIN entries' /\ entries'[id].resp = "none"
    BY <1>5, <2>2
  <2> QED
    BY <2>1, <2>3 DEF LoopOpen
<1>7. Kept
  BY <1>5 DEF Kept
<1>8. Typed(child') /\ pc' = "respond" /\ activity' = activity
  <2>1. Typed(NoEntries)
    BY NoEntriesRecord DEF Record
  <2> QED
    BY <2>1 DEF Merge
<1> QED
  BY <1>5, <1>6, <1>7, <1>8 DEF RecordInv, Running

\* Every step keeps the invariant and what has been recorded.
LEMMA NextRecord ==
  ASSUME Counters, RecordInv, [Next]_vars
  PROVE  RecordInv' /\ (Next => Kept)
<1>1. CASE UNCHANGED vars
  <2>1. UNCHANGED <<entries, child, pc, activity>>
    BY <1>1 DEF vars
  <2> QED
    BY <2>1, SameIsKept DEF RecordInv
<1>2. ASSUME NEW name \in PlainNames, NEW resp \in Answers, Plain(name, resp)
      PROVE  RecordInv' /\ Kept
  <2>1. name \in AllNames /\ Record(entries)
    BY ActivitiesAssumption DEF AllNames, RecordInv
  <2>2. entries' = SetResponse(SetRequest(entries, name, 0), name, resp)
    BY <1>2 DEF Plain
  <2>3. Record(entries') /\ \A i \in DOMAIN entries : i \in DOMAIN entries' /\ entries'[i] = entries[i]
    BY <2>1, <2>2, ExchangeAdds
  <2>4. pc' = "idle" /\ child' = child
    BY <1>2 DEF Plain
  <2> QED
    BY <2>3, <2>4 DEF RecordInv, Kept, Running
<1>3. CASE BeginNested
  <2>1. child' = SetRequest(NoEntries, RequestName, run + 1) /\ run + 1 \in Nat
    BY <1>3 DEF BeginNested, NewChild, Counters
  <2>2. Typed(child') /\ HasRequest(child')
    BY <2>1, NewChildHasRequest
  <2>3. activity' # LoopName /\ entries' = entries /\ pc' = "body"
    BY <1>3, ActivitiesAssumption DEF BeginNested, NewChild
  <2> QED
    BY <2>2, <2>3, SameIsKept DEF RecordInv
<1>4. CASE BeginLoop
  <2> DEFINE id == Id(LoopName, FirstAvailable(entries, LoopName))
  <2>1. LoopName \in AllNames /\ Record(entries) /\ Typed(entries)
    BY ActivitiesAssumption DEF AllNames, RecordInv, Record
  <2>2. entries' = SetRequest(entries, LoopName, 0)
    BY <1>4 DEF BeginLoop
  <2>3. Record(entries') /\ LastUsed(entries', LoopName) = FirstAvailable(entries, LoopName)
    BY <2>1, <2>2, SetRequestRecord
  <2>4. /\ DOMAIN entries' = DOMAIN entries \cup {id} /\ entries'[id].resp = "none"
        /\ \A i \in DOMAIN entries : entries'[i] = entries[i]
    <3> DEFINE new == SetRequest(entries, LoopName, 0)
    <3>1. DOMAIN new = DOMAIN entries \cup {id} /\ new[id].resp = "none"
      BY <2>1, SetRequestAdds
    <3>2. \A i \in DOMAIN entries : new[i] = entries[i]
      BY <2>1, SetRequestAdds
    <3> HIDE DEF id
    <3> QED
      BY <2>2, <3>1, <3>2
  <2>5. LoopOpen(entries')
    BY <2>3, <2>4 DEF LoopOpen
  <2> HIDE DEF id
  <2>6. Kept
    BY <2>4 DEF Kept
  <2>7. pc' \notin Running /\ child' = child /\ activity' = LoopName
    BY <1>4 DEF BeginLoop, Running
  <2> QED
    BY <2>3, <2>5, <2>6, <2>7 DEF RecordInv
<1>5. CASE LoopNext
  <2>1. child' = SetRequest(NoEntries, RequestName, run + 1) /\ run + 1 \in Nat
    BY <1>5 DEF LoopNext, NewChild, Counters
  <2>2. Typed(child') /\ HasRequest(child')
    BY <2>1, NewChildHasRequest
  <2>3. pc = "head" /\ pc' = "body" /\ UNCHANGED <<activity, entries>>
    BY <1>5 DEF LoopNext, NewChild
  <2> QED
    BY <2>2, <2>3, SameIsKept DEF RecordInv
<1>6. CASE BeginFails \/ LoopNextFails \/ RespondNil
  <2>1. /\ pc \in {"idle", "head", "respond"} /\ pc' \in {"idle", "head"}
        /\ pc = "idle" => pc' = "idle"
        /\ pc' = "head" => activity = LoopName
        /\ UNCHANGED <<activity, entries, child>>
    BY <1>6 DEF BeginFails, LoopNextFails, RespondNil, Leave
  <2> QED
    BY <2>1, SameIsKept DEF RecordInv, Running
<1>7. CASE LoopEnd \/ RespondError
  <2>1. Record(entries) /\ (activity = LoopName => LoopOpen(entries))
    BY <1>7 DEF LoopEnd, RespondError, RecordInv
  <2>2. pc' = "idle" /\ child' = child
    BY <1>7 DEF LoopEnd, RespondError, Leave
  <2>3. ASSUME NEW resp \in Answers, entries' = SetResponse(entries, LoopName, resp),
               activity = LoopName
        PROVE  Record(entries') /\ Kept
    <3>1. LoopOpen(entries)
      BY <2>1, <2>3
    <3> QED
      BY <2>1, <2>3, <3>1, LoopAnswered DEF Kept
  <2>4. CASE entries' = entries
    BY <2>1, <2>2, <2>4, SameIsKept DEF RecordInv, Running
  <2>5. \/ entries' = entries
        \/ activity = LoopName /\ \E resp \in Answers : entries' = SetResponse(entries, LoopName, resp)
    BY <1>7 DEF LoopEnd, RespondError, RecordInv, Answers
  <2> QED
    BY <2>2, <2>3, <2>4, <2>5 DEF RecordInv, Running
<1>8. CASE ChildStep
  BY <1>8, ChildStepRecord
<1>9. CASE Merge
  BY <1>9, MergeRecord
<1> QED
  BY <1>1, <1>2, <1>3, <1>4, <1>5, <1>6, <1>7, <1>8, <1>9 DEF Next

-----------------------------------------------------------------------------
\* The parts of TypeOK: the two maps are RecordInv's; the others one by one.
ControlOK ==
  /\ cfg \in Configs /\ pc \in Places /\ outcome \in {"ok", "error"}
  /\ steps \in 0..cfg.steps /\ activity \in {NestedName, LoopName}
  /\ run \in 0..MaxRuns /\ before \in 0..run /\ status \in Codes
LoopOK == current \in Int /\ iterators \in Seq(Int) /\ responses \in Seq(0..MaxRuns)
HistoryOK == failed \in BOOLEAN /\ created \in Nat /\ ambiguous \in BOOLEAN

LEMMA TypeParts == TypeOK <=> ControlOK /\ LoopOK /\ HistoryOK /\ IsEntries(entries) /\ IsEntries(child)
BY DEF TypeOK, ControlOK, LoopOK, HistoryOK

\* Every step keeps where the goroutine is and how many children there have been.
LEMMA NextControl ==
  ASSUME ControlOK, [Next]_vars
  PROVE  ControlOK'
<1>1. cfg \in Config /\ MaxRuns \in Nat
  BY ConfigsAssumption DEF ControlOK
<1>2. cfg.steps \in Nat /\ cfg.runs \in 0..MaxRuns
  BY <1>1 DEF Config
<1>3. ASSUME NEW name, NEW resp, Plain(name, resp) PROVE ControlOK'
  BY <1>2, <1>3 DEF Plain, ControlOK, result
<1>4. ASSUME BeginFails \/ BeginNested PROVE ControlOK'
  BY <1>1, <1>2, <1>4 DEF BeginFails, BeginNested, NewChild, ControlOK, Places, result
<1>5. ASSUME BeginLoop PROVE ControlOK'
  BY <1>1, <1>2, <1>5 DEF BeginLoop, ControlOK, Places, result
<1>6. ASSUME LoopNext PROVE ControlOK'
  BY <1>1, <1>2, <1>6 DEF LoopNext, NewChild, ControlOK, Places, result
<1>7. ASSUME LoopNextFails \/ LoopEnd \/ Merge \/ RespondNil \/ RespondError PROVE ControlOK'
  BY <1>7 DEF LoopNextFails, LoopEnd, Merge, RespondNil, RespondError, Leave, ControlOK, Places, result
<1>8. ASSUME ChildStep PROVE ControlOK'
  <2>1. ASSUME NEW name, NEW resp, ChildActivity(name, resp) \/ ChildCached(name, resp) \/ ChildNested(name)
        PROVE  ControlOK'
    BY <2>1 DEF ChildActivity, ChildCached, ChildNested, ChildRuns, ControlOK, result
  <2>2. ASSUME NEW st \in Codes, NEW resp, ChildResponds(st, resp) PROVE ControlOK'
    BY <2>2 DEF ChildResponds, ControlOK, Places, Codes
  <2>3. ASSUME NEW st \in Codes, ChildFails(st) PROVE ControlOK'
    BY <2>3 DEF ChildFails, ControlOK, Places
  <2>4. ASSUME NEW e \in BOOLEAN, BoundaryEnds(e) PROVE ControlOK'
    BY <2>4 DEF BoundaryEnds, ControlOK, Places, Codes
  <2> QED
    BY <1>8, <2>1, <2>2, <2>3, <2>4 DEF ChildStep
<1>9. ASSUME UNCHANGED vars PROVE ControlOK'
  BY <1>9 DEF vars, ControlOK
<1> QED
  BY <1>3, <1>4, <1>5, <1>6, <1>7, <1>8, <1>9 DEF Next

\* The loop keeps numbers, and collects as many of them as a child has answers.
LEMMA NextLoop ==
  ASSUME ControlOK, LoopOK, Typed(child), [Next]_vars
  PROVE  LoopOK'
<1>1. run \in 0..MaxRuns /\ cfg.range.step \in Int
  BY ConfigsAssumption DEF ControlOK, Config, ControlFlow
<1>2. CASE BeginLoop
  BY <1>2 DEF BeginLoop, LoopOK
<1>3. CASE LoopNext
  BY <1>1, <1>3 DEF LoopNext, Advance, LoopOK
<1>4. CASE Merge
  <2>1. Cardinality(JsonRequests(child)) \in Nat
    <3>1. IsFiniteSet(JsonRequests(child))
      BY FS_Subset DEF JsonRequests, Typed
    <3> QED
      BY <3>1, FS_CardinalityType
  <2> DEFINE n == Cardinality(JsonRequests(child))
             new == [k \in 1..n |-> run]
             S == 0..MaxRuns
  <2>2. n \in Nat /\ run \in S
    BY <1>1, <2>1
  <2>3. responses' = responses \/ responses' = responses \o new
    BY <1>4 DEF Merge, Collect
  <2>4. UNCHANGED <<current, iterators>>
    BY <1>4 DEF Merge
  <2> HIDE DEF n, S
  <2>5. new \in Seq(S)
    BY <2>2
  <2>6. responses \in Seq(S) /\ current \in Int /\ iterators \in Seq(Int)
    BY DEF LoopOK, S
  <2> HIDE DEF new
  <2>7. responses' \in Seq(S)
    BY <2>3, <2>5, <2>6, ConcatProperties
  <2> QED
    BY <2>4, <2>6, <2>7 DEF LoopOK, S
<1>5. CASE ~(BeginLoop \/ LoopNext \/ Merge)
  <2>1. UNCHANGED loop
    BY <1>5 DEF Next, ChildStep, Plain, BeginFails, BeginNested, LoopNextFails, LoopEnd, ChildActivity,
                ChildCached, ChildNested, ChildRuns, ChildResponds, ChildFails, BoundaryEnds,
                RespondNil, RespondError, vars, loop
  <2> QED
    BY <2>1 DEF LoopOK, loop
<1> QED
  BY <1>2, <1>3, <1>4, <1>5

LEMMA NextHistory ==
  ASSUME HistoryOK, [Next]_vars
  PROVE  HistoryOK'
<1>1. failed' \in BOOLEAN
  BY Zenon DEF HistoryOK, Next, ChildStep, Plain, BeginFails, BeginNested, BeginLoop, LoopNext, LoopNextFails,
               LoopEnd, ChildActivity, ChildCached, ChildNested, ChildRuns, ChildResponds, ChildFails,
               BoundaryEnds, Merge, RespondNil, RespondError, vars, result
<1>2. ambiguous' \in BOOLEAN
  BY Zenon DEF HistoryOK, Next, ChildStep, Plain, BeginFails, BeginNested, BeginLoop, LoopNext, LoopNextFails,
               LoopEnd, ChildActivity, ChildCached, ChildNested, ChildRuns, ChildResponds, ChildFails,
               BoundaryEnds, Merge, RespondNil, RespondError, vars, history
<1>3. created' \in Nat
  <2>1. created' \in {created, created + 1, created + 2}
    BY DEF Next, ChildStep, Plain, BeginFails, BeginNested, BeginLoop, NewChild, LoopNext, LoopNextFails,
           LoopEnd, ChildActivity, ChildCached, ChildNested, ChildRuns, ChildResponds, ChildFails,
           BoundaryEnds, Merge, RespondNil, RespondError, vars, history
  <2> QED
    BY <2>1 DEF HistoryOK
<1> QED
  BY <1>1, <1>2, <1>3 DEF HistoryOK

-----------------------------------------------------------------------------
\* The inductive invariant: RecordStays needs the numbers of a name without gaps,
\* so that the entry used last is the one of the activity in execution.
NestedInv == TypeOK /\ RecordInv

LEMMA InitInv == Init => NestedInv
<1> SUFFICES ASSUME Init PROVE NestedInv
  OBVIOUS
<1> DEFINE new == SetResponse(SetRequest(NoEntries, RequestName, 0), RequestName, "json")
<1>1. Record(new)
  <2>1. Record(NoEntries) /\ RequestName \in AllNames /\ "json" \in Answers /\ 0 \in Nat
    BY NoEntriesRecord DEF AllNames, Answers
  <2> QED
    BY <2>1, ExchangeAdds
<1>2. entries = new /\ child = NoEntries
  BY DEF Init
<1> HIDE DEF new
<1>3. Record(entries) /\ Typed(entries) /\ Typed(child)
  BY <1>1, <1>2, NoEntriesRecord DEF Record
<1>4. RecordInv
  BY <1>3 DEF Init, RecordInv, Running
<1>5. ControlOK
  <2>1. cfg \in Config /\ MaxRuns \in Nat
    BY ConfigsAssumption DEF Init
  <2>2. cfg.steps \in Nat
    BY <2>1 DEF Config
  <2> QED
    BY <2>1, <2>2 DEF Init, ControlOK, Places, Codes
<1>6. LoopOK
  BY DEF Init, LoopOK
<1>7. HistoryOK
  <2>1. failed = FALSE /\ ambiguous = FALSE /\ created = 1
    BY DEF Init
  <2> QED
    BY <2>1 DEF HistoryOK
<1> QED
  BY <1>3, <1>4, <1>5, <1>6, <1>7, TypeParts DEF NestedInv, Typed

LEMMA NextInv == NestedInv /\ [Next]_vars => NestedInv' /\ [Kept]_vars
<1> SUFFICES ASSUME NestedInv, [Next]_vars PROVE NestedInv' /\ [Kept]_vars
  OBVIOUS
<1>1. ControlOK /\ LoopOK /\ HistoryOK /\ RecordInv /\ Typed(child)
  BY TypeParts DEF NestedInv, RecordInv
<1>2. Counters
  BY TypeCounters DEF NestedInv
<1>3. RecordInv' /\ (Next => Kept)
  BY <1>1, <1>2, NextRecord
<1>4. IsEntries(entries)' /\ IsEntries(child)'
  BY <1>3 DEF RecordInv, Record, Typed
<1>5. ControlOK' /\ LoopOK' /\ HistoryOK'
  BY <1>1, NextControl, NextLoop, NextHistory
<1>6. TypeOK'
  BY <1>4, <1>5 DEF TypeOK, ControlOK, LoopOK, HistoryOK
<1> QED
  BY <1>3, <1>6 DEF NestedInv

\* The maps hold entries with well-formed ids; counters stay within their bounds.
THEOREM TypeCorrect == Spec => []TypeOK
<1>1. Init => NestedInv
  BY InitInv
<1>2. NestedInv /\ [Next]_vars => NestedInv'
  BY NextInv
<1>3. NestedInv => TypeOK
  BY DEF NestedInv
<1> QED
  BY <1>1, <1>2, <1>3, PTL DEF Spec

\* No activity ever replaces what another one has recorded in the case, however
\* many runs there are, whatever they are called and however they are mixed
\* (SetHarEntryRequest, SetHarEntryResponse and the copying of a child's entries).
THEOREM RecordIsKept == Spec => RecordStays
<1>1. Init => NestedInv
  BY InitInv
<1>2. NestedInv /\ [Next]_vars => NestedInv' /\ [Kept]_vars
  BY NextInv
<1> QED
  BY <1>1, <1>2, PTL DEF Spec, RecordStays

-----------------------------------------------------------------------------
(***************************************************************************)
(* A failure whose action is an error without a guard cannot be forgotten: *)
(* the list of actions offers nothing else for its status.                 *)
(***************************************************************************)
LEMMA OnlyAction ==
  ASSUME NEW st, NEW i, Matching(st) = {i}
  PROVE  FindByStatusCode(st) = i /\ i # 0
<1>1. i \in 1..Len(cfg.actions)
  BY DEF Matching
<1>2. i \in Int /\ i # 0
  BY <1>1
<1>3. \A j \in Matching(st) : i =< j
  BY <1>2
<1>4. FindByStatusCode(st) = CHOOSE k \in Matching(st) : \A j \in Matching(st) : k =< j
  BY DEF FindByStatusCode
<1>5. (CHOOSE k \in Matching(st) : \A j \in Matching(st) : k =< j) \in Matching(st)
  BY <1>3
<1> QED
  BY <1>2, <1>4, <1>5

\* A failure for which on-response has one action, with an error that has no guard, ends
\* the activity with an error (ProcessResponseActionByStatusCode, FindByStatusCode).
THEOREM ErrorSurfaces == Spec => ConfiguredErrorSurfaces
<1> DEFINE Configured == \E i \in Matching(status) : Matching(status) = {i} /\ cfg.actions[i].error = "always"
<1>1. ASSUME Next, pc = "respond", Configured PROVE outcome' = "error"
  <2>1. PICK i \in Matching(status) : Matching(status) = {i} /\ cfg.actions[i].error = "always"
    BY <1>1
  <2>2. FindByStatusCode(status) = i /\ i # 0
    BY <2>1, OnlyAction
  <2>3. ~RespondNil
    BY <2>1, <2>2 DEF RespondNil, MayReturnNil
  <2>4. RespondError
    BY <1>1, <2>3
       DEF Next, Plain, BeginFails, BeginNested, BeginLoop, LoopNext, LoopNextFails, LoopEnd, ChildStep,
           ChildActivity, ChildCached, ChildNested, ChildRuns, ChildResponds, ChildFails, BoundaryEnds, Merge
  <2> QED
    BY <2>4 DEF RespondError, Leave
<1>2. [Next]_vars => [pc = "respond" /\ Configured => outcome' = "error"]_vars
  BY <1>1
<1> QED
  BY <1>2, PTL DEF Spec, ConfiguredErrorSurfaces

-----------------------------------------------------------------------------
(***************************************************************************)
(* The entries of a child, as long as no two of them get the same name in  *)
(* the parent.                                                             *)
(***************************************************************************)
\* A comment is the id of its entry, or its name alone.
Named(es) ==
  \A i \in DOMAIN es :
    /\ i[1][2] \in Nat
    /\ es[i].comment = i \/ (Len(i) = 1 /\ es[i].comment = Id(i[1][1], Bare))

\* One of the entries is the request of the child, the others have comments of their own.
Distinct(es) ==
  /\ \A i \in DOMAIN es : IsRequest(es[i]) => i = ChildId
  /\ \A i, j \in DOMAIN es : es[i].comment = es[j].comment => i = j

ChildShape(es, r) ==
  /\ Record(es) /\ HasRequest(es) /\ Named(es)
  /\ \A k \in Nat : Used(es, RequestName, k) => k = 0
  /\ \A i \in DOMAIN es : es[i].by = r

\* A child begins with the one entry that makes it a child.
LEMMA NewChildShape ==
  ASSUME NEW n \in Nat
  PROVE  LET new == SetRequest(NoEntries, RequestName, n)
         IN  ChildShape(new, n) /\ Distinct(new) /\ Cardinality(DOMAIN new) = 1
<1> DEFINE new == SetRequest(NoEntries, RequestName, n)
<1>1. Record(NoEntries) /\ FirstAvailable(NoEntries, RequestName) = 0 /\ RequestName \in AllNames
  BY NoEntriesRecord DEF AllNames
<1>2. Record(new) /\ HasRequest(new)
  BY <1>1, SetRequestRecord, NewChildHasRequest
<1>3. new = Assign(NoEntries, [i \in {ChildId} |-> [comment |-> ChildId, resp |-> "none", by |-> n]])
  BY <1>1 DEF SetRequest, ChildId
<1>4. ChildId = <<<<RequestName, 0>>>> /\ ChildId[1][2] = 0
  BY DEF ChildId, Id
<1> HIDE DEF new
<1>5. DOMAIN new = {ChildId} /\ new[ChildId].by = n /\ new[ChildId].comment = ChildId
  BY <1>3 DEF Assign, NoEntries
<1>6. Named(new) /\ Distinct(new)
  BY <1>4, <1>5 DEF Named, Distinct
<1>7. \A k \in Nat : Used(new, RequestName, k) => k = 0
  BY <1>5 DEF Used, ChildId, Id
<1>8. Cardinality(DOMAIN new) = 1
  BY <1>5, FS_Singleton
<1> QED
  BY <1>2, <1>5, <1>6, <1>7, <1>8 DEF ChildShape, new

\* A first free number, and longer ids under it, leave the numbering without gaps.
LEMMA NumberAdded ==
  ASSUME NEW es, Record(es), NEW name \in AllNames, NEW X, NEW new,
         DOMAIN new = DOMAIN es \cup {Id(name, FirstAvailable(es, name))} \cup X,
         \A x \in X : Len(x) > 1 /\ <<x[1]>> = Id(name, FirstAvailable(es, name))
  PROVE  NoGaps(new) /\ Rooted(new)
<1> DEFINE mid == SetRequest(es, name, 0)
           id == Id(name, FirstAvailable(es, name))
<1>1. Record(mid) /\ DOMAIN mid = DOMAIN es \cup {id}
  BY SetRequestRecord, SetRequestAdds DEF Record
<1> HIDE DEF mid, id
<1>2. DOMAIN new = DOMAIN mid \cup X /\ id \in DOMAIN new /\ \A x \in X : Len(x) > 1 /\ <<x[1]>> = id
  BY <1>1 DEF id
<1>3. \A n, j : Used(new, n, j) <=> Used(mid, n, j)
  <2> SUFFICES ASSUME NEW n, NEW j PROVE Id(n, j) \notin X
    BY <1>2 DEF Used
  <2>1. Len(Id(n, j)) = 1
    BY DEF Id
  <2>2. ASSUME NEW x \in X, x = Id(n, j) PROVE FALSE
    <3>1. Len(x) = 1 /\ Len(x) > 1
      BY <1>2, <2>1, <2>2
    <3> QED
      BY <3>1
  <2> QED
    BY <2>2
<1>4. NoGaps(new)
  BY <1>1, <1>3 DEF Record, NoGaps
<1>5. Rooted(new)
  BY <1>1, <1>2 DEF Record, Rooted
<1> QED
  BY <1>4, <1>5

\* What the activities of a child add.
LEMMA Additions ==
  ASSUME NEW r, NEW es, ChildShape(es, r),
         NEW S, IsFiniteSet(S), S \subseteq Ids, S \cap DOMAIN es = {}, NEW g \in [S -> Entry],
         \A i \in S : /\ g[i].by = r
                      /\ i[1][2] \in Nat /\ i[1][1] # RequestName
                      /\ g[i].comment = i \/ (Len(i) = 1 /\ g[i].comment = Id(i[1][1], Bare)),
         NoGaps(Assign(es, g)), Rooted(Assign(es, g))
  PROVE  LET new == Assign(es, g)
         IN  /\ ChildShape(new, r)
             /\ \A i \in DOMAIN es : i \in DOMAIN new /\ new[i] = es[i]
             /\ Cardinality(DOMAIN new) = Cardinality(DOMAIN es) + Cardinality(S)
             /\ /\ Distinct(es) /\ \A i \in S : ~IsRequest(g[i])
                /\ \A i \in S : \A j \in DOMAIN es : g[i].comment # es[j].comment
                /\ \A i, j \in S : g[i].comment = g[j].comment => i = j
                => Distinct(new)
<1> DEFINE new == Assign(es, g)
<1>1. /\ DOMAIN new = DOMAIN es \cup S
      /\ \A i \in DOMAIN es : new[i] = es[i]
      /\ \A i \in S : new[i] = g[i]
  BY DEF Assign
<1>2. ChildId \notin S
  <2>1. ChildId[1][1] = RequestName
    BY DEF ChildId, Id
  <2> QED
    BY <2>1
<1>3. Typed(new) /\ HasRequest(new)
  BY <1>2, AssignKeepsRequest DEF ChildShape, Record
<1>4. Cardinality(DOMAIN es \cup S) = Cardinality(DOMAIN es) + Cardinality(S)
  <2>1. IsFiniteSet(DOMAIN es)
    BY DEF ChildShape, Record, Typed
  <2>2. /\ Cardinality(DOMAIN es \cup S)
             = Cardinality(DOMAIN es) + Cardinality(S) - Cardinality(DOMAIN es \cap S)
        /\ Cardinality(DOMAIN es) \in Nat /\ Cardinality(S) \in Nat
    BY <2>1, FS_Union, FS_CardinalityType
  <2>3. Cardinality(DOMAIN es \cap S) = 0
    <3>1. DOMAIN es \cap S = {}
      OBVIOUS
    <3> QED
      BY <3>1, FS_EmptySet
  <2> QED
    BY <2>2, <2>3
<1> HIDE DEF new
<1>5. Named(new)
  BY <1>1 DEF Named, ChildShape
<1>6. \A k \in Nat : Used(new, RequestName, k) => k = 0
  <2> SUFFICES ASSUME NEW k \in Nat, Id(RequestName, k) \in S PROVE FALSE
    BY <1>1 DEF Used, ChildShape
  <2>1. Id(RequestName, k)[1][1] = RequestName
    BY DEF Id
  <2> QED
    BY <2>1
<1>7. \A i \in DOMAIN new : new[i].by = r
  BY <1>1 DEF ChildShape
<1>8. ChildShape(new, r)
  BY <1>3, <1>5, <1>6, <1>7 DEF ChildShape, Record, new
<1>9. ASSUME Distinct(es), \A i \in S : ~IsRequest(g[i]),
             \A i \in S : \A j \in DOMAIN es : g[i].comment # es[j].comment,
             \A i, j \in S : g[i].comment = g[j].comment => i = j
      PROVE  Distinct(new)
  BY <1>1, <1>9 DEF Distinct
<1>10. Cardinality(DOMAIN new) = Cardinality(DOMAIN es) + Cardinality(S)
  BY <1>1, <1>4
<1> QED
  BY <1>1, <1>8, <1>9, <1>10 DEF new

\* A new id is the comment of no entry: the bare names have no number.
LEMMA FreshComment ==
  ASSUME NEW r, NEW es, ChildShape(es, r), NEW i, i \notin DOMAIN es, i[1][2] \in Nat
  PROVE  \A j \in DOMAIN es : es[j].comment # i
<1> SUFFICES ASSUME NEW j \in DOMAIN es, es[j].comment = i PROVE FALSE
  OBVIOUS
<1>1. PICK n : i = Id(n, Bare)
  BY DEF ChildShape, Named
<1>2. i[1][2] = -1
  BY <1>1 DEF Id, Bare
<1> QED
  BY <1>2

\* Ids of one part, and ids under them.
LEMMA SinglePart ==
  ASSUME NEW s \in Seq(Parts), Len(s) = 1
  PROVE  s = <<s[1]>> /\ s[1] \in Parts
OBVIOUS

LEMMA Joined ==
  ASSUME NEW a \in Seq(Parts), NEW b \in Seq(Parts), Len(a) = 1, Len(b) > 0
  PROVE  /\ a \o b \in Ids /\ Len(a \o b) = 1 + Len(b)
         /\ (a \o b)[1] = a[1] /\ Head(a \o b) = a[1]
<1> DEFINE s == a \o b
<1>1. Len(b) \in Nat
  OBVIOUS
<1>2. s \in Seq(Parts) /\ Len(s) = 1 + Len(b)
  BY ConcatProperties
<1>3. s[1] = a[1]
  BY <1>1, ConcatProperties
<1> HIDE DEF s
<1>4. s # <<>>
  BY <1>1, <1>2
<1>5. Head(s) = s[1]
  BY <1>2, <1>4
<1> QED
  BY <1>2, <1>3, <1>4, <1>5 DEF Ids, s

\* An activity of a child: one more entry, under a name of its own.
LEMMA ActivityRecorded ==
  ASSUME NEW r \in Nat, NEW es, ChildShape(es, r), NEW name \in Names
  PROVE  LET new == SetRequest(es, name, r)
         IN  /\ ChildShape(new, r)
             /\ Cardinality(DOMAIN new) = Cardinality(DOMAIN es) + 1
             /\ \A i \in DOMAIN es : i \in DOMAIN new /\ new[i] = es[i]
             /\ Distinct(es) /\ name \notin RequestLike => Distinct(new)
<1> DEFINE k == FirstAvailable(es, name)
           id == Id(name, k)
           S == {id}
           g == [i \in S |-> [comment |-> id, resp |-> "none", by |-> r]]
           new == SetRequest(es, name, r)
<1>1. name \in AllNames /\ name # RequestName /\ Record(es) /\ Typed(es)
  BY NamesAssumption DEF AllNames, ChildShape, Record
<1>2. k \in Nat /\ id \notin DOMAIN es
  BY <1>1, SetRequestAdds
<1>3. Record(new) /\ new = Assign(es, g)
  BY <1>1, SetRequestRecord DEF SetRequest
<1>4. id \in Ids /\ id[1][1] = name /\ id[1][2] = k /\ Head(id)[1] = name
  BY <1>1, <1>2 DEF Id, Ids, Parts, AllNames
<1>5. IsFiniteSet(S) /\ Cardinality(S) = 1
  BY FS_Singleton
<1> HIDE DEF id, k, new
<1>6. g \in [S -> Entry]
  BY <1>4 DEF Entry, Answers
<1>7. \A i \in S : g[i].comment = i /\ g[i].by = r /\ i = id
  OBVIOUS
<1>8. \A j \in DOMAIN es : es[j].comment # id
  BY <1>2, <1>4, FreshComment
<1>9. IsRequest(g[id]) => name \in RequestLike
  BY <1>1, <1>4, <1>7 DEF IsRequest
<1> HIDE DEF g
<1>10. S \subseteq Ids /\ S \cap DOMAIN es = {}
  BY <1>2, <1>4
<1>11. NoGaps(Assign(es, g)) /\ Rooted(Assign(es, g))
  BY <1>3 DEF Record
<1>12. \A i \in S : /\ g[i].by = r /\ i[1][2] \in Nat /\ i[1][1] # RequestName
                    /\ g[i].comment = i \/ (Len(i) = 1 /\ g[i].comment = Id(i[1][1], Bare))
  BY <1>1, <1>2, <1>4, <1>7
<1>13. /\ ChildShape(Assign(es, g), r)
       /\ \A i \in DOMAIN es : i \in DOMAIN Assign(es, g) /\ Assign(es, g)[i] = es[i]
       /\ Cardinality(DOMAIN Assign(es, g)) = Cardinality(DOMAIN es) + Cardinality(S)
       /\ /\ Distinct(es) /\ \A i \in S : ~IsRequest(g[i])
          /\ \A i \in S : \A j \in DOMAIN es : g[i].comment # es[j].comment
          /\ \A i, j \in S : g[i].comment = g[j].comment => i = j
          => Distinct(Assign(es, g))
  <2> HIDE DEF S
  <2> QED
    BY <1>5, <1>6, <1>10, <1>11, <1>12, Additions
<1>14. Distinct(es) /\ name \notin RequestLike => Distinct(new)
  BY <1>3, <1>7, <1>8, <1>9, <1>13
<1> QED
  BY <1>3, <1>5, <1>13, <1>14 DEF new

\* The same for the cache activity, whose comment has no number: the first time only.
LEMMA CachedRecorded ==
  ASSUME NEW r \in Nat, NEW es, ChildShape(es, r), NEW name \in Names
  PROVE  LET new == SetEntry(es, name, "json", r)
         IN  /\ ChildShape(new, r)
             /\ Cardinality(DOMAIN new) = Cardinality(DOMAIN es) + 1
             /\ \A i \in DOMAIN es : i \in DOMAIN new /\ new[i] = es[i]
             /\ Distinct(es) /\ name \notin RequestLike /\ ~Used(es, name, 0) => Distinct(new)
<1> DEFINE k == FirstAvailable(es, name)
           id == Id(name, k)
           bare == Id(name, Bare)
           S == {id}
           g == [i \in S |-> [comment |-> bare, resp |-> "json", by |-> r]]
           new == SetEntry(es, name, "json", r)
<1>1. name \in AllNames /\ name # RequestName /\ Record(es) /\ Typed(es) /\ Named(es) /\ NoGaps(es)
  BY NamesAssumption DEF AllNames, ChildShape, Record
<1>2. k \in Nat /\ id \notin DOMAIN es
  BY <1>1, SetRequestAdds
<1>3. new = Assign(es, g)
  BY DEF SetEntry
<1>4. id \in Ids /\ id[1][1] = name /\ id[1][2] = k /\ Len(id) = 1
  BY <1>1, <1>2 DEF Id, Ids, Parts, AllNames
<1>40. bare \in Ids /\ Head(bare)[1] = name /\ bare[1][2] = -1 /\ bare[1][1] = name
  BY <1>1 DEF Id, Ids, Parts, AllNames, Bare
<1>5. IsFiniteSet(S) /\ Cardinality(S) = 1
  BY FS_Singleton
<1>50. bare = Id(id[1][1], Bare)
  BY <1>4
<1>52. NoGaps(new) /\ Rooted(new)
  <2> DEFINE X == {}
  <2>1. DOMAIN new = DOMAIN es \cup {Id(name, FirstAvailable(es, name))} \cup X
    BY <1>3 DEF Assign
  <2>2. \A x \in X : Len(x) > 1 /\ <<x[1]>> = Id(name, FirstAvailable(es, name))
    OBVIOUS
  <2> HIDE DEF X, new, id, k, S, g, bare
  <2> QED
    BY <1>1, <2>1, <2>2, NumberAdded
<1>8. ~Used(es, name, 0) => \A j \in DOMAIN es : es[j].comment # bare
  <2> SUFFICES ASSUME NEW j \in DOMAIN es, es[j].comment = bare PROVE Used(es, name, 0)
    OBVIOUS
  <2>1. j[1][2] \in Nat /\ (es[j].comment = j \/ (Len(j) = 1 /\ es[j].comment = Id(j[1][1], Bare)))
    BY <1>1 DEF Named
  <2>2. j # bare
    BY <2>1, <1>40
  <2>3. Len(j) = 1 /\ bare = Id(j[1][1], Bare)
    BY <2>1, <2>2
  <2>4. Id(j[1][1], Bare)[1][1] = j[1][1]
    BY DEF Id
  <2>5. j[1][1] = name
    BY <2>3, <2>4, <1>40
  <2>6. j \in Seq(Parts)
    BY <1>1 DEF Typed, IsEntries, Ids
  <2>7. j = <<j[1]>> /\ j[1] \in Parts
    BY <2>3, <2>6, SinglePart
  <2>8. j[1] = <<name, j[1][2]>>
    BY <2>5, <2>7 DEF Parts
  <2>9. j = Id(name, j[1][2])
    BY <2>7, <2>8 DEF Id
  <2>10. PICK n \in Nat : n = j[1][2]
    BY <2>1
  <2>11. Used(es, name, n)
    BY <2>9, <2>10 DEF Used
  <2>12. 0 \in 0..n
    OBVIOUS
  <2> QED
    BY <1>1, <2>11, <2>12 DEF NoGaps
<1> HIDE DEF id, k, new, bare
<1>6. g \in [S -> Entry]
  BY <1>40 DEF Entry, Answers
<1>7. \A i \in S : g[i].comment = bare /\ g[i].by = r /\ i = id
  OBVIOUS
<1>9. IsRequest(g[id]) => name \in RequestLike
  BY <1>1, <1>40, <1>7 DEF IsRequest
<1> HIDE DEF g
<1>10. S \subseteq Ids /\ S \cap DOMAIN es = {}
  BY <1>2, <1>4
<1>12. \A i \in S : /\ g[i].by = r /\ i[1][2] \in Nat /\ i[1][1] # RequestName
                    /\ g[i].comment = i \/ (Len(i) = 1 /\ g[i].comment = Id(i[1][1], Bare))
  BY <1>1, <1>2, <1>4, <1>7, <1>50
<1>13. /\ ChildShape(Assign(es, g), r)
       /\ \A i \in DOMAIN es : i \in DOMAIN Assign(es, g) /\ Assign(es, g)[i] = es[i]
       /\ Cardinality(DOMAIN Assign(es, g)) = Cardinality(DOMAIN es) + Cardinality(S)
       /\ /\ Distinct(es) /\ \A i \in S : ~IsRequest(g[i])
          /\ \A i \in S : \A j \in DOMAIN es : g[i].comment # es[j].comment
          /\ \A i, j \in S : g[i].comment = g[j].comment => i = j
          => Distinct(Assign(es, g))
  <2> HIDE DEF S
  <2> QED
    BY <1>3, <1>5, <1>6, <1>10, <1>52, <1>12, Additions
<1>14. Distinct(es) /\ name \notin RequestLike /\ ~Used(es, name, 0) => Distinct(new)
  BY <1>3, <1>7, <1>8, <1>9, <1>13
<1> QED
  BY <1>3, <1>5, <1>13, <1>14 DEF new

\* A nested orchestration of a child leaves two entries, its own and one under it.
LEMMA NestedRecorded ==
  ASSUME NEW r \in Nat, NEW es, ChildShape(es, r), NEW outer \in Names, NEW name \in Names
  PROVE  LET base == Id(outer, FirstAvailable(es, outer))
             new == Assign(es, [i \in {base, base \o Id(name, 0)} |->
                                  [comment |-> i, resp |-> "json", by |-> r]])
         IN  /\ ChildShape(new, r)
             /\ Cardinality(DOMAIN new) = Cardinality(DOMAIN es) + 2
             /\ \A i \in DOMAIN es : i \in DOMAIN new /\ new[i] = es[i]
             /\ Distinct(es) /\ outer \notin RequestLike => Distinct(new)
<1> DEFINE k == FirstAvailable(es, outer)
           base == Id(outer, k)
           sub == base \o Id(name, 0)
           S == {base, sub}
           g == [i \in S |-> [comment |-> i, resp |-> "json", by |-> r]]
           new == Assign(es, g)
<1>1. outer \in AllNames /\ outer # RequestName /\ Record(es) /\ Typed(es)
  BY NamesAssumption DEF AllNames, ChildShape, Record
<1>2. k \in Nat /\ base \notin DOMAIN es
  BY <1>1, SetRequestAdds
<1>3. base = <<<<outer, k>>>> /\ Id(name, 0) = <<<<name, 0>>>>
  BY DEF Id
<1>4. /\ base \in Ids /\ base[1][1] = outer /\ base[1][2] = k /\ Head(base)[1] = outer /\ Len(base) = 1
  BY <1>1, <1>2, <1>3 DEF Ids, Parts, AllNames
<1>5. /\ sub \in Ids /\ sub[1][1] = outer /\ sub[1][2] = k /\ Head(sub)[1] = outer /\ Len(sub) = 2
      /\ <<sub[1]>> = base
  <2>1. base \in Seq(Parts) /\ Id(name, 0) \in Seq(Parts) /\ Len(base) = 1 /\ Len(Id(name, 0)) = 1
    BY <1>1, <1>2, <1>3 DEF Parts, AllNames
  <2>2. sub \in Ids /\ Len(sub) = 2 /\ sub[1] = base[1] /\ Head(sub) = base[1]
    <3> HIDE DEF base, g, new, k
    <3>1. Len(Id(name, 0)) > 0
      BY DEF Id
    <3>2. sub \in Ids /\ Len(sub) = 1 + Len(Id(name, 0)) /\ sub[1] = base[1] /\ Head(sub) = base[1]
      BY <2>1, <3>1, Joined
    <3> QED
      BY <2>1, <3>2
  <2>3. base[1] = <<outer, k>> /\ <<base[1]>> = base
    BY <1>3
  <2> HIDE DEF sub, base, k
  <2> QED
    BY <2>2, <2>3
<1> HIDE DEF sub
<1>51. DOMAIN new = DOMAIN es \cup {Id(outer, FirstAvailable(es, outer))} \cup {sub}
  BY DEF Assign
<1>52. NoGaps(new) /\ Rooted(new)
  <2> HIDE DEF new
  <2>1. Len(sub) > 1 /\ <<sub[1]>> = Id(outer, FirstAvailable(es, outer))
    BY <1>5
  <2>2. \A x \in {sub} : Len(x) > 1 /\ <<x[1]>> = Id(outer, FirstAvailable(es, outer))
    <3> HIDE DEF base, k
    <3> QED
      BY <2>1
  <2> QED
    <3> DEFINE X == {sub}
    <3>1. /\ DOMAIN new = DOMAIN es \cup {Id(outer, FirstAvailable(es, outer))} \cup X
          /\ \A x \in X : Len(x) > 1 /\ <<x[1]>> = Id(outer, FirstAvailable(es, outer))
      BY <1>51, <2>2
    <3> HIDE DEF X
    <3> QED
      BY <1>1, <3>1, NumberAdded
<1> HIDE DEF base, k
<1>6. sub \notin DOMAIN es /\ sub # base
  BY <1>1, <1>2, <1>4, <1>5 DEF Record, Rooted
<1>7. IsFiniteSet(S) /\ Cardinality(S) = 2
  <2>1. IsFiniteSet({base}) /\ Cardinality({base}) = 1
    BY FS_Singleton
  <2>2. IsFiniteSet({base} \cup {sub}) /\ Cardinality({base} \cup {sub}) = 2
    BY <1>6, <2>1, FS_AddElement
  <2>3. S = {base} \cup {sub}
    OBVIOUS
  <2> QED
    BY <2>2, <2>3
<1>8. g \in [S -> Entry]
  BY <1>4, <1>5 DEF Entry, Answers
<1>9. \A i \in S : g[i].comment = i /\ g[i].by = r /\ (i = base \/ i = sub)
  OBVIOUS
<1>10. \A i \in S : \A j \in DOMAIN es : es[j].comment # i
  BY <1>2, <1>4, <1>5, <1>6, FreshComment
<1>11. \A i \in S : IsRequest(g[i]) => outer \in RequestLike
  BY <1>1, <1>4, <1>5, <1>9 DEF IsRequest
<1> HIDE DEF g
<1>12. S \subseteq Ids /\ S \cap DOMAIN es = {}
  BY <1>2, <1>4, <1>5, <1>6
<1>13. \A i \in S : /\ g[i].by = r /\ i[1][2] \in Nat /\ i[1][1] # RequestName
                    /\ g[i].comment = i \/ (Len(i) = 1 /\ g[i].comment = Id(i[1][1], Bare))
  BY <1>1, <1>2, <1>4, <1>5, <1>9
<1>14. /\ ChildShape(Assign(es, g), r)
       /\ \A i \in DOMAIN es : i \in DOMAIN Assign(es, g) /\ Assign(es, g)[i] = es[i]
       /\ Cardinality(DOMAIN Assign(es, g)) = Cardinality(DOMAIN es) + Cardinality(S)
       /\ /\ Distinct(es) /\ \A i \in S : ~IsRequest(g[i])
          /\ \A i \in S : \A j \in DOMAIN es : g[i].comment # es[j].comment
          /\ \A i, j \in S : g[i].comment = g[j].comment => i = j
          => Distinct(Assign(es, g))
  <2> HIDE DEF S
  <2> QED
    BY <1>7, <1>8, <1>12, <1>52, <1>13, Additions
<1>15. Distinct(es) /\ outer \notin RequestLike => Distinct(new)
  BY <1>9, <1>10, <1>11, <1>14
<1> HIDE DEF S
<1>16. /\ ChildShape(new, r)
       /\ Cardinality(DOMAIN new) = Cardinality(DOMAIN es) + 2
       /\ \A i \in DOMAIN es : i \in DOMAIN new /\ new[i] = es[i]
  BY <1>7, <1>14
<1> QED
  BY <1>15, <1>16 DEF new, g, S, base, sub, k

\* A response leaves the ids and the comments of a child alone.
LEMMA ResponseShape ==
  ASSUME NEW r, NEW es, ChildShape(es, r), NEW name, NEW resp \in Answers
  PROVE  LET new == SetResponse(es, name, resp)
         IN  /\ ChildShape(new, r) /\ (Distinct(es) => Distinct(new))
             /\ DOMAIN new = DOMAIN es
             /\ \A i \in DOMAIN es : i # Id(name, LastUsed(es, name)) => new[i] = es[i]
<1> DEFINE new == SetResponse(es, name, resp)
<1>1. Typed(es) /\ Record(es) /\ HasRequest(es) /\ Named(es)
  BY DEF ChildShape, Record
<1>2. /\ DOMAIN new = DOMAIN es
      /\ \A i \in DOMAIN es : /\ new[i].comment = es[i].comment
                              /\ new[i].by = es[i].by
                              /\ i # Id(name, LastUsed(es, name)) => new[i] = es[i]
  BY <1>1, SetResponseChanges
<1>3. Record(new) /\ HasRequest(new)
  BY <1>1, SetResponseRecord, ResponseKeepsRequest
<1> HIDE DEF new
<1>4. Named(new)
  BY <1>1, <1>2 DEF Named
<1>5. ChildShape(new, r)
  BY <1>2, <1>3, <1>4 DEF ChildShape, Used
<1>6. Distinct(es) => Distinct(new)
  BY <1>2 DEF Distinct, IsRequest
<1> QED
  BY <1>2, <1>5, <1>6 DEF new

\* The response of a child is the one of its request.
LEMMA ChildAnswered ==
  ASSUME NEW r, NEW es, ChildShape(es, r), NEW resp \in Answers
  PROVE  SetResponse(es, RequestName, resp)[ChildId].resp = resp
<1> DEFINE k == FirstAvailable(es, RequestName)
<1>1. Typed(es) /\ ChildId \in DOMAIN es /\ \A n \in Nat : Used(es, RequestName, n) => n = 0
  BY DEF ChildShape, Record, HasRequest
<1>2. k \in Nat /\ ~Used(es, RequestName, k) /\ \A j \in 0..(k - 1) : Used(es, RequestName, j)
  BY <1>1, FirstAvailableIsFree DEF Typed
<1>3. Used(es, RequestName, 0)
  BY <1>1 DEF Used, ChildId
<1> HIDE DEF k
<1>4. k # 0
  BY <1>2, <1>3
<1>5. ~(k > 1)
  <2> SUFFICES ASSUME k > 1 PROVE FALSE
    OBVIOUS
  <2>1. 1 \in 0..(k - 1)
    BY <1>2
  <2> QED
    BY <1>1, <1>2, <2>1
<1>6. LastUsed(es, RequestName) = 0
  <2>1. k - 1 = 0
    BY <1>2, <1>4, <1>5
  <2> QED
    BY <2>1 DEF LastUsed, k
<1>7. SetResponse(es, RequestName, resp) = [es EXCEPT ![ChildId].resp = resp]
  BY <1>1, <1>6 DEF SetResponse, ChildId
<1>8. es \in [DOMAIN es -> Entry]
  BY <1>1 DEF Typed, IsEntries
<1>9. es[ChildId] \in Entry
  BY <1>1, <1>8
<1> QED
  BY <1>1, <1>7, <1>8, <1>9 DEF Entry

\* Without two comments alike, every entry of a child gets a name of its own in the parent.
LEMMA TargetsDiffer ==
  ASSUME NEW ch, Typed(ch), Distinct(ch), NEW base \in Seq(Parts), Len(base) = 1,
         NEW i \in DOMAIN ch, NEW j \in DOMAIN ch, Target(ch[i], base) = Target(ch[j], base)
  PROVE  i = j
<1> DEFINE a == ch[i].comment
           b == ch[j].comment
<1>1. ch[i] \in Entry /\ ch[j] \in Entry
  BY DEF Typed, IsEntries
<1>2. a \in Seq(Parts) /\ b \in Seq(Parts) /\ a # <<>> /\ b # <<>>
  BY <1>1 DEF Entry, Ids
<1> HIDE DEF a, b
<1>3. Len(a) \in Nat \ {0} /\ Len(b) \in Nat \ {0}
  BY <1>2, EmptySeq
<1>4. Len(base \o a) = 1 + Len(a) /\ Len(base \o b) = 1 + Len(b)
  <2>1. Len(a) > 0 /\ Len(b) > 0
    BY <1>3
  <2> QED
    BY <1>2, <2>1, Joined
<1>5. CASE IsRequest(ch[i]) /\ IsRequest(ch[j])
  BY <1>5 DEF Distinct
<1>6. CASE IsRequest(ch[i]) /\ ~IsRequest(ch[j])
  <2>1. base = base \o b
    BY <1>6 DEF Target, b
  <2> QED
    BY <1>3, <1>4, <2>1
<1>7. CASE ~IsRequest(ch[i]) /\ IsRequest(ch[j])
  <2>1. base = base \o a
    BY <1>7 DEF Target, a
  <2> QED
    BY <1>3, <1>4, <2>1
<1>8. CASE ~IsRequest(ch[i]) /\ ~IsRequest(ch[j])
  <2>1. base \o a = base \o b
    BY <1>8 DEF Target, a, b
  <2>2. a = b
    BY <1>2, <2>1, ConcatSimplifications
  <2> QED
    BY <2>2 DEF Distinct, a, b
<1> QED
  BY <1>5, <1>6, <1>7, <1>8

(***************************************************************************)
(* What a run adds to its parent: the entry of the run, with the response  *)
(* of the child, and longer ids under it, one for each of its entries.     *)
(***************************************************************************)
LEMMA MergedNew ==
  ASSUME NEW es, Record(es), NEW name \in AllNames, NEW r, NEW ch, ChildShape(ch, r),
         NEW new \in Merged(es, ch, Id(name, FirstAvailable(es, name)))
  PROVE  LET base == Id(name, FirstAvailable(es, name))
         IN  /\ base \notin DOMAIN es /\ base \in DOMAIN new
             /\ \A i \in DOMAIN new \ DOMAIN es : new[i].by = r /\ (i = base \/ Len(i) > 1)
             /\ Distinct(ch) => /\ new[base].resp = ch[ChildId].resp
                                /\ Cardinality(DOMAIN new) = Cardinality(DOMAIN es) + Cardinality(DOMAIN ch)
<1> DEFINE k == FirstAvailable(es, name)
           base == Id(name, k)
           T == {Target(ch[i], base) : i \in DOMAIN ch}
<1>0. Typed(es) /\ Typed(ch) /\ HasRequest(ch)
  BY DEF Record, ChildShape
<1>1. k \in Nat /\ base \notin DOMAIN es
  BY <1>0, FirstAvailableIsFree DEF Typed, Used
<1>2. PICK last \in [T -> DOMAIN ch] :
        /\ \A t \in DOMAIN last : Target(ch[last[t]], base) = t
        /\ new = Assign(es, [t \in T |-> [ch[last[t]] EXCEPT !.comment = t]])
  BY DEF Merged
<1>3. \A i \in DOMAIN ch : ch[i] \in Entry
  BY <1>0 DEF Typed, IsEntries
<1>4. \A t \in T : t[1] = base[1] /\ (t = base \/ Len(t) > 1)
  BY <1>1, <1>3, TargetIsUnder
<1>5. base \in T /\ ChildId \in DOMAIN ch /\ IsRequest(ch[ChildId])
  BY <1>0 DEF Target, HasRequest
<1>6. base = <<<<name, k>>>> /\ <<base[1]>> = base /\ Len(base) = 1
  BY DEF Id
<1>60. base \in Seq(Parts)
  BY <1>1, <1>6 DEF Parts, AllNames
<1>7. T \cap DOMAIN es = {}
  BY <1>1, <1>4, <1>6 DEF Record, Rooted
<1>8. Distinct(ch) => \A i, j \in DOMAIN ch : Target(ch[i], base) = Target(ch[j], base) => i = j
  <2> HIDE DEF base, T
  <2> QED
    BY <1>0, <1>6, <1>60, TargetsDiffer
<1>9. Distinct(ch) => Cardinality(T) = Cardinality(DOMAIN ch)
  <2> SUFFICES ASSUME Distinct(ch) PROVE Cardinality(T) = Cardinality(DOMAIN ch)
    OBVIOUS
  <2> DEFINE f == [i \in DOMAIN ch |-> Target(ch[i], base)]
  <2> HIDE DEF base
  <2>1. f \in Surjection(DOMAIN ch, T)
    BY DEF Surjection
  <2>2. f \in Injection(DOMAIN ch, T)
    BY <1>8, <2>1 DEF Injection, IsInjective, Surjection
  <2>3. f \in Bijection(DOMAIN ch, T)
    BY <2>1, <2>2 DEF Bijection
  <2>4. IsFiniteSet(DOMAIN ch)
    BY <1>0 DEF Typed
  <2> HIDE DEF f, T
  <2> QED
    BY <2>3, <2>4, FS_Bijection DEF ExistsBijection
<1>10. IsFiniteSet(T)
  <2> DEFINE f == [i \in DOMAIN ch |-> Target(ch[i], base)]
  <2>1. f \in Surjection(DOMAIN ch, T)
    BY DEF Surjection
  <2> QED
    BY <1>0, <2>1, FS_Surjection DEF Typed
<1>11. Distinct(ch) => last[base] = ChildId
  <2> SUFFICES ASSUME Distinct(ch) PROVE last[base] = ChildId
    OBVIOUS
  <2>1. last[base] \in DOMAIN ch /\ Target(ch[last[base]], base) = base /\ Target(ch[ChildId], base) = base
    BY <1>2, <1>5 DEF Target
  <2> HIDE DEF base, T
  <2> QED
    BY <1>5, <1>8, <2>1
<1> HIDE DEF T, base, k
<1>12. /\ DOMAIN new = DOMAIN es \cup T
       /\ \A t \in T : new[t] = [ch[last[t]] EXCEPT !.comment = t]
  BY <1>2 DEF Assign
<1>13. \A t \in T : new[t].by = ch[last[t]].by /\ new[t].resp = ch[last[t]].resp
  <2> SUFFICES ASSUME NEW t \in T PROVE new[t].by = ch[last[t]].by /\ new[t].resp = ch[last[t]].resp
    OBVIOUS
  <2>1. ch[last[t]] \in Entry
    BY <1>2, <1>3
  <2> QED
    BY <1>12, <2>1 DEF Entry
<1>14. \A t \in T : new[t].by = r
  BY <1>2, <1>13 DEF ChildShape
<1>15. Cardinality(DOMAIN es \cup T) = Cardinality(DOMAIN es) + Cardinality(T)
  <2>1. IsFiniteSet(DOMAIN es)
    BY <1>0 DEF Typed
  <2>2. /\ Cardinality(DOMAIN es \cup T)
             = Cardinality(DOMAIN es) + Cardinality(T) - Cardinality(DOMAIN es \cap T)
        /\ Cardinality(DOMAIN es) \in Nat /\ Cardinality(T) \in Nat
    BY <1>10, <2>1, FS_Union, FS_CardinalityType
  <2>3. Cardinality(DOMAIN es \cap T) = 0
    <3>1. DOMAIN es \cap T = {}
      BY <1>7
    <3> QED
      BY <3>1, FS_EmptySet
  <2> QED
    BY <2>2, <2>3
<1>16. \A i \in DOMAIN new \ DOMAIN es : new[i].by = r /\ (i = base \/ Len(i) > 1)
  BY <1>4, <1>12, <1>14
<1>17. Distinct(ch) => new[base].resp = ch[ChildId].resp
  BY <1>5, <1>11, <1>13
<1>18. Distinct(ch) => Cardinality(DOMAIN new) = Cardinality(DOMAIN es) + Cardinality(DOMAIN ch)
  BY <1>9, <1>12, <1>15
<1>19. base \in DOMAIN new
  BY <1>5, <1>12
<1> QED
  BY <1>1, <1>16, <1>17, <1>18, <1>19 DEF base, k

\* The answer to a child is in JSON, or it is not, and no other entry counts.
LEMMA JsonAnswers ==
  ASSUME NEW r, NEW ch, ChildShape(ch, r), Distinct(ch)
  PROVE  Cardinality(JsonRequests(ch)) = IF ch[ChildId].resp = "json" THEN 1 ELSE 0
<1>1. JsonRequests(ch) = IF ch[ChildId].resp = "json" THEN {ChildId} ELSE {}
  BY DEF JsonRequests, Distinct, ChildShape, HasRequest
<1>2. Cardinality({ChildId}) = 1 /\ Cardinality({}) = 0
  BY FS_Singleton, FS_EmptySet
<1> QED
  BY <1>1, <1>2

\* SetHarEntryRequest adds one to the entries, made by whom it says.
LEMMA RequestCounted ==
  ASSUME NEW es, Typed(es), NEW name \in AllNames, NEW by \in Nat
  PROVE  LET new == SetRequest(es, name, by)
         IN  /\ new[Id(name, FirstAvailable(es, name))].by = by
             /\ Cardinality(DOMAIN new) = Cardinality(DOMAIN es) + 1
<1> DEFINE id == Id(name, FirstAvailable(es, name))
           new == SetRequest(es, name, by)
<1>1. DOMAIN new = DOMAIN es \cup {id} /\ id \notin DOMAIN es
  BY SetRequestAdds
<1>2. new = Assign(es, [i \in {id} |-> [comment |-> id, resp |-> "none", by |-> by]])
  BY DEF SetRequest
<1> HIDE DEF id, new
<1>3. new[id].by = by
  BY <1>2 DEF Assign
<1>4. Cardinality(DOMAIN new) = Cardinality(DOMAIN es) + 1
  BY <1>1, FS_AddElement DEF Typed
<1> QED
  BY <1>3, <1>4 DEF id, new

\* The response goes to the entry used last.
LEMMA Responded ==
  ASSUME NEW es, Typed(es), NEW name, NEW resp \in Answers, Id(name, LastUsed(es, name)) \in DOMAIN es
  PROVE  SetResponse(es, name, resp)[Id(name, LastUsed(es, name))].resp = resp
<1> DEFINE id == Id(name, LastUsed(es, name))
<1>1. SetResponse(es, name, resp) = [es EXCEPT ![id].resp = resp]
  BY DEF SetResponse
<1>2. es \in [DOMAIN es -> Entry]
  BY DEF Typed, IsEntries
<1> HIDE DEF id
<1>3. id \in DOMAIN es
  BY DEF id
<1>4. es[id] \in Entry
  BY <1>2, <1>3
<1> QED
  BY <1>1, <1>2, <1>3, <1>4 DEF Entry, id

\* A request and its response: the one new entry has this response.
LEMMA Exchanged ==
  ASSUME NEW es, Record(es), NEW name \in AllNames, NEW by \in Nat, NEW resp \in Answers,
         NEW new, new = SetResponse(SetRequest(es, name, by), name, resp),
         NEW id, id = Id(name, FirstAvailable(es, name))
  PROVE  /\ id \notin DOMAIN es /\ DOMAIN new = DOMAIN es \cup {id}
         /\ \A i \in DOMAIN es : new[i] = es[i]
         /\ new[id].resp = resp /\ new[id].by = by
         /\ Cardinality(DOMAIN new) = Cardinality(DOMAIN es) + 1
<1> DEFINE mid == SetRequest(es, name, by)
<1>1. Typed(es)
  BY DEF Record
<1>2. Record(mid) /\ LastUsed(mid, name) = FirstAvailable(es, name)
  BY SetRequestRecord
<1>3. /\ id \notin DOMAIN es /\ DOMAIN mid = DOMAIN es \cup {id}
      /\ \A i \in DOMAIN es : mid[i] = es[i]
  BY <1>1, SetRequestAdds
<1>4. mid[id].by = by /\ Cardinality(DOMAIN mid) = Cardinality(DOMAIN es) + 1
  BY <1>1, RequestCounted
<1> HIDE DEF mid
<1>5. Id(name, LastUsed(mid, name)) = id
  BY <1>2
<1>50. new = SetResponse(mid, name, resp)
  BY DEF mid
<1>6. /\ DOMAIN new = DOMAIN mid
      /\ \A i \in DOMAIN mid : new[i].by = mid[i].by /\ (i # id => new[i] = mid[i])
  <2>1. Typed(mid)
    BY <1>2 DEF Record
  <2> QED
    BY <1>5, <1>50, <2>1, SetResponseChanges
<1>7. new[id].resp = resp
  BY <1>2, <1>3, <1>5, <1>50, Responded DEF Record
<1> QED
  BY <1>3, <1>4, <1>6, <1>7

-----------------------------------------------------------------------------
\* Between two runs there are no entries of a child.  During one they are its own, each
\* with a name of its own in the parent, and it has its answer before its boundary.
ChildInv ==
  /\ pc \notin Running => child = NoEntries
  /\ pc \in Running => ChildShape(child, run)
  /\ pc \in Running /\ ~ambiguous => Distinct(child)
  /\ pc \in {"boundary", "merge"} => child[ChildId].resp # "none"

\* NewChild: the only entry is the request of the child.
LEMMA StartsChild ==
  ASSUME Counters, ChildInv, pc \notin Running, NewChild, UNCHANGED ambiguous
  PROVE  ChildInv' /\ Cardinality(DOMAIN child) = 0 /\ Cardinality(DOMAIN child') = 1
<1>1. child' = SetRequest(NoEntries, RequestName, run + 1) /\ run' = run + 1 /\ run + 1 \in Nat /\ pc' = "body"
  BY DEF NewChild, Counters
<1>2. ChildShape(child', run') /\ Distinct(child') /\ Cardinality(DOMAIN child') = 1
  BY <1>1, NewChildShape
<1>3. Cardinality(DOMAIN child) = 0
  <2>1. DOMAIN child = {}
    BY DEF ChildInv, NoEntries
  <2> QED
    BY <2>1, FS_EmptySet
<1>4. ChildInv'
  BY <1>1, <1>2 DEF ChildInv, Running
<1> QED
  BY <1>2, <1>3, <1>4

\* The entries of a child are counted one by one, and stay what ChildInv says.
LEMMA ChildGrows ==
  ASSUME Counters, created \in Nat, ChildInv, ChildStep
  PROVE  /\ ChildInv' /\ (~ambiguous' => ~ambiguous)
         /\ \E n \in 0..2 : /\ created' = created + n
                            /\ Cardinality(DOMAIN child') = Cardinality(DOMAIN child) + n
<1> DEFINE Grows(n) == /\ created' = created + n
                       /\ Cardinality(DOMAIN child') = Cardinality(DOMAIN child) + n
<1>1. run \in Nat
  BY DEF Counters
<1>2. ASSUME NEW name \in PlainNames, NEW resp \in Answers, ChildActivity(name, resp)
      PROVE  ChildInv' /\ (~ambiguous' => ~ambiguous) /\ Grows(1)
  <2> DEFINE mid == SetRequest(child, name, run)
  <2>1. name \in Names /\ name # RequestName
    BY ActivitiesAssumption, NamesAssumption
  <2>2. pc \in {"body", "boundary"} /\ UNCHANGED <<pc, run>> /\ created' = created + 1
    BY <1>2 DEF ChildActivity, ChildRuns
  <2>3. child' = SetResponse(mid, name, resp)
    BY <1>2 DEF ChildActivity
  <2>4. ~ambiguous' => ~ambiguous /\ name \notin RequestLike
    BY <1>2, Zenon DEF ChildActivity
  <2>5. ChildShape(child, run) /\ (~ambiguous => Distinct(child)) /\ (pc = "boundary" => child[ChildId].resp # "none")
    BY <2>2 DEF ChildInv, Running
  <2>6. /\ ChildShape(mid, run)
        /\ Cardinality(DOMAIN mid) = Cardinality(DOMAIN child) + 1
        /\ \A i \in DOMAIN child : i \in DOMAIN mid /\ mid[i] = child[i]
        /\ Distinct(child) /\ name \notin RequestLike => Distinct(mid)
    BY <1>1, <2>1, <2>5, ActivityRecorded
  <2> HIDE DEF mid
  <2>7. /\ ChildShape(child', run) /\ (Distinct(mid) => Distinct(child'))
        /\ DOMAIN child' = DOMAIN mid
        /\ \A i \in DOMAIN mid : i # Id(name, LastUsed(mid, name)) => child'[i] = mid[i]
    BY <2>3, <2>6, ResponseShape
  <2>8. ChildId # Id(name, LastUsed(mid, name)) /\ ChildId \in DOMAIN child
    BY <2>1, <2>5 DEF ChildId, Id, ChildShape, HasRequest
  <2>9. child'[ChildId] = child[ChildId]
    BY <2>6, <2>7, <2>8
  <2>10. ~ambiguous' => Distinct(child')
    BY <2>4, <2>5, <2>6, <2>7, Zenon
  <2> QED
    BY <2>2, <2>4, <2>5, <2>6, <2>7, <2>9, <2>10 DEF ChildInv, Running
<1>3. ASSUME NEW name \in PlainNames, ChildCached(name, "json")
      PROVE  ChildInv' /\ (~ambiguous' => ~ambiguous) /\ Grows(1)
  <2>1. name \in Names
    BY ActivitiesAssumption
  <2>2. pc \in {"body", "boundary"} /\ UNCHANGED <<pc, run>> /\ created' = created + 1
    BY <1>3 DEF ChildCached, ChildRuns
  <2>3. child' = SetEntry(child, name, "json", run)
    BY <1>3 DEF ChildCached
  <2>4. ~ambiguous' => ~ambiguous /\ name \notin RequestLike /\ ~Used(child, name, 0)
    BY <1>3, Zenon DEF ChildCached
  <2>5. ChildShape(child, run) /\ (~ambiguous => Distinct(child)) /\ (pc = "boundary" => child[ChildId].resp # "none")
    BY <2>2 DEF ChildInv, Running
  <2>6. /\ ChildShape(child', run)
        /\ Cardinality(DOMAIN child') = Cardinality(DOMAIN child) + 1
        /\ \A i \in DOMAIN child : i \in DOMAIN child' /\ child'[i] = child[i]
        /\ Distinct(child) /\ name \notin RequestLike /\ ~Used(child, name, 0) => Distinct(child')
    BY <1>1, <2>1, <2>3, <2>5, CachedRecorded
  <2>7. child'[ChildId] = child[ChildId]
    BY <2>5, <2>6 DEF ChildShape, HasRequest
  <2>8. ~ambiguous' => Distinct(child')
    BY <2>4, <2>5, <2>6, Zenon
  <2> QED
    BY <2>2, <2>4, <2>5, <2>6, <2>7, <2>8 DEF ChildInv, Running
<1>4. ASSUME NEW name \in PlainNames, ChildNested(name)
      PROVE  ChildInv' /\ (~ambiguous' => ~ambiguous) /\ Grows(2)
  <2>1. name \in Names /\ NestedName \in Names
    BY ActivitiesAssumption
  <2>2. pc \in {"body", "boundary"} /\ UNCHANGED <<pc, run>> /\ created' = created + 2
    BY <1>4 DEF ChildNested, ChildRuns
  <2> DEFINE base == Id(NestedName, FirstAvailable(child, NestedName))
             new == Assign(child, [i \in {base, base \o Id(name, 0)} |->
                                     [comment |-> i, resp |-> "json", by |-> run]])
  <2>3. child' = new
    BY <1>4 DEF ChildNested
  <2>4. ~ambiguous' => ~ambiguous /\ NestedName \notin RequestLike
    BY <1>4, Zenon DEF ChildNested
  <2>5. ChildShape(child, run) /\ (~ambiguous => Distinct(child)) /\ (pc = "boundary" => child[ChildId].resp # "none")
    BY <2>2 DEF ChildInv, Running
  <2>60. /\ ChildShape(new, run)
         /\ Cardinality(DOMAIN new) = Cardinality(DOMAIN child) + 2
         /\ \A i \in DOMAIN child : i \in DOMAIN new /\ new[i] = child[i]
         /\ Distinct(child) /\ NestedName \notin RequestLike => Distinct(new)
    BY <1>1, <2>1, <2>5, NestedRecorded
  <2> HIDE DEF new
  <2>6. /\ ChildShape(child', run)
        /\ Cardinality(DOMAIN child') = Cardinality(DOMAIN child) + 2
        /\ \A i \in DOMAIN child : i \in DOMAIN child' /\ child'[i] = child[i]
        /\ Distinct(child) /\ NestedName \notin RequestLike => Distinct(child')
    BY <2>3, <2>60
  <2>7. child'[ChildId] = child[ChildId]
    BY <2>5, <2>6 DEF ChildShape, HasRequest
  <2>8. ~ambiguous' => Distinct(child')
    BY <2>4, <2>5, <2>6, Zenon
  <2> QED
    BY <2>2, <2>4, <2>5, <2>6, <2>7, <2>8 DEF ChildInv, Running
<1>5. ASSUME NEW resp \in Answers \ {"none"}, pc = "body", child' = SetResponse(child, RequestName, resp),
             pc' = "boundary", UNCHANGED <<run, created, ambiguous>>
      PROVE  ChildInv' /\ (~ambiguous' => ~ambiguous) /\ Grows(0)
  <2>1. ChildShape(child, run) /\ (~ambiguous => Distinct(child))
    BY <1>5 DEF ChildInv, Running
  <2>2. /\ ChildShape(child', run) /\ (Distinct(child) => Distinct(child'))
        /\ DOMAIN child' = DOMAIN child
    BY <1>5, <2>1, ResponseShape
  <2>3. child'[ChildId].resp = resp
    BY <1>5, <2>1, ChildAnswered
  <2>4. Cardinality(DOMAIN child) \in Nat /\ created = created'
    BY <1>5, <2>1, FS_CardinalityType DEF ChildShape, Record, Typed
  <2>5. Grows(0)
    <3>1. DOMAIN child' = DOMAIN child
      BY <2>2
    <3>2. Cardinality(DOMAIN child') = Cardinality(DOMAIN child)
      BY <3>1
    <3>3. created' = created + 0
      <4>1. created' = created /\ created \in Nat
        BY <1>5
      <4> QED
        BY ONLY <4>1
    <3>4. Cardinality(DOMAIN child') = Cardinality(DOMAIN child) + 0
      BY <2>4, <3>2
    <3> QED
      BY <3>3, <3>4
  <2>6. ChildInv'
    BY <1>5, <2>1, <2>2, <2>3 DEF ChildInv, Running
  <2> QED
    BY <1>5, <2>5, <2>6
<1>6. ASSUME NEW e \in BOOLEAN, BoundaryEnds(e)
      PROVE  ChildInv' /\ (~ambiguous' => ~ambiguous) /\ Grows(0)
  <2>1. pc = "boundary" /\ pc' = "merge" /\ UNCHANGED <<child, run, created, ambiguous>>
    BY <1>6 DEF BoundaryEnds, history
  <2>4. Cardinality(DOMAIN child) \in Nat
    BY <2>1, FS_CardinalityType DEF ChildInv, Running, ChildShape, Record, Typed
  <2>5. Grows(0)
    BY <2>1, <2>4
  <2>6. ChildInv'
    BY <2>1 DEF ChildInv, Running
  <2> QED
    BY <2>1, <2>5, <2>6
<1>7. CASE \E st \in Codes, resp \in {"json", "text"} : ChildResponds(st, resp)
  BY <1>5, <1>7 DEF ChildResponds, Answers, history
<1>8. CASE \E st \in Codes \ {200} : ChildFails(st)
  BY <1>5, <1>8 DEF ChildFails, Answers, history
<1> QED
  BY <1>2, <1>3, <1>4, <1>6, <1>7, <1>8 DEF ChildStep

\* The entries of a run are made while it runs, and reach the parent when it is over.
ByInv ==
  /\ \A i \in DOMAIN entries : entries[i].by =< run
  /\ pc \in Running => before < run /\ \A i \in DOMAIN entries : entries[i].by < run

\* While nothing has failed the only entry without a response is the loop under way.
OpenInv ==
  outcome = "ok" /\ ~ambiguous =>
    \A i \in DOMAIN entries :
      Len(i) = 1 /\ entries[i].resp = "none" =>
        activity = LoopName /\ pc # "idle" /\ i = Id(LoopName, LastUsed(entries, LoopName))

Ascending(s) == \A i, j \in 1..Len(s) : i < j => s[i] < s[j]
Elements(s) == {s[i] : i \in 1..Len(s)}

\* The runs of the loop, of those first to last, that the record says were answered in JSON.
Bodies(es, first, last) ==
  {r \in first..last :
     \E i \in DOMAIN es : /\ Len(i) = 1 /\ i[1][1] = LoopBody
                          /\ es[i].by = r /\ es[i].resp = "json"}

\* What the loop has collected is what the record says, run by run.
CollectInv ==
  activity = LoopName /\ pc # "idle" /\ ~ambiguous =>
    Ascending(responses) /\ Elements(responses) = Bodies(entries, before + 1, run)

AnswerInv == ChildInv /\ NothingLost /\ ByInv /\ OpenInv /\ CollectInv

-----------------------------------------------------------------------------
\* Numbers larger than all that have been collected.
LEMMA AscendingJoined ==
  ASSUME NEW S, S \subseteq Int, NEW s \in Seq(S), NEW t \in Seq(S),
         Ascending(s), Ascending(t), \A x \in Elements(s), y \in Elements(t) : x < y
  PROVE  Ascending(s \o t) /\ Elements(s \o t) = Elements(s) \cup Elements(t)
<1> DEFINE m == Len(s)
           n == Len(t)
           new == s \o t
<1>1. m \in Nat /\ n \in Nat /\ Len(new) = m + n
  OBVIOUS
<1>0. /\ \A i \in 1..m : s[i] \in Int /\ s[i] \in Elements(s)
      /\ \A k \in 1..n : t[k] \in Int /\ t[k] \in Elements(t)
  <2>1. (\A i \in 1..m : s[i] \in S) /\ (\A k \in 1..n : t[k] \in S)
    OBVIOUS
  <2>2. (\A i \in 1..m : s[i] \in Elements(s)) /\ (\A k \in 1..n : t[k] \in Elements(t))
    BY DEF Elements
  <2> QED
    BY <2>1, <2>2
<1>2. \A i \in 1..m : new[i] = s[i] /\ s[i] \in Int /\ s[i] \in Elements(s)
  <2>1. \A i \in 1..m : new[i] = s[i]
    OBVIOUS
  <2> QED
    BY <1>0, <2>1
<1>3. \A i \in (m + 1)..(m + n) : /\ i - m \in 1..n /\ new[i] = t[i - m]
                                  /\ t[i - m] \in Int /\ t[i - m] \in Elements(t)
  <2> SUFFICES ASSUME NEW i \in (m + 1)..(m + n)
               PROVE  i - m \in 1..n /\ new[i] = t[i - m] /\ t[i - m] \in Int /\ t[i - m] \in Elements(t)
    OBVIOUS
  <2>1. i - m \in 1..n
    BY <1>1
  <2>2. new[i] = t[i - m]
    BY <1>1, <2>1
  <2> QED
    BY <1>0, <2>1, <2>2
<1>4. \A k \in 1..n : t[k] = new[m + k] /\ m + k \in 1..(m + n)
  BY <1>1
<1> HIDE DEF new, m, n
<1>5. ASSUME NEW i \in 1..(m + n), NEW j \in 1..(m + n), i < j PROVE new[i] < new[j]
  <2>1. CASE j \in 1..m
    <3>1. i \in 1..m
      BY <1>1, <1>5, <2>1
    <3> QED
      BY <1>2, <1>5, <2>1, <3>1 DEF Ascending, m
  <2>2. CASE i \in 1..m /\ j \in (m + 1)..(m + n)
    BY <1>2, <1>3, <2>2
  <2>3. CASE i \in (m + 1)..(m + n) /\ j \in (m + 1)..(m + n)
    <3>1. i - m \in 1..n /\ j - m \in 1..n /\ i - m < j - m
      BY <1>1, <1>3, <1>5, <2>3
    <3>2. t[i - m] < t[j - m]
      BY <3>1 DEF Ascending, n
    <3> QED
      BY <1>3, <2>3, <3>2
  <2> QED
    BY <1>1, <1>5, <2>1, <2>2, <2>3
<1>6. Elements(new) = Elements(s) \cup Elements(t)
  <2>1. ASSUME NEW i \in 1..(m + n) PROVE new[i] \in Elements(s) \cup Elements(t)
    <3>1. i \in 1..m \/ i \in (m + 1)..(m + n)
      BY <1>1
    <3> QED
      BY <1>2, <1>3, <3>1
  <2>2. ASSUME NEW i \in 1..m PROVE i \in 1..(m + n) /\ new[i] = s[i]
    BY <1>1, <1>2
  <2>3. Elements(new) = {new[i] : i \in 1..(m + n)} /\ Elements(s) = {s[i] : i \in 1..m}
        /\ Elements(t) = {t[k] : k \in 1..n}
    BY <1>1 DEF Elements, m, n
  <2> QED
    BY <1>4, <2>1, <2>2, <2>3
<1> QED
  BY <1>1, <1>5, <1>6 DEF Ascending, new

Facts ==
  /\ Counters /\ RecordInv
  /\ MaxRuns \in Nat /\ run \in 0..MaxRuns /\ before \in 0..run
  /\ created \in Nat /\ responses \in Seq(0..MaxRuns)

\* Both maps are finite.
LEMMA SizesAreNumbers ==
  ASSUME Facts
  PROVE  Cardinality(DOMAIN entries) \in Nat /\ Cardinality(DOMAIN child) \in Nat
BY FS_CardinalityType DEF Facts, RecordInv, Record, Typed

\* Another activity of the parent: its response, or a failure, goes with its request.
LEMMA PlainAnswers ==
  ASSUME Facts, AnswerInv, NEW name \in PlainNames, NEW resp \in Answers, Plain(name, resp)
  PROVE  AnswerInv'
<1> DEFINE new == SetResponse(SetRequest(entries, name, 0), name, resp)
           id == Id(name, FirstAvailable(entries, name))
<1>1. name \in AllNames /\ Record(entries) /\ run \in Nat
  BY ActivitiesAssumption DEF AllNames, Facts, RecordInv, Counters
<1>2. /\ id \notin DOMAIN entries /\ DOMAIN new = DOMAIN entries \cup {id}
      /\ \A i \in DOMAIN entries : new[i] = entries[i]
      /\ new[id].resp = resp /\ new[id].by = 0
      /\ Cardinality(DOMAIN new) = Cardinality(DOMAIN entries) + 1
  <2>1. Record(entries) /\ name \in AllNames /\ 0 \in Nat /\ resp \in Answers
    BY <1>1
  <2> QED
    BY <2>1, Exchanged
<1>3. /\ entries' = new /\ created' = created + 1 /\ pc = "idle" /\ pc' = "idle"
      /\ outcome' = IF resp = "none" THEN "error" ELSE outcome
      /\ UNCHANGED <<child, run, before, activity>>
  BY DEF Plain
<1>30. ambiguous' = ambiguous
  BY DEF Plain
<1> HIDE DEF new, id
<1>4. ChildInv'
  BY <1>3, <1>30 DEF AnswerInv, ChildInv, Running
<1>5. NothingLost'
  <2>1. ~ambiguous => Cardinality(DOMAIN entries) + Cardinality(DOMAIN child) = created
    BY DEF AnswerInv, NothingLost
  <2>2. Cardinality(DOMAIN entries') = Cardinality(DOMAIN entries) + 1
    BY <1>2, <1>3
  <2>3. Cardinality(DOMAIN child') = Cardinality(DOMAIN child)
    BY <1>3
  <2> QED
    BY <1>3, <1>30, <2>1, <2>2, <2>3, SizesAreNumbers DEF NothingLost
<1>6. ByInv'
  BY <1>1, <1>2, <1>3 DEF AnswerInv, ByInv, Running
<1>7. OpenInv'
  BY <1>2, <1>3, <1>30 DEF AnswerInv, OpenInv
<1>8. CollectInv'
  BY <1>3 DEF CollectInv
<1> QED
  BY <1>4, <1>5, <1>6, <1>7, <1>8 DEF AnswerInv

\* A run begins: the number is new, so that nothing in the record is its.
LEMMA RunAnswers ==
  ASSUME Facts, AnswerInv, NewChild, UNCHANGED <<entries, outcome, responses>>, UNCHANGED ambiguous,
         \/ pc = "idle" /\ activity' # LoopName /\ before' = run
         \/ pc = "head" /\ activity' = activity /\ before' = before
  PROVE  AnswerInv'
<1>1. /\ pc \notin Running /\ pc' = "body" /\ run' = run + 1 /\ created' = created + 1 /\ run \in Nat
      /\ before \in 0..run
  BY DEF NewChild, Running, Facts, Counters
<1>2. ChildInv' /\ Cardinality(DOMAIN child) = 0 /\ Cardinality(DOMAIN child') = 1
  BY <1>1, StartsChild DEF Facts, AnswerInv
<1>3. NothingLost'
  <2>1. ~ambiguous => Cardinality(DOMAIN entries) + Cardinality(DOMAIN child) = created
    BY DEF AnswerInv, NothingLost
  <2>2. Cardinality(DOMAIN entries') = Cardinality(DOMAIN entries)
    OBVIOUS
  <2> QED
    BY <1>1, <1>2, <2>1, <2>2, SizesAreNumbers DEF NothingLost
<1>4. ByInv'
  <2>1. \A i \in DOMAIN entries : entries[i].by =< run /\ entries[i].by \in Nat
    <3>1. \A i \in DOMAIN entries : entries[i] \in Entry
      BY DEF Facts, RecordInv, Record, Typed, IsEntries
    <3> QED
      BY <3>1 DEF Entry, AnswerInv, ByInv
  <2>2. before' \in 0..run
    BY <1>1
  <2> QED
    BY <1>1, <2>1, <2>2 DEF ByInv
<1>5. OpenInv'
  BY <1>1 DEF AnswerInv, OpenInv
<1>6. CollectInv'
  <2> SUFFICES ASSUME activity' = LoopName, ~ambiguous'
               PROVE  (Ascending(responses) /\ Elements(responses) = Bodies(entries, before + 1, run))'
    BY DEF CollectInv
  <2>1. pc = "head" /\ activity = LoopName /\ before' = before /\ ~ambiguous
    OBVIOUS
  <2>2. Ascending(responses) /\ Elements(responses) = Bodies(entries, before + 1, run)
    BY <2>1 DEF AnswerInv, CollectInv
  <2>3. Bodies(entries, before + 1, run + 1) = Bodies(entries, before + 1, run)
    <3>1. ASSUME NEW i \in DOMAIN entries PROVE entries[i].by # run + 1
      BY <1>1 DEF AnswerInv, ByInv
    <3>2. (before + 1)..(run + 1) = ((before + 1)..run) \cup {run + 1}
      BY <1>1
    <3> QED
      BY <3>1, <3>2 DEF Bodies
  <2>4. Bodies(entries, before + 1, run)' = Bodies(entries, before + 1, run)
    BY <1>1, <2>1, <2>3 DEF Bodies
  <2>5. Ascending(responses)' /\ Elements(responses)' = Elements(responses)
    BY <2>2 DEF Ascending, Elements
  <2> QED
    BY <2>2, <2>4, <2>5
<1> QED
  BY <1>2, <1>3, <1>4, <1>5, <1>6 DEF AnswerInv

\* The loop opens with nothing collected and no run of its own.
LEMMA LoopOpens ==
  ASSUME Facts, AnswerInv, BeginLoop
  PROVE  AnswerInv'
<1> DEFINE new == SetRequest(entries, LoopName, 0)
           id == Id(LoopName, FirstAvailable(entries, LoopName))
<1>1. LoopName \in AllNames /\ Record(entries) /\ Typed(entries) /\ run \in Nat
  BY ActivitiesAssumption DEF AllNames, Facts, RecordInv, Record, Counters
<1>2. /\ id \notin DOMAIN entries /\ DOMAIN new = DOMAIN entries \cup {id}
      /\ \A i \in DOMAIN entries : new[i] = entries[i]
  BY <1>1, SetRequestAdds
<1>3. new[id].by = 0 /\ Cardinality(DOMAIN new) = Cardinality(DOMAIN entries) + 1
  BY <1>1, RequestCounted
<1>4. LastUsed(new, LoopName) = FirstAvailable(entries, LoopName)
  BY <1>1, SetRequestRecord
<1>5. /\ entries' = new /\ created' = created + 1 /\ pc = "idle" /\ pc' = "head"
      /\ activity' = LoopName /\ before' = run /\ responses' = <<>>
      /\ UNCHANGED <<child, run, outcome>>
  BY DEF BeginLoop
<1>50. ambiguous' = ambiguous
  BY DEF BeginLoop
<1>51. Id(LoopName, LastUsed(new, LoopName)) = id
  BY <1>4
<1> HIDE DEF new, id
<1>6. ChildInv'
  BY <1>5, <1>50 DEF AnswerInv, ChildInv, Running
<1>7. NothingLost'
  <2>1. ~ambiguous => Cardinality(DOMAIN entries) + Cardinality(DOMAIN child) = created
    BY DEF AnswerInv, NothingLost
  <2>2. Cardinality(DOMAIN entries') = Cardinality(DOMAIN entries) + 1
    BY <1>3, <1>5
  <2>3. Cardinality(DOMAIN child') = Cardinality(DOMAIN child)
    BY <1>5
  <2> QED
    BY <1>5, <1>50, <2>1, <2>2, <2>3, SizesAreNumbers DEF NothingLost
<1>8. ByInv'
  BY <1>1, <1>2, <1>3, <1>5 DEF AnswerInv, ByInv, Running
<1>9. OpenInv'
  BY <1>2, <1>5, <1>50, <1>51 DEF AnswerInv, OpenInv
<1>10. CollectInv'
  <2>1. Ascending(<<>>) /\ Elements(<<>>) = {}
    BY DEF Ascending, Elements
  <2>2. (run + 1)..run = {}
    BY <1>1
  <2>3. Bodies(new, run + 1, run) = {}
    BY <2>2 DEF Bodies
  <2>4. Bodies(entries, before + 1, run)' = {} /\ Ascending(responses)' /\ Elements(responses)' = {}
    BY <1>5, <2>1, <2>3
  <2> QED
    BY <2>4 DEF CollectInv
<1> QED
  BY <1>6, <1>7, <1>8, <1>9, <1>10 DEF AnswerInv

\* The activity returns: what it has recorded is answered, or it has failed.
LEMMA ReturnAnswers ==
  ASSUME Facts, AnswerInv, pc \in {"idle", "head", "respond"}, pc' = "idle",
         UNCHANGED <<child, run, activity, created>>, UNCHANGED ambiguous,
         \/ entries' = entries /\ (activity = LoopName /\ pc # "idle" => outcome' = "error")
         \/ /\ activity = LoopName /\ pc # "idle"
            /\ \E resp \in {"json", "text"} : entries' = SetResponse(entries, LoopName, resp),
         outcome' \in {outcome, "error"}
  PROVE  AnswerInv'
<1>1. Typed(entries) /\ (activity = LoopName /\ pc # "idle" => LoopOpen(entries))
  BY DEF Facts, RecordInv, Record
<1>2. ASSUME activity = LoopName, pc # "idle",
             NEW resp \in {"json", "text"}, entries' = SetResponse(entries, LoopName, resp)
      PROVE  /\ DOMAIN entries' = DOMAIN entries
             /\ \A i \in DOMAIN entries :
                  /\ entries'[i].by = entries[i].by
                  /\ i # Id(LoopName, LastUsed(entries, LoopName)) => entries'[i] = entries[i]
             /\ entries'[Id(LoopName, LastUsed(entries, LoopName))].resp # "none"
  <2>1. resp \in Answers /\ resp # "none" /\ Id(LoopName, LastUsed(entries, LoopName)) \in DOMAIN entries
    BY <1>1, <1>2 DEF Answers, LoopOpen
  <2>2. /\ DOMAIN entries' = DOMAIN entries
        /\ \A i \in DOMAIN entries :
             /\ entries'[i].by = entries[i].by
             /\ i # Id(LoopName, LastUsed(entries, LoopName)) => entries'[i] = entries[i]
    BY <1>1, <1>2, <2>1, SetResponseChanges
  <2>3. entries'[Id(LoopName, LastUsed(entries, LoopName))].resp = resp
    BY <1>1, <1>2, <2>1, Responded
  <2> QED
    BY <2>1, <2>2, <2>3
<1>3. DOMAIN entries' = DOMAIN entries /\ \A i \in DOMAIN entries : entries'[i].by = entries[i].by
  BY <1>2
<1>4. ChildInv'
  BY DEF AnswerInv, ChildInv, Running
<1>5. NothingLost'
  <2>1. Cardinality(DOMAIN entries') = Cardinality(DOMAIN entries)
    BY <1>3
  <2>2. Cardinality(DOMAIN child') = Cardinality(DOMAIN child)
    OBVIOUS
  <2> QED
    BY <2>1, <2>2 DEF AnswerInv, NothingLost
<1>6. ByInv'
  <2>1. \A i \in DOMAIN entries : entries[i].by =< run
    BY DEF AnswerInv, ByInv
  <2>2. \A i \in DOMAIN entries' : entries'[i].by =< run'
    BY <1>3, <2>1
  <2>3. pc' \notin Running
    BY DEF Running
  <2> QED
    BY <2>2, <2>3 DEF ByInv
<1>7. OpenInv'
  <2> SUFFICES ASSUME outcome' = "ok", ~ambiguous',
                      NEW i \in DOMAIN entries', Len(i) = 1
               PROVE  entries'[i].resp # "none"
    BY DEF OpenInv
  <2>1. outcome = "ok" /\ ~ambiguous
    OBVIOUS
  <2>2. i \in DOMAIN entries /\ (entries[i].resp = "none" =>
          activity = LoopName /\ pc # "idle" /\ i = Id(LoopName, LastUsed(entries, LoopName)))
    BY <1>3, <2>1 DEF AnswerInv, OpenInv
  <2>3. CASE entries' = entries
    BY <2>2, <2>3, <1>2
  <2>4. CASE entries' # entries
    BY <2>2, <2>4, <1>2
  <2> QED
    BY <2>3, <2>4
<1>8. CollectInv'
  BY DEF CollectInv
<1> QED
  BY <1>4, <1>5, <1>6, <1>7, <1>8 DEF AnswerInv

\* While a run is under way it is all of the child: the parent's record waits.
LEMMA ChildStepAnswers ==
  ASSUME Facts, AnswerInv, ChildStep
  PROVE  AnswerInv'
<1>1. /\ UNCHANGED <<entries, outcome, activity, run, before, responses>>
      /\ pc \in Running /\ pc' \in Running
  BY DEF ChildStep, ChildResponds, ChildFails, ChildActivity, ChildCached, ChildNested,
         ChildRuns, BoundaryEnds, Running, loop
<1>2. PICK n \in 0..2 : /\ ChildInv' /\ (~ambiguous' => ~ambiguous)
                        /\ created' = created + n
                        /\ Cardinality(DOMAIN child') = Cardinality(DOMAIN child) + n
  BY ChildGrows DEF Facts, AnswerInv
<1>3. NothingLost'
  <2>1. ~ambiguous => Cardinality(DOMAIN entries) + Cardinality(DOMAIN child) = created
    BY DEF AnswerInv, NothingLost
  <2>2. Cardinality(DOMAIN entries') = Cardinality(DOMAIN entries)
    BY <1>1
  <2> QED
    BY <1>2, <2>1, <2>2, SizesAreNumbers DEF NothingLost, Facts
<1>4. ByInv'
  BY <1>1 DEF AnswerInv, ByInv
<1>5. OpenInv'
  <2>1. pc' # "idle" /\ pc # "idle"
    BY <1>1 DEF Running
  <2> QED
    BY <1>1, <1>2, <2>1 DEF AnswerInv, OpenInv
<1>6. CollectInv'
  <2> SUFFICES ASSUME activity' = LoopName, ~ambiguous'
               PROVE  (Ascending(responses) /\ Elements(responses) = Bodies(entries, before + 1, run))'
    BY DEF CollectInv
  <2>1. Ascending(responses) /\ Elements(responses) = Bodies(entries, before + 1, run)
    BY <1>1, <1>2 DEF AnswerInv, CollectInv, Running
  <2>2. Bodies(entries, before + 1, run)' = Bodies(entries, before + 1, run)
    BY <1>1 DEF Bodies
  <2>3. Ascending(responses)' /\ Elements(responses)' = Elements(responses)
    BY <1>1, <2>1 DEF Ascending, Elements
  <2> QED
    BY <2>1, <2>2, <2>3
<1> QED
  BY <1>2, <1>3, <1>4, <1>5, <1>6 DEF AnswerInv

\* The loop goes on with what it had.
LEMMA GoesOnAnswers ==
  ASSUME Facts, AnswerInv, pc = "respond", pc' = "head",
         UNCHANGED <<entries, child, outcome, activity, run, before, responses, created>>,
         UNCHANGED ambiguous
  PROVE  AnswerInv'
<1>1. ChildInv' /\ NothingLost' /\ ByInv' /\ OpenInv'
  BY DEF AnswerInv, ChildInv, NothingLost, ByInv, OpenInv, Running
<1>2. CollectInv'
  <2>1. Bodies(entries, before + 1, run)' = Bodies(entries, before + 1, run)
    BY DEF Bodies
  <2>2. Ascending(responses)' <=> Ascending(responses)
    BY DEF Ascending
  <2>3. Elements(responses)' = Elements(responses)
    BY DEF Elements
  <2> QED
    BY <2>1, <2>2, <2>3 DEF AnswerInv, CollectInv
<1> QED
  BY <1>1, <1>2 DEF AnswerInv

(***************************************************************************)
(* The end of a run: all its entries get to the parent, the one of the run *)
(* has the answer of the child, and the loop collects what it says.        *)
(***************************************************************************)
LEMMA MergeAnswers ==
  ASSUME Facts, AnswerInv, Merge
  PROVE  AnswerInv'
<1> DEFINE base == Id(BaseName, FirstAvailable(entries, BaseName))
<1>1. /\ Record(entries) /\ ChildShape(child, run) /\ (~ambiguous => Distinct(child))
      /\ child[ChildId].resp # "none" /\ run \in Nat /\ run \in 0..MaxRuns
      /\ before \in 0..run /\ before < run /\ pc = "merge"
      /\ \A i \in DOMAIN entries : entries[i].by < run
  BY DEF Merge, Facts, RecordInv, AnswerInv, ChildInv, ByInv, Running, Counters
<1>2. BaseName \in AllNames /\ (activity = LoopName => LoopName \in AllNames \ {BaseName})
  BY ActivitiesAssumption DEF BaseName, AllNames
<1>3. \E i \in DOMAIN child : IsRequest(child[i])
  BY <1>1 DEF ChildShape, HasRequest
<1>4. entries' \in Merged(entries, child, base)
  BY DEF Merge, Base
<1>5. /\ Record(entries')
      /\ \A i \in DOMAIN entries : i \in DOMAIN entries' /\ entries'[i] = entries[i]
      /\ \A n \in AllNames \ {BaseName} : \A k \in Nat : Used(entries', n, k) <=> Used(entries, n, k)
  <2>1. Typed(child)
    BY <1>1 DEF ChildShape, Record
  <2> QED
    BY <1>1, <1>2, <1>3, <1>4, <2>1, MergedAdds
<1>6. /\ base \notin DOMAIN entries /\ base \in DOMAIN entries'
      /\ \A i \in DOMAIN entries' \ DOMAIN entries : entries'[i].by = run /\ (i = base \/ Len(i) > 1)
      /\ Distinct(child) =>
           /\ entries'[base].resp = child[ChildId].resp
           /\ Cardinality(DOMAIN entries') = Cardinality(DOMAIN entries) + Cardinality(DOMAIN child)
  BY <1>1, <1>2, <1>4, MergedNew
<1>7. /\ child' = NoEntries /\ pc' = "respond" /\ Collect
      /\ UNCHANGED <<outcome, activity, run, before, created>>
  BY DEF Merge, history
<1>8. ambiguous' = ambiguous
  BY DEF Merge, history
<1>9. base = <<<<BaseName, FirstAvailable(entries, BaseName)>>>> /\ base[1][1] = BaseName /\ Len(base) = 1
  BY DEF Id
<1> HIDE DEF base
<1>10. ChildInv'
  BY <1>7 DEF ChildInv, Running
<1>11. NothingLost'
  <2>1. DOMAIN child' = {}
    BY <1>7 DEF NoEntries
  <2>2. Cardinality(DOMAIN child') = 0
    BY <2>1, FS_EmptySet
  <2>3. ~ambiguous => Cardinality(DOMAIN entries) + Cardinality(DOMAIN child) = created
    BY DEF AnswerInv, NothingLost
  <2> QED
    BY <1>1, <1>6, <1>7, <1>8, <2>2, <2>3, SizesAreNumbers DEF NothingLost
<1>12. ByInv'
  <2>1. ASSUME NEW i \in DOMAIN entries' PROVE entries'[i].by =< run
    BY <1>1, <1>5, <1>6 DEF AnswerInv, ByInv
  <2>2. pc' \notin Running
    BY <1>7 DEF Running
  <2> QED
    BY <1>7, <2>1, <2>2 DEF ByInv
<1>13. OpenInv'
  <2> SUFFICES ASSUME outcome = "ok", ~ambiguous,
                      NEW i \in DOMAIN entries', Len(i) = 1, entries'[i].resp = "none"
               PROVE  activity = LoopName /\ i = Id(LoopName, LastUsed(entries', LoopName))
    BY <1>7, <1>8 DEF OpenInv
  <2>0. ~(Len(i) > 1)
    OBVIOUS
  <2>1. i # base /\ i \in DOMAIN entries
    BY <1>1, <1>6, <2>0
  <2>2. activity = LoopName /\ i = Id(LoopName, LastUsed(entries, LoopName))
    BY <1>5, <2>1 DEF AnswerInv, OpenInv
  <2>3. LastUsed(entries', LoopName) = LastUsed(entries, LoopName)
    <3>1. \A k \in Nat : Used(entries', LoopName, k) <=> Used(entries, LoopName, k)
      BY <1>2, <1>5, <2>2
    <3> QED
      BY <1>1, <1>5, <3>1, SameLastUsed DEF Record
  <2> QED
    BY <2>2, <2>3
<1>14. CollectInv'
  <2> SUFFICES ASSUME activity = LoopName, ~ambiguous
               PROVE  (Ascending(responses) /\ Elements(responses) = Bodies(entries, before + 1, run))'
    BY <1>7, <1>8 DEF CollectInv
  <2> DEFINE n == Cardinality(JsonRequests(child))
             old == Bodies(entries, before + 1, run)
  <2>1. Distinct(child) /\ BaseName = LoopBody
    BY <1>1 DEF BaseName
  <2>2. n = IF child[ChildId].resp = "json" THEN 1 ELSE 0
    BY <1>1, <2>1, JsonAnswers
  <2>3. Ascending(responses) /\ Elements(responses) = old
    BY <1>1 DEF AnswerInv, CollectInv
  <2>4. responses' = responses \o [k \in 1..n |-> run]
    BY <1>7 DEF Collect
  <2>5. \A x \in old : x < run
    BY <1>1 DEF Bodies
  <2>6. Bodies(entries', before + 1, run) = old \cup (IF n = 1 THEN {run} ELSE {})
    <3>1. run \in (before + 1)..run
      BY <1>1
    <3>2. base \in DOMAIN entries' /\ entries'[base].by = run /\ entries'[base].resp = child[ChildId].resp
      BY <1>6, <2>1
    <3>3. ASSUME NEW x \in Bodies(entries', before + 1, run) PROVE x \in old \cup (IF n = 1 THEN {run} ELSE {})
      <4>1. PICK i \in DOMAIN entries' : Len(i) = 1 /\ i[1][1] = LoopBody /\ entries'[i].by = x /\ entries'[i].resp = "json"
        BY DEF Bodies
      <4>2. x \in (before + 1)..run
        BY DEF Bodies
      <4>3. CASE i \in DOMAIN entries
        BY <1>5, <4>1, <4>2, <4>3 DEF Bodies
      <4>4. CASE i \notin DOMAIN entries
        <5>0. ~(Len(i) > 1)
          BY <4>1
        <5>1. i = base /\ x = run
          BY <1>6, <4>1, <4>4, <5>0
        <5> QED
          BY <2>2, <3>2, <4>1, <5>1
      <4> QED
        BY <4>3, <4>4
    <3>4. ASSUME NEW x \in old PROVE x \in Bodies(entries', before + 1, run)
      BY <1>5 DEF Bodies
    <3>5. ASSUME n = 1 PROVE run \in Bodies(entries', before + 1, run)
      BY <1>9, <2>1, <2>2, <3>1, <3>2, <3>5 DEF Bodies
    <3> HIDE DEF old, n
    <3> QED
      BY <3>3, <3>4, <3>5
  <2>7. n \in {0, 1}
    BY <2>2
  <2> HIDE DEF n, old
  <2>8. Ascending(responses') /\ Elements(responses') = old \cup (IF n = 1 THEN {run} ELSE {})
    <3> DEFINE S == 0..MaxRuns
               t == [k \in 1..n |-> run]
    <3>1. S \subseteq Int /\ responses \in Seq(S) /\ run \in S
      BY <1>1 DEF Facts
    <3>2. t \in Seq(S) /\ Ascending(t) /\ Elements(t) = IF n = 1 THEN {run} ELSE {}
      BY <2>7, <3>1 DEF Ascending, Elements
    <3> HIDE DEF t, S
    <3>3. \A x \in Elements(responses), y \in Elements(t) : x < y
      BY <2>3, <2>5, <3>2
    <3>4. Ascending(responses \o t) /\ Elements(responses \o t) = Elements(responses) \cup Elements(t)
      BY <2>3, <3>1, <3>2, <3>3, AscendingJoined
    <3>5. responses' = responses \o t
      BY <2>4 DEF t
    <3> QED
      BY <2>3, <3>2, <3>4, <3>5
  <2>9. Bodies(entries, before + 1, run)' = Bodies(entries', before + 1, run)
    BY <1>7 DEF Bodies
  <2>10. (Ascending(responses) <=> Ascending(responses))' /\ Elements(responses)' = Elements(responses')
    BY DEF Elements
  <2> QED
    BY <2>6, <2>8, <2>9 DEF Ascending, Elements
<1> QED
  BY <1>10, <1>11, <1>12, <1>13, <1>14 DEF AnswerInv

\* A case begins with its request and the response of it.
LEMMA InitAnswers == Init => AnswerInv
<1> SUFFICES ASSUME Init PROVE AnswerInv
  OBVIOUS
<1> DEFINE id == Id(RequestName, FirstAvailable(NoEntries, RequestName))
<1>1. Record(NoEntries) /\ RequestName \in AllNames /\ "json" \in Answers /\ 0 \in Nat
  BY NoEntriesRecord DEF AllNames, Answers
<1>2. entries = SetResponse(SetRequest(NoEntries, RequestName, 0), RequestName, "json")
  BY DEF Init
<1>3. /\ DOMAIN entries = DOMAIN NoEntries \cup {id}
      /\ entries[id].resp = "json" /\ entries[id].by = 0
      /\ Cardinality(DOMAIN entries) = Cardinality(DOMAIN NoEntries) + 1
  BY <1>1, <1>2, Exchanged
<1>4. DOMAIN NoEntries = {} /\ Cardinality({}) = 0
  BY FS_EmptySet DEF NoEntries
<1>5. /\ pc = "idle" /\ child = NoEntries /\ run = 0 /\ created = 1
      /\ activity = NestedName
  BY DEF Init
<1> HIDE DEF id
<1>6. \A i \in DOMAIN entries : entries[i].resp = "json" /\ entries[i].by = 0
  BY <1>3, <1>4
<1>7. Cardinality(DOMAIN entries) + Cardinality(DOMAIN child) = created
  BY <1>3, <1>4, <1>5
<1>8. ChildInv /\ ByInv /\ OpenInv /\ CollectInv
  BY <1>5, <1>6 DEF ChildInv, ByInv, OpenInv, CollectInv, Running
<1> QED
  BY <1>7, <1>8 DEF AnswerInv, NothingLost

\* Every action keeps it.
LEMMA NextAnswers == NestedInv /\ AnswerInv /\ [Next]_vars => AnswerInv'
<1> SUFFICES ASSUME NestedInv, AnswerInv, [Next]_vars PROVE AnswerInv'
  OBVIOUS
<1>1. Facts
  BY TypeCounters, ConfigsAssumption DEF NestedInv, TypeOK, Facts
<1>2. ASSUME NEW name \in PlainNames, NEW resp \in Answers, Plain(name, resp) PROVE AnswerInv'
  BY <1>1, <1>2, PlainAnswers
<1>3. CASE BeginNested
  <2>1. /\ NewChild /\ UNCHANGED <<entries, outcome, responses>> /\ UNCHANGED ambiguous
        /\ pc = "idle" /\ activity' # LoopName /\ before' = run
    BY <1>3, ActivitiesAssumption DEF BeginNested, loop
  <2> QED
    BY <1>1, <2>1, RunAnswers
<1>4. CASE LoopNext
  <2>1. /\ NewChild /\ UNCHANGED <<entries, outcome, responses>> /\ UNCHANGED ambiguous
        /\ pc = "head" /\ activity' = activity /\ before' = before
    BY <1>4 DEF LoopNext
  <2> QED
    BY <1>1, <2>1, RunAnswers
<1>5. CASE BeginLoop
  BY <1>1, <1>5, LoopOpens
<1>6. CASE BeginFails \/ LoopNextFails
  <2>1. /\ pc \in {"idle", "head", "respond"} /\ pc' = "idle" /\ entries' = entries /\ outcome' = "error"
        /\ UNCHANGED <<child, run, activity, created>> /\ UNCHANGED ambiguous
    BY <1>6 DEF BeginFails, LoopNextFails, Leave, history
  <2> QED
    BY <1>1, <2>1, ReturnAnswers
<1>7. CASE LoopEnd
  <2>1. /\ pc = "head" /\ pc' = "idle" /\ outcome' = outcome /\ activity = LoopName
        /\ entries' = SetResponse(entries, LoopName, "json")
        /\ UNCHANGED <<child, run, activity, created>> /\ UNCHANGED ambiguous
    BY <1>1, <1>7 DEF LoopEnd, Leave, history, Facts, RecordInv
  <2>2. \E resp \in {"json", "text"} : entries' = SetResponse(entries, LoopName, resp)
    BY <2>1
  <2> QED
    BY <1>1, <2>1, <2>2, ReturnAnswers
<1>8. CASE RespondError
  <2>1. /\ pc = "respond" /\ pc' = "idle" /\ outcome' = "error"
        /\ entries' = IF activity = LoopName THEN SetResponse(entries, LoopName, "text") ELSE entries
        /\ UNCHANGED <<child, run, activity, created>> /\ UNCHANGED ambiguous
    BY <1>8 DEF RespondError, Leave, history
  <2>2. entries' = entries \/ (activity = LoopName /\ \E resp \in {"json", "text"} : entries' = SetResponse(entries, LoopName, resp))
    BY <2>1
  <2> QED
    BY <1>1, <2>1, <2>2, ReturnAnswers
<1>9. CASE RespondNil
  <2>1. CASE activity = LoopName
    <3>1. /\ pc = "respond" /\ pc' = "head" /\ UNCHANGED ambiguous
          /\ UNCHANGED <<entries, child, outcome, activity, run, before, responses, created>>
      BY <1>9, <2>1 DEF RespondNil, loop, history
    <3> QED
      BY <1>1, <3>1, GoesOnAnswers
  <2>2. CASE activity # LoopName
    <3>1. /\ pc = "respond" /\ pc' = "idle" /\ outcome' = outcome /\ entries' = entries
          /\ UNCHANGED <<child, run, activity, created>> /\ UNCHANGED ambiguous
      BY <1>9, <2>2 DEF RespondNil, Leave, history
    <3> QED
      BY <1>1, <2>2, <3>1, ReturnAnswers
  <2> QED
    BY <2>1, <2>2
<1>10. CASE ChildStep
  BY <1>1, <1>10, ChildStepAnswers
<1>11. CASE Merge
  BY <1>1, <1>11, MergeAnswers
<1>12. CASE UNCHANGED vars
  <2>1. UNCHANGED <<pc, entries, child, outcome, activity, run, before, responses, created>> /\ UNCHANGED ambiguous
    BY <1>12 DEF vars
  <2>2. Bodies(entries, before + 1, run)' = Bodies(entries, before + 1, run)
    BY <2>1 DEF Bodies
  <2>3. Ascending(responses)' <=> Ascending(responses)
    BY <2>1 DEF Ascending
  <2>4. Elements(responses)' = Elements(responses)
    BY <2>1 DEF Elements
  <2>5. CollectInv'
    BY <2>1, <2>2, <2>3, <2>4 DEF AnswerInv, CollectInv
  <2> QED
    BY <2>1, <2>5 DEF AnswerInv, ChildInv, NothingLost, ByInv, OpenInv
<1> QED
  BY <1>2, <1>3, <1>4, <1>5, <1>6, <1>7, <1>8, <1>9, <1>10, <1>11, <1>12 DEF Next

\* The inductive invariant of the three theorems below.
LEMMA SpecAnswers == Spec => []AnswerInv
<1>1. Init => NestedInv /\ AnswerInv
  BY InitInv, InitAnswers
<1>2. (NestedInv /\ AnswerInv) /\ [Next]_vars => (NestedInv /\ AnswerInv)'
  BY NextInv, NextAnswers
<1> QED
  BY <1>1, <1>2, PTL DEF Spec

\* Every entry a child has made reaches the parent, whatever the order in which its map
\* is read (the copying of a child's entries), unless two of them are to have one name.
THEOREM EntriesReachParent == Spec => []NothingLost
<1>1. AnswerInv => NothingLost
  BY DEF AnswerInv
<1> QED
  BY <1>1, SpecAnswers, PTL

\* While no activity has failed, an activity that is over has a response: nested
\* orchestrations and loops included, whatever became of their runs.
THEOREM ActivitiesAnswered == Spec => []Answered
<1>1. AnswerInv => Answered
  BY DEF AnswerInv, OpenInv, Answered
<1> QED
  BY <1>1, SpecAnswers, PTL

\* The response of the loop is what the record says of its runs, in their order.
THEOREM LoopCollectsInOrder == Spec => []ResponsesInOrder
<1>1. AnswerInv => ResponsesInOrder
  <2> SUFFICES ASSUME AnswerInv, activity = LoopName, pc \in {"head", "respond"}, ~ambiguous
               PROVE  ResponsesInOrder
    BY DEF ResponsesInOrder
  <2>1. Ascending(responses) /\ Elements(responses) = Bodies(entries, before + 1, run)
    BY DEF AnswerInv, CollectInv
  <2> QED
    BY <2>1 DEF ResponsesInOrder, Ascending, Elements, Bodies
<1> QED
  BY <1>1, SpecAnswers, PTL
=============================================================================
