----------------------------- MODULE HarEntries -----------------------------
(***************************************************************************)
(* The HAR entries of a case (wfcase/wfcase-har.go): a map from entry ids  *)
(* to requests and their responses.                                        *)
(*                                                                         *)
(* An id like "sub#0@ep#1" is the sequence of its parts, each a name and   *)
(* an instance number; a comment written without a number has Bare instead.*)
(***************************************************************************)
EXTENDS Integers, Sequences, FiniteSets

CONSTANTS Names,       \* names of activities
          RequestName, \* "request", the id of the entry a case begins with
          RequestLike  \* names of activities that begin with "request"

ASSUME NamesAssumption == RequestName \notin Names /\ RequestLike \subseteq Names

Bare == -1
Parts == (Names \cup {RequestName}) \X (Nat \cup {Bare})
Ids == Seq(Parts) \ {<<>>}
Answers == {"none", "json", "text"}

\* by tells the cases apart: 0 is the case itself, the others are its children.
Entry == [comment : Ids, resp : Answers, by : Nat]
IsEntries(es) == DOMAIN es \subseteq Ids /\ es \in [DOMAIN es -> Entry]

Id(name, n) == <<<<name, n>>>>
NoEntries == [i \in {} |-> i]

\* The assignments of g to the map f.
Assign(f, g) == [i \in DOMAIN f \cup DOMAIN g |-> IF i \in DOMAIN g THEN g[i] ELSE f[i]]

Used(es, name, n) == Id(name, n) \in DOMAIN es

\* Mutated FirstAvailable: the search stops one too early.
FirstAvailableOffByOne(es, name) ==
  LET k == CHOOSE k \in 0..Cardinality(DOMAIN es) :
             ~Used(es, name, k) /\ \A j \in 0..(k - 1) : Used(es, name, j)
  IN  IF k > 1 THEN k - 1 ELSE k

\* ComputeFirstAvailableIndexedHarEntryId: the numbers are tried from 0.
FirstAvailable(es, name) ==
  CHOOSE k \in 0..Cardinality(DOMAIN es) :
    ~Used(es, name, k) /\ \A j \in 0..(k - 1) : Used(es, name, j)

\* ComputeLastUsedIndexedHarEntryId; -1 when there is none.
LastUsed(es, name) == FirstAvailable(es, name) - 1

\* SetHarEntryRequest: an entry without a response, under the first free number.
SetRequest(es, name, by) ==
  LET id == Id(name, FirstAvailable(es, name))
  IN  Assign(es, [i \in {id} |-> [comment |-> id, resp |-> "none", by |-> by]])

\* SetHarEntryResponse: the entry used last gets the response, or none does.
SetResponse(es, name, resp) ==
  LET id == Id(name, LastUsed(es, name))
  IN  IF id \in DOMAIN es THEN [es EXCEPT ![id].resp = resp] ELSE es

\* SetHarEntry with an entry whose comment is the name alone (the cache activity).
SetEntry(es, name, resp, by) ==
  Assign(es, [i \in {Id(name, FirstAvailable(es, name))} |->
                [comment |-> Id(name, Bare), resp |-> resp, by |-> by]])

\* strings.HasPrefix(e.Comment, "request")
IsRequest(e) == Head(e.comment)[1] \in RequestLike \cup {RequestName}

\* Mutated Target: the entries of a child keep their names.
TargetPlain(e, base) == IF IsRequest(e) THEN base ELSE e.comment

\* What an entry of a child is called in its parent.
Target(e, base) == IF IsRequest(e) THEN base ELSE base \o e.comment

(***************************************************************************)
(* The entries of a child, copied into its parent in the order in which a  *)
(* Go map yields them: of several with the same name, any may be the last. *)
(***************************************************************************)
Merged(es, child, base) ==
  {Assign(es, [t \in {Target(child[i], base) : i \in DOMAIN child} |->
                 [child[last[t]] EXCEPT !.comment = t]]) :
     last \in {f \in [{Target(child[i], base) : i \in DOMAIN child} -> DOMAIN child] :
                 \A t \in DOMAIN f : Target(child[f[t]], base) = t}}
=============================================================================
