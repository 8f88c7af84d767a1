-------------------------- MODULE MCOrchestration --------------------------
(***************************************************************************)
(* Instances of Orchestration: every graph of up to three paths over a     *)
(* request, two activities of any other type and a name that is not        *)
(* configured, and some larger graphs by hand.                             *)
(***************************************************************************)
EXTENDS Orchestration, SequencesExt

CONSTANTS rq, a1, a2, a3, none

Link(s, t, g) == [source |-> s, target |-> t, guarded |-> g]

Graph(names, type, flagged, paths, start, policy, boundary) ==
  [names |-> names, type |-> type, flagged |-> flagged, paths |-> paths,
   start |-> start, policy |-> policy, boundary |-> boundary,
   estimate |-> [a \in Activities |-> IF a = a1 THEN 1 ELSE 0]]

Pairs == {<<rq, a1>>, <<rq, a2>>, <<a1, a2>>, <<a1, a1>>, <<a2, a1>>, <<a1, rq>>, <<rq, a3>>}

\* In every order in which the paths may be listed, all guarded or all defaults.
PathLists ==
  {[i \in 1..Len(s) |-> Link(s[i][1], s[i][2], g)] :
     s \in UNION {SetToAllKPermutations(P) : P \in kSubset(3, Pairs)},
     g \in BOOLEAN}

TypeChoices ==
  {[a \in Activities |-> CASE a = rq -> "request" [] a = a1 -> t1 [] a = a2 -> t2
                           [] OTHER -> "task"] :
     t1 \in {"request", "task"}, t2 \in {"response", "task"}}

SmallGraphs ==
  {Graph({rq, a1, a2}, type, b[1], paths, start, policy, b[2]) :
     type \in TypeChoices, paths \in PathLists, start \in {none, rq}, policy \in Policies,
     b \in {<<{}, <<>>>>, <<{a1}, <<a1>>>>, <<{a1}, <<a1, a3>>>>}}

LargeTypes == [a \in Activities |-> CASE a = rq -> "request" [] a = a3 -> "response"
                                      [] OTHER -> "task"]

\* A diamond, with a loop back on one side, and with a default path listed first.
LargeGraphs ==
  {Graph(Activities, LargeTypes, {}, paths, rq, policy, <<>>) :
     policy \in Policies,
     paths \in {<<Link(rq, a1, TRUE), Link(rq, a2, TRUE), Link(a1, a3, TRUE), Link(a2, a3, FALSE)>>,
                <<Link(rq, a1, FALSE), Link(rq, a2, TRUE), Link(a1, a3, FALSE), Link(a2, a3, FALSE)>>,
                <<Link(rq, a1, FALSE), Link(a1, a2, TRUE), Link(a2, a1, TRUE),
                  Link(a1, a3, TRUE), Link(a2, a3, FALSE)>>}}

MCActivities == {rq, a1, a2, a3}
MCConfigs == {c \in SmallGraphs : RequestsUnflagged(c)} \cup LargeGraphs
MCDeadlines == {0, 2}

\* Another request activity, which carries the boundary flag.
BoundaryStart == {c \in SmallGraphs : ~RequestsUnflagged(c)}
=============================================================================
