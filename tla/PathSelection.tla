--------------------------- MODULE PathSelection ---------------------------
(***************************************************************************)
(* The choice among the outgoing paths of an activity                      *)
(* (wfexpressions/vars.go, evalExpressionSetToBool): the constraints are   *)
(* evaluated in the order of the paths, under one of two policies.         *)
(*                                                                         *)
(* The paths are the numbers of a finite set S, in increasing order, and   *)
(* truth[i] is what the constraint of path i evaluates to.                 *)
(***************************************************************************)
EXTENDS Integers, FiniteSets, FiniteSetsExt, Folds

ExactlyOne == "exactly-one"
AtLeastOne == "at-least-one"
Verdicts == {"true", "false", "error"}

\* Mutated Turn: in exactly-one mode a later true constraint wins.
TurnLastWins(truth, mode, s, i) ==
  IF s.status # "scan" \/ truth[i] = "false" THEN s
  ELSE IF truth[i] = "error" THEN [s EXCEPT !.status = "failed"]
  ELSE [found |-> i, status |-> IF mode = AtLeastOne THEN "returned" ELSE "scan"]

\* One turn of the loop; found = 0 is foundNdx < 0.
Turn(truth, mode, s, i) ==
  IF s.status # "scan" \/ truth[i] = "false" THEN s
  ELSE IF truth[i] = "error" \/ (mode # AtLeastOne /\ s.found # 0)
    THEN [s EXCEPT !.status = "failed"]
  ELSE [found |-> i, status |-> IF mode = AtLeastOne THEN "returned" ELSE "scan"]

\* The loop over the constraints, in increasing order of the paths.
Scan(S, truth, mode) ==
  MapThenFoldSet(LAMBDA i, s : Turn(truth, mode, s, i),
                 [found |-> 0, status |-> "scan"],
                 LAMBDA i : i, LAMBDA T : Max(T), S)

\* The path selected, or 0 for the two errors (violated mode, nothing true).
Select(S, truth, mode) ==
  IF Scan(S, truth, mode).status = "failed" THEN 0 ELSE Scan(S, truth, mode).found

\* What the policies mean: the paths that may be followed.
Selectable(S, truth, mode) ==
  IF mode = AtLeastOne
    THEN {i \in S : truth[i] = "true" /\ \A j \in S : j < i => truth[j] = "false"}
    ELSE {i \in S : truth[i] = "true" /\ \A j \in S \ {i} : truth[j] = "false"}
=============================================================================
