----------------------------- MODULE ReportLog -----------------------------
(***************************************************************************)
(* What a HAR reporter promises to the code that hands it workflow cases:  *)
(* a case whose Report call succeeded is handled exactly once, cases are   *)
(* handled in the order in which they were accepted, and the reporter is   *)
(* finished (its wait group released) only when nothing accepted is left.  *)
(***************************************************************************)
EXTENDS Naturals, Sequences

CONSTANT Cases      \* the workflow cases that may be reported

VARIABLES accepted, \* the cases whose Report call returned nil, in order
          handled,  \* the cases the reporter has dealt with, in order
          phase     \* "created", "running", "finished"

logVars == <<accepted, handled, phase>>

Init == accepted = <<>> /\ handled = <<>> /\ phase = "created"

Begin == phase = "created" /\ phase' = "running" /\ UNCHANGED <<accepted, handled>>

Accept(c) ==
  /\ phase # "finished"
  /\ \A i \in 1..Len(accepted) : accepted[i] # c
  /\ accepted' = Append(accepted, c)
  /\ UNCHANGED <<handled, phase>>

Handle ==
  /\ phase = "running"
  /\ Len(handled) < Len(accepted)
  /\ handled' = Append(handled, accepted[Len(handled) + 1])
  /\ UNCHANGED <<accepted, phase>>

Finish ==
  /\ phase = "running"
  /\ Len(handled) = Len(accepted)
  /\ phase' = "finished"
  /\ UNCHANGED <<accepted, handled>>

Next == Begin \/ (\E c \in Cases : Accept(c)) \/ Handle \/ Finish

\* Once the reporter runs, what was accepted is eventually handled.
Spec == Init /\ [][Next]_logVars /\ WF_logVars(Handle)
=============================================================================
