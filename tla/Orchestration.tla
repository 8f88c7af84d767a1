--------------------------- MODULE Orchestration ---------------------------
(***************************************************************************)
(* The orchestration engine (executable/orchestration/orchestration.go and *)
(* the frame every activity shares, executable/executable.go): a           *)
(* configuration is turned into a graph of activities or refused; Execute  *)
(* walks the graph from its request activity, one activity at a time, and  *)
(* whoever called Execute then runs the activities of the boundary.        *)
(*                                                                         *)
(* What an activity does is its type's own.  Here it may be disabled, be   *)
(* refused because the deadline of the request would be exceeded, take     *)
(* time, fail, or succeed and leave any values in the variables that the   *)
(* constraints of the outgoing paths read.                                 *)
(***************************************************************************)
EXTENDS PathSelection, Sequences

CONSTANTS
  Activities,   \* names of activities
  NoActivity,   \* the empty name
  Configs,      \* the configurations considered
  Deadlines,    \* the request deadlines considered; 0 is "no deadline"
  MaxDuration,  \* bound: how long an activity takes
  Horizon       \* bound: times beyond it are not told apart

Types == {"request", "response", "task"}
Policies == {ExactlyOne, AtLeastOne}

(***************************************************************************)
(* names: the configured activities.  flagged: those with the boundary     *)
(* flag.  start: start-activity, possibly empty.  boundary: the list of    *)
(* the default boundary, whose names nobody has checked.                   *)
(***************************************************************************)
Paths == [source : Activities, target : Activities, guarded : BOOLEAN]
ConfigType ==
  [names : SUBSET Activities, type : [Activities -> Types], flagged : SUBSET Activities,
   paths : Seq(Paths), start : Activities \cup {NoActivity}, policy : Policies,
   boundary : Seq(Activities), estimate : [Activities -> Nat]]

ASSUME NoActivityAssumption == NoActivity \notin Activities
ASSUME ConfigsAssumption == \A c \in Configs : c \in ConfigType
ASSUME TimeAssumption ==
  /\ Deadlines \subseteq Nat /\ MaxDuration \in Nat /\ Horizon \in Nat
  /\ \A d \in Deadlines : d + MaxDuration < Horizon

VARIABLES
  cfg,        \* the configuration, whose StartActivity IsValid may fill in
  phase,      \* where the engine is
  current,    \* Execute's variable a
  verdicts,   \* what the constraints of the outgoing paths evaluate to
  timing,     \* wfc.RequestTiming
  deadline,   \* wfc.RequestDeadline
  outcome,    \* what Execute returned
  bndx,       \* activities of the boundary already executed
  bndErr      \* withError of ExecuteBoundary

vars == <<cfg, phase, current, verdicts, timing, deadline, outcome, bndx, bndErr>>
walk == <<current, verdicts, outcome>>
clock == <<timing, deadline>>
boundaryVars == <<bndx, bndErr>>

Phases == {"new", "rejected", "ready", "execute", "next", "boundary", "done", "panicked"}

Outputs(a) == {i \in 1..Len(cfg.paths) : cfg.paths[i].source = a}
Inputs(a) == {i \in 1..Len(cfg.paths) : cfg.paths[i].target = a}

Init ==
  /\ cfg \in Configs
  /\ phase = "new"
  /\ current = NoActivity
  /\ verdicts = <<>>
  /\ timing = 0
  /\ deadline \in Deadlines
  /\ outcome = "none"
  /\ bndx = 0
  /\ bndErr = FALSE

-----------------------------------------------------------------------------
\* NewOrchestration links the paths; a name it does not know ends it.
Dangling ==
  \E i \in 1..Len(cfg.paths) :
     cfg.paths[i].source \notin cfg.names \/ cfg.paths[i].target \notin cfg.names

\* Mutated ValidActivity: a boundary activity may have connections.
ValidActivityLinked(a) ==
  CASE cfg.type[a] = "request"  -> Outputs(a) # {} /\ Inputs(a) = {}
    [] cfg.type[a] = "response" -> Outputs(a) = {} /\ Inputs(a) # {}
    [] OTHER                    -> a \in cfg.flagged \/ (Outputs(a) # {} /\ Inputs(a) # {})

\* Mutated ValidActivity: only requests and responses are looked at.
ValidActivityEndsOnly(a) ==
  IF a \in cfg.flagged THEN Outputs(a) = {} /\ Inputs(a) = {}
  ELSE CASE cfg.type[a] = "request"  -> Outputs(a) # {} /\ Inputs(a) = {}
         [] cfg.type[a] = "response" -> Outputs(a) = {} /\ Inputs(a) # {}
         [] OTHER                    -> Inputs(a) # {}

\* Activity.IsValid.
ValidActivity(a) ==
  IF a \in cfg.flagged THEN Outputs(a) = {} /\ Inputs(a) = {}
  ELSE CASE cfg.type[a] = "request"  -> Outputs(a) # {} /\ Inputs(a) = {}
         [] cfg.type[a] = "response" -> Outputs(a) = {} /\ Inputs(a) # {}
         [] OTHER                    -> Outputs(a) # {} /\ Inputs(a) # {}

Requests == {a \in cfg.names : cfg.type[a] = "request"}

(***************************************************************************)
(* Orchestration.IsValid ranges over a Go map: of several request          *)
(* activities any one may come last and become sa.                         *)
(***************************************************************************)
ValidWith(sa) ==
  /\ ~Dangling
  /\ sa \in Requests
  /\ \A a \in cfg.names : ValidActivity(a)
  /\ cfg.start \in {NoActivity, sa}

Construct ==
  /\ phase = "new"
  /\ \E sa \in cfg.names : ValidWith(sa) /\ cfg' = [cfg EXCEPT !.start = sa]
  /\ phase' = "ready"
  /\ UNCHANGED <<walk, clock, boundaryVars>>

\* A dangling path, an invalid graph, an unlucky order of the map, or an
\* activity whose constructor fails.
Reject ==
  /\ phase = "new"
  /\ phase' = "rejected"
  /\ UNCHANGED <<cfg, walk, clock, boundaryVars>>

Begin ==
  /\ phase = "ready"
  /\ phase' = "execute"
  /\ current' = cfg.start
  /\ UNCHANGED <<cfg, verdicts, outcome, clock, boundaryVars>>

-----------------------------------------------------------------------------
\* Mutated Late: an activity without an estimate is not checked.
LateIfEstimated(a) ==
  deadline # 0 /\ cfg.estimate[a] # 0 /\ timing + cfg.estimate[a] > deadline

\* WfCaseDeadlineExceeded.
Late(a) == deadline # 0 /\ timing + cfg.estimate[a] > deadline

\* The deferred function adds the time the activity took, also when it fails.
Elapse ==
  \E d \in 0..MaxDuration :
     timing' = IF timing + d > Horizon THEN Horizon ELSE timing + d

\* Request and response activities ignore their Enabled expression.
MayBeDisabled(a) == cfg.type[a] = "task"

\* The values the activity leaves decide the constraints; an empty one is true.
Evaluated(truth) ==
  /\ truth \in [Outputs(current) -> Verdicts]
  /\ \A i \in Outputs(current) : ~cfg.paths[i].guarded => truth[i] = "true"

Return(result) ==
  /\ phase' = "boundary"
  /\ outcome' = result
  /\ verdicts' = <<>>
  /\ UNCHANGED current

Proceed ==
  /\ phase' = "next"
  /\ \E truth \in [Outputs(current) -> Verdicts] : Evaluated(truth) /\ verdicts' = truth
  /\ UNCHANGED <<current, outcome>>

ExecuteDisabled ==
  /\ phase = "execute"
  /\ MayBeDisabled(current)
  /\ Proceed
  /\ UNCHANGED <<cfg, clock, boundaryVars>>

ExecuteLate ==
  /\ phase = "execute"
  /\ Late(current)
  /\ Return("error")
  /\ UNCHANGED <<cfg, clock, boundaryVars>>

ExecuteOk ==
  /\ phase = "execute"
  /\ ~Late(current)
  /\ Elapse
  /\ Proceed
  /\ UNCHANGED <<cfg, deadline, boundaryVars>>

ExecuteFails ==
  /\ phase = "execute"
  /\ ~Late(current)
  /\ Elapse
  /\ Return("error")
  /\ UNCHANGED <<cfg, deadline, boundaryVars>>

\* Mutated Follow: the path is read backwards.
FollowSource(i) ==
  /\ phase' = "execute"
  /\ current' = cfg.paths[i].source
  /\ verdicts' = <<>>
  /\ UNCHANGED outcome

Follow(i) ==
  /\ phase' = "execute"
  /\ current' = cfg.paths[i].target
  /\ verdicts' = <<>>
  /\ UNCHANGED outcome

\* Next: no output ends the walk; otherwise one path is followed, or none can be.
Next_End ==
  /\ phase = "next"
  /\ Outputs(current) = {}
  /\ Return("ok")
  /\ UNCHANGED <<cfg, clock, boundaryVars>>

Next_Path ==
  /\ phase = "next"
  /\ \E i \in Outputs(current) :
        Select(Outputs(current), verdicts, cfg.policy) = i /\ Follow(i)
  /\ UNCHANGED <<cfg, clock, boundaryVars>>

Next_Error ==
  /\ phase = "next"
  /\ Outputs(current) # {}
  /\ Select(Outputs(current), verdicts, cfg.policy) \notin Outputs(current)
  /\ Return("error")
  /\ UNCHANGED <<cfg, clock, boundaryVars>>

-----------------------------------------------------------------------------
\* Mutated BoundaryStep: a disabled activity takes the next one with it.
BoundaryStepSkips(name) ==
  /\ name \in cfg.names
  /\ \/ MayBeDisabled(name) /\ bndx' = bndx + 2 /\ UNCHANGED <<timing, bndErr>>
     \/ Late(name) /\ bndx' = bndx + 1 /\ bndErr' = TRUE /\ UNCHANGED timing
     \/ ~Late(name) /\ bndx' = bndx + 1 /\ Elapse /\ bndErr' \in {bndErr, TRUE}
  /\ UNCHANGED phase

\* ExecuteBoundary: each activity of the list, whatever the others did.
BoundaryStep(name) ==
  /\ name \in cfg.names
  /\ bndx' = bndx + 1
  /\ \/ MayBeDisabled(name) /\ UNCHANGED <<timing, bndErr>>
     \/ Late(name) /\ bndErr' = TRUE /\ UNCHANGED timing
     \/ ~Late(name) /\ Elapse /\ bndErr' \in {bndErr, TRUE}
  /\ UNCHANGED phase

\* The executable of an unknown name is nil.
BoundaryPanic(name) ==
  /\ name \notin cfg.names
  /\ phase' = "panicked"
  /\ UNCHANGED <<timing, boundaryVars>>

Boundary ==
  /\ phase = "boundary"
  /\ bndx < Len(cfg.boundary)
  /\ LET name == cfg.boundary[bndx + 1]
     IN  BoundaryStep(name) \/ BoundaryPanic(name)
  /\ UNCHANGED <<cfg, walk, deadline>>

BoundaryEnd ==
  /\ phase = "boundary"
  /\ bndx = Len(cfg.boundary)
  /\ phase' = "done"
  /\ UNCHANGED <<cfg, walk, clock, boundaryVars>>

Next ==
  \/ Construct \/ Reject \/ Begin
  \/ ExecuteDisabled \/ ExecuteLate \/ ExecuteOk \/ ExecuteFails
  \/ Next_End \/ Next_Path \/ Next_Error
  \/ Boundary \/ BoundaryEnd

\* One goroutine runs the request, and nothing in it blocks for ever.
Spec == Init /\ [][Next]_vars /\ WF_vars(Next)

-----------------------------------------------------------------------------
Walking == phase \in {"execute", "next"}

TypeOK ==
  /\ cfg \in ConfigType
  /\ phase \in Phases
  /\ current \in Activities \cup {NoActivity}
  /\ IF phase = "next" THEN verdicts \in [Outputs(current) -> Verdicts] ELSE verdicts = <<>>
  /\ timing \in 0..Horizon
  /\ deadline \in Deadlines
  /\ outcome \in {"none", "ok", "error"}
  /\ bndx \in 0..Len(cfg.boundary)
  /\ bndErr \in BOOLEAN

\* No request activity carries the boundary flag, which nothing in the code checks.
RequestsUnflagged(c) == \A a \in c.flagged : c.type[a] # "request"

(***************************************************************************)
(* The callers of Execute turn the activity it ends on into a response     *)
(* activity and kill the process when it is not one (log.Fatal, "final     *)
(* activity is not a response activity").                                  *)
(***************************************************************************)
FinalIsResponse == outcome = "ok" => cfg.type[current] = "response"

\* The walk never runs an activity of the boundary, nor one that is not configured.
BoundaryOffPath == Walking => current \in cfg.names \ cfg.flagged

\* A request with a deadline exceeds it by less than one activity, even though
\* the walk, the failed activities and the boundary all add to the same timing.
OvershootBounded == deadline # 0 => timing =< deadline + MaxDuration

\* A followed path is one the policy allows, and a walk that fails for want of a
\* path had none (evalExpressionSetToBool against the meaning of the policies).
PathAllowed ==
  [][/\ phase = "next" /\ phase' = "execute" =>
          \E i \in Selectable(Outputs(current), verdicts, cfg.policy) :
             cfg.paths[i].target = current'
     /\ phase = "next" /\ outcome' = "error" =>
          Selectable(Outputs(current), verdicts, cfg.policy) = {}]_vars

\* Under at-least-one a default (empty) constraint gives way to a true guard.
DefaultYields ==
  [][phase = "next" /\ phase' = "execute" /\ cfg.policy = AtLeastOne =>
       \/ \E i \in Outputs(current) : cfg.paths[i].guarded /\ verdicts[i] = "true"
                                      /\ cfg.paths[i].target = current'
       \/ \A i \in Outputs(current) : cfg.paths[i].guarded => verdicts[i] # "true"]_vars

\* The paths lead forward along some ranking of the activities.
Acyclic ==
  \E rank \in [Activities -> 1..Cardinality(Activities)] :
     \A i \in 1..Len(cfg.paths) : rank[cfg.paths[i].source] < rank[cfg.paths[i].target]

\* Every request on a graph without cycles is answered and its boundary run.
AcyclicEnds == phase = "ready" /\ Acyclic ~> phase \in {"done", "panicked"}
=============================================================================
