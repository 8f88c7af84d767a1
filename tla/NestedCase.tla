----------------------------- MODULE NestedCase -----------------------------
(***************************************************************************)
(* The activities that run another orchestration: the nested orchestration *)
(* activity and the loop activity (executable/orchestration).  Each run is *)
(* a case of its own, a child, whose HAR entries end up in the parent's    *)
(* map under the name of the activity and the number of the run.           *)
(*                                                                         *)
(* One goroutine executes everything.  The orchestration of a child is the *)
(* subject of module Orchestration; here it leaves some entries, ends with *)
(* a response or an error, and runs the activities of its boundary.        *)
(***************************************************************************)
EXTENDS HarEntries

CONSTANTS
  NestedName,   \* the nested orchestration activity
  LoopName,     \* the loop activity
  LoopBody,     \* its name followed by "-body"
  PlainNames,   \* the other activities, of the parent and of the children
  Configs,      \* the configurations considered, each with its bounds
  MaxRuns       \* bound: children, over the whole case, whatever the configuration

AnyStatus == -1
Codes == {200, 400, 500}

\* vars: the action sets variables, which may fail.  error: its errors have a
\* guard, or one of them has none.
Action == [status : Codes \cup {AnyStatus}, vars : BOOLEAN,
           error : {"none", "guarded", "always"}]
ControlFlow == [start : Int, end : Int, step : Int, breaks : BOOLEAN]

\* steps, runs and size bound the activities the parent executes, the children,
\* and the entries of a child.
Config == [range : ControlFlow, actions : Seq(Action), steps : Nat, runs : 0..MaxRuns, size : Nat]

ASSUME ActivitiesAssumption ==
  /\ {NestedName, LoopName, LoopBody} \cup PlainNames \subseteq Names
  /\ LoopName \notin {LoopBody, NestedName}
ASSUME ConfigsAssumption == MaxRuns \in Nat /\ Configs \subseteq Config

VARIABLES
  cfg,        \* the control flow of the loop, and on-response of both activities
  pc,
  entries,    \* the parent's wfc.Entries
  outcome,    \* whether an activity of the parent has failed
  steps,      \* activities the parent has executed
  activity,   \* NestedName or LoopName: the activity in execution, or the last one
  current,    \* LoopControlFlow.current
  iterators,  \* history: the values of the loop variable, this time
  responses,  \* loopBodyResponses, each by its child
  child,      \* the child's wfc.Entries
  run,        \* how many children there have been
  before,     \* how many there had been when the activity began
  status,     \* st
  failed,     \* the child's orchestration, or its boundary, has failed
  created,    \* history: how many entries have been made
  ambiguous   \* history: some child made two entries that get the same name

vars == <<cfg, pc, entries, outcome, steps, activity, current, iterators,
          responses, child, run, before, status, failed, created, ambiguous>>
loop == <<current, iterators, responses>>
result == <<status, failed>>
history == <<created, ambiguous>>

Places == {"idle", "head", "body", "boundary", "merge", "respond"}

Init ==
  /\ cfg \in Configs
  /\ pc = "idle"
  /\ entries = SetResponse(SetRequest(NoEntries, RequestName, 0), RequestName, "json")
  /\ outcome = "ok" /\ steps = 0
  /\ activity = NestedName
  /\ current = 0 /\ iterators = <<>> /\ responses = <<>>
  /\ child = NoEntries /\ run = 0 /\ before = 0
  /\ status = 200 /\ failed = FALSE
  /\ created = 1 /\ ambiguous = FALSE

-----------------------------------------------------------------------------
\* Any other activity of the parent: request, then response, or an error in between.
Plain(name, resp) ==
  /\ pc = "idle" /\ steps < cfg.steps
  /\ steps' = steps + 1
  /\ entries' = SetResponse(SetRequest(entries, name, 0), name, resp)
  /\ created' = created + 1
  /\ outcome' = IF resp = "none" THEN "error" ELSE outcome
  /\ UNCHANGED <<cfg, pc, activity, loop, child, run, before, result, ambiguous>>

\* NewChild: a case with a request and no response yet.
NewChild ==
  /\ run < cfg.runs
  /\ run' = run + 1
  /\ child' = SetRequest(NoEntries, RequestName, run + 1)
  /\ created' = created + 1
  /\ pc' = "body"

\* The activity returns to the walk, or to the boundary, of the parent.
Leave(e) ==
  /\ pc' = "idle"
  /\ outcome' = IF e THEN "error" ELSE outcome

\* The deadline is over, or the context, the range or the child cannot be made.
BeginFails ==
  /\ pc = "idle" /\ steps < cfg.steps
  /\ steps' = steps + 1
  /\ outcome' = "error"
  /\ UNCHANGED <<cfg, pc, entries, activity, loop, child, run, before, result, history>>

BeginNested ==
  /\ pc = "idle" /\ steps < cfg.steps
  /\ steps' = steps + 1
  /\ activity' = NestedName
  /\ before' = run
  /\ NewChild
  /\ UNCHANGED <<cfg, entries, outcome, loop, result, ambiguous>>

\* The request of the loop is recorded; start is evaluated and never read.
BeginLoop ==
  /\ pc = "idle" /\ steps < cfg.steps
  /\ steps' = steps + 1
  /\ activity' = LoopName
  /\ before' = run
  /\ entries' = SetRequest(entries, LoopName, 0)
  /\ created' = created + 1
  /\ current' = 0 /\ iterators' = <<>> /\ responses' = <<>>
  /\ pc' = "head"
  /\ UNCHANGED <<cfg, outcome, child, run, result, ambiguous>>

-----------------------------------------------------------------------------
\* HasNext, but for the break condition: with a step that is not positive the
\* end is not looked at.
HasNext == IF cfg.range.step > 0 THEN current < cfg.range.end ELSE current >= 0

\* Mutated Advance: Next forgets the step.
AdvanceNot == current' = current

Advance == current' = IF cfg.range.step > 0 THEN current + cfg.range.step ELSE current - cfg.range.step

\* Next sets the loop variable and makes the input of the child.
LoopNext ==
  /\ pc = "head" /\ HasNext
  /\ iterators' = Append(iterators, current)
  /\ Advance
  /\ NewChild
  /\ UNCHANGED <<cfg, entries, outcome, steps, activity, responses, before, result,
                 ambiguous>>

\* The transformation, or NewChild, fails: the loop stays without a response.
LoopNextFails ==
  /\ pc = "head" /\ HasNext /\ run < cfg.runs
  /\ Leave(TRUE)
  /\ UNCHANGED <<cfg, entries, steps, activity, loop, child, run, before, result,
                 history>>

\* The responses collected are the response of the loop.
LoopEnd ==
  /\ pc = "head"
  /\ ~HasNext \/ cfg.range.breaks
  /\ entries' = SetResponse(entries, LoopName, "json")
  /\ Leave(FALSE)
  /\ UNCHANGED <<cfg, steps, activity, loop, child, run, before, result, history>>

-----------------------------------------------------------------------------
\* Activities of the child, on its path or on its boundary.
ChildRuns(n) ==
  /\ pc \in {"body", "boundary"}
  /\ Cardinality(DOMAIN child) + n =< cfg.size
  /\ created' = created + n
  /\ UNCHANGED <<cfg, pc, entries, outcome, steps, activity, loop, run, before, result>>

ChildActivity(name, resp) ==
  /\ ChildRuns(1)
  /\ child' = SetResponse(SetRequest(child, name, run), name, resp)
  /\ ambiguous' = (ambiguous \/ name \in RequestLike)

\* The cache activity: twice in a child, its entries have the same comment.
ChildCached(name, resp) ==
  /\ ChildRuns(1)
  /\ child' = SetEntry(child, name, resp, run)
  /\ ambiguous' = (ambiguous \/ name \in RequestLike \/ Used(child, name, 0))

\* A nested orchestration activity of the child, and an activity of that one.
ChildNested(name) ==
  /\ ChildRuns(2)
  /\ LET base == Id(NestedName, FirstAvailable(child, NestedName))
         new(id) == [comment |-> id, resp |-> "json", by |-> run]
     IN  child' = Assign(child, [i \in {base, base \o Id(name, 0)} |-> new(i)])
  /\ ambiguous' = (ambiguous \/ NestedName \in RequestLike)

\* The orchestration ends on a response activity, whose response is the child's.
ChildResponds(st, resp) ==
  /\ pc = "body"
  /\ child' = SetResponse(child, RequestName, resp)
  /\ status' = IF activity = LoopName THEN 200 ELSE st
  /\ failed' = FALSE
  /\ pc' = "boundary"
  /\ UNCHANGED <<cfg, entries, outcome, steps, activity, loop, run, before, history>>

\* Mutated ChildFails: no response is made for the error.
ChildFailsUnanswered(st) ==
  /\ pc = "body"
  /\ status' = st /\ failed' = TRUE
  /\ pc' = "boundary"
  /\ UNCHANGED <<cfg, entries, outcome, steps, activity, loop, child, run, before,
                 history>>

\* It fails: the error, as JSON, is the response.
ChildFails(st) ==
  /\ pc = "body"
  /\ child' = SetResponse(child, RequestName, "json")
  /\ status' = st /\ failed' = TRUE
  /\ pc' = "boundary"
  /\ UNCHANGED <<cfg, entries, outcome, steps, activity, loop, run, before, history>>

\* Mutated BoundaryEnds: "boundary errors" has no status code of its own.
BoundaryEndsNoStatus(e) ==
  /\ pc = "boundary"
  /\ failed' = (failed \/ e)
  /\ status' = IF e /\ ~failed THEN 0 ELSE status
  /\ pc' = "merge"
  /\ UNCHANGED <<cfg, entries, outcome, steps, activity, loop, child, run, before,
                 history>>

\* An error of the boundary makes the run a failure; the first error decides.
BoundaryEnds(e) ==
  /\ pc = "boundary"
  /\ failed' = (failed \/ e)
  /\ status' = IF e /\ ~failed THEN 500 ELSE status
  /\ pc' = "merge"
  /\ UNCHANGED <<cfg, entries, outcome, steps, activity, loop, child, run, before,
                 history>>

-----------------------------------------------------------------------------
BaseName == IF activity = LoopName THEN LoopBody ELSE NestedName
Base == Id(BaseName, FirstAvailable(entries, BaseName))
JsonRequests(es) == {i \in DOMAIN es : IsRequest(es[i]) /\ es[i].resp = "json"}

\* Mutated Collect: the text responses are collected too.
CollectAny ==
  responses' = IF activity # LoopName THEN responses
               ELSE responses \o [k \in 1..Cardinality({i \in DOMAIN child : IsRequest(child[i])})
                                    |-> run]

\* The loop collects the JSON responses of its children.
Collect ==
  responses' = IF activity # LoopName THEN responses
               ELSE responses \o [k \in 1..Cardinality(JsonRequests(child)) |-> run]

Merge ==
  /\ pc = "merge"
  /\ entries' \in Merged(entries, child, Base)
  /\ Collect
  /\ child' = NoEntries
  /\ pc' = "respond"
  /\ UNCHANGED <<cfg, outcome, steps, activity, current, iterators, run, before, result,
                 history>>

Matching(st) == {i \in 1..Len(cfg.actions) : cfg.actions[i].status = st}

\* Mutated FindByStatusCode: a default listed before the match wins.
FindByStatusCodeFirst(st) ==
  LET M == Matching(st) \cup Matching(AnyStatus)
  IN  IF M = {} THEN 0 ELSE CHOOSE i \in M : \A j \in M : i =< j

\* FindByStatusCode: the first action of that status, or the last default.
FindByStatusCode(st) ==
  CASE Matching(st) # {} -> CHOOSE i \in Matching(st) : \A j \in Matching(st) : i =< j
    [] Matching(st) = {} /\ Matching(AnyStatus) # {} ->
         CHOOSE i \in Matching(AnyStatus) : \A j \in Matching(AnyStatus) : j =< i
    [] OTHER -> 0

(***************************************************************************)
(* ProcessResponseActionByStatusCode returns an error when the variables   *)
(* cannot be set, or one of the errors of the action applies.  Without an  *)
(* action for the status the failure of the child is forgotten.            *)
(***************************************************************************)
MayReturnError(i) == i # 0 /\ (cfg.actions[i].vars \/ cfg.actions[i].error # "none")
MayReturnNil(i) == i # 0 => cfg.actions[i].error # "always"

RespondNil ==
  /\ pc = "respond"
  /\ MayReturnNil(FindByStatusCode(status))
  /\ IF activity = LoopName THEN pc' = "head" /\ UNCHANGED outcome ELSE Leave(FALSE)
  /\ UNCHANGED <<cfg, entries, steps, activity, loop, child, run, before, result, history>>

\* The loop ends, its response is the error and what it has collected is dropped.
RespondError ==
  /\ pc = "respond"
  /\ MayReturnError(FindByStatusCode(status))
  /\ entries' = IF activity = LoopName THEN SetResponse(entries, LoopName, "text") ELSE entries
  /\ Leave(TRUE)
  /\ UNCHANGED <<cfg, steps, activity, loop, child, run, before, result, history>>

ChildStep ==
  \/ \E st \in Codes, resp \in {"json", "text"} : ChildResponds(st, resp)
  \/ \E st \in Codes \ {200} : ChildFails(st)
  \/ \E name \in PlainNames, resp \in Answers : ChildActivity(name, resp)
  \/ \E name \in PlainNames : ChildCached(name, "json") \/ ChildNested(name)
  \/ \E e \in BOOLEAN : BoundaryEnds(e)

Next ==
  \/ \E name \in PlainNames, resp \in Answers : Plain(name, resp)
  \/ BeginFails \/ BeginNested \/ BeginLoop
  \/ LoopNext \/ LoopNextFails \/ LoopEnd
  \/ ChildStep
  \/ Merge \/ RespondNil \/ RespondError

\* The goroutine runs; nothing an orchestration does blocks it for ever.
Spec == Init /\ [][Next]_vars /\ WF_vars(Next)

-----------------------------------------------------------------------------
TypeOK ==
  /\ cfg \in Configs
  /\ pc \in Places
  /\ IsEntries(entries) /\ IsEntries(child)
  /\ outcome \in {"ok", "error"}
  /\ steps \in 0..cfg.steps
  /\ activity \in {NestedName, LoopName}
  /\ current \in Int /\ iterators \in Seq(Int) /\ responses \in Seq(0..MaxRuns)
  /\ run \in 0..MaxRuns /\ before \in 0..run
  /\ status \in Codes /\ failed \in BOOLEAN
  /\ created \in Nat /\ ambiguous \in BOOLEAN

Kept ==
  \A i \in DOMAIN entries :
    /\ i \in DOMAIN entries'
    /\ entries'[i].by = entries[i].by
    /\ entries[i].resp # "none" => entries'[i].resp = entries[i].resp

\* What a case has recorded stays: no later run, of whatever activity in whatever
\* order, takes the place of an entry or changes a response.
RecordStays == [][Kept]_vars

\* Every entry a child has made reaches the parent, unless an activity of a child
\* is called request..., or a cache activity runs twice in one.
NothingLost ==
  ~ambiguous => Cardinality(DOMAIN entries) + Cardinality(DOMAIN child) = created

\* The response of the loop has one element for each of its children that was
\* answered in JSON, a failed one included, in the order in which they ran.
ResponsesInOrder ==
  activity = LoopName /\ pc \in {"head", "respond"} /\ ~ambiguous =>
    /\ \A i, j \in 1..Len(responses) : i < j => responses[i] < responses[j]
    /\ {responses[i] : i \in 1..Len(responses)} =
         {r \in (before + 1)..run :
            \E i \in DOMAIN entries : /\ Len(i) = 1 /\ i[1][1] = LoopBody
                                      /\ entries[i].by = r /\ entries[i].resp = "json"}

\* While no activity has failed, an activity that is over has a response, which
\* the expressions of later ones read without asking; again unless an activity of
\* a child is called request..., which can hide the child's own answer.
Answered ==
  outcome = "ok" /\ pc = "idle" /\ ~ambiguous =>
    \A i \in DOMAIN entries : Len(i) = 1 => entries[i].resp # "none"

\* A failure for which on-response has one action, with an error that has no
\* guard, ends the activity with an error, whatever else the list holds.
ConfiguredErrorSurfaces ==
  [][pc = "respond" /\ (\E i \in Matching(status) :
                          Matching(status) = {i} /\ cfg.actions[i].error = "always") =>
       outcome' = "error"]_vars

\* A loop that counts upwards comes to its end.
LoopEnds == pc = "head" /\ cfg.range.step > 0 ~> pc = "idle"

\* The definition of a loop has a start, an end and a step: the loop variable goes
\* from start towards end, and does not reach it.
IteratorInRange ==
  \A i \in 1..Len(iterators) :
    /\ iterators[i] = cfg.range.start + (i - 1) * cfg.range.step
    /\ cfg.range.step > 0 => iterators[i] < cfg.range.end
    /\ cfg.range.step < 0 => iterators[i] > cfg.range.end
=============================================================================
