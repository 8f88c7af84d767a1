------------------------ MODULE OrchestrationProofs ------------------------
(***************************************************************************)
(* Proofs about the engine, for every set of configurations, every graph,  *)
(* every deadline and every outcome of the activities.                     *)
(***************************************************************************)
EXTENDS Orchestration, FiniteSetTheorems, TLAPS

\* No configuration flags a request activity; nothing in the code checks it.
RequestsWalk == \A c \in Configs : RequestsUnflagged(c)

\* What NewOrchestration has established once the engine is past it.
GraphInv ==
  phase \notin {"new", "rejected"} =>
    /\ ~Dangling
    /\ \A a \in cfg.names : ValidActivity(a)
    /\ cfg.start \in cfg.names /\ cfg.type[cfg.start] = "request"

FlagInv == RequestsWalk => RequestsUnflagged(cfg)

\* Configured, and off the boundary when the requests are.
OnPath(a) == a \in cfg.names /\ (RequestsWalk => a \notin cfg.flagged)

\* Where the walk is, and where it ended.
WalkInv ==
  /\ Walking => OnPath(current)
  /\ phase \in {"new", "rejected", "ready", "execute", "next"} => outcome = "none"
  /\ outcome = "ok" => OnPath(current) /\ Outputs(current) = {}

EngineInv == TypeOK /\ FlagInv /\ GraphInv /\ WalkInv

LEMMA InitEngineInv ==
  ASSUME Init
  PROVE  EngineInv
<1> USE DEF Init
<1>1. cfg \in ConfigType /\ FlagInv
  BY ConfigsAssumption DEF FlagInv, RequestsWalk
<1>2. Len(cfg.boundary) \in Nat
  BY <1>1 DEF ConfigType
<1>3. bndErr \in BOOLEAN
  OBVIOUS
<1>4. TypeOK
  BY <1>1, <1>2, <1>3, TimeAssumption DEF TypeOK, Phases
<1>5. GraphInv /\ WalkInv
  BY DEF GraphInv, WalkInv, Walking
<1> QED
  BY <1>1, <1>4, <1>5 DEF EngineInv

-----------------------------------------------------------------------------
\* The graph a step works on is the graph it leaves.
LEMMA SameGraph ==
  ASSUME cfg' = cfg
  PROVE  /\ Outputs(current)' = {i \in 1..Len(cfg.paths) : cfg.paths[i].source = current'}
         /\ Dangling' = Dangling
         /\ \A a : ValidActivity(a)' = ValidActivity(a)
         /\ FlagInv' = FlagInv
         /\ \A a : OnPath(a)' = OnPath(a)
BY DEF Outputs, Inputs, Dangling, ValidActivity, FlagInv, RequestsUnflagged, OnPath

\* The target of a path is configured and is not on the boundary.
LEMMA TargetOnGraph ==
  ASSUME EngineInv, Walking, NEW i \in 1..Len(cfg.paths)
  PROVE  cfg.paths[i].target \in cfg.names \ cfg.flagged
<1>1. ~Dangling /\ \A a \in cfg.names : ValidActivity(a)
  BY DEF EngineInv, GraphInv, Walking
<1>2. cfg.paths[i].target \in cfg.names
  BY <1>1 DEF Dangling
<1>3. i \in Inputs(cfg.paths[i].target)
  BY DEF Inputs
<1> QED
  BY <1>1, <1>2, <1>3 DEF ValidActivity

\* NewOrchestration leaves a graph in which every activity is valid.
LEMMA ConstructStep ==
  ASSUME EngineInv, Construct
  PROVE  EngineInv'
<1> USE DEF Construct, walk, clock, boundaryVars
<1>1. PICK sa \in cfg.names : ValidWith(sa) /\ cfg' = [cfg EXCEPT !.start = sa]
  OBVIOUS
<1>2. cfg \in ConfigType
  BY DEF EngineInv, TypeOK
<1>3. /\ cfg' \in ConfigType
      /\ cfg'.names = cfg.names /\ cfg'.type = cfg.type /\ cfg'.flagged = cfg.flagged
      /\ cfg'.paths = cfg.paths /\ cfg'.boundary = cfg.boundary /\ cfg'.start = sa
  BY <1>1, <1>2 DEF ConfigType
<1>4. TypeOK'
  BY <1>3 DEF EngineInv, TypeOK, Phases
<1>5. FlagInv'
  BY <1>3 DEF EngineInv, FlagInv, RequestsUnflagged
<1>6. GraphInv'
  BY <1>1, <1>3 DEF GraphInv, ValidWith, Requests, ValidActivity, Dangling, Outputs, Inputs
<1>7. WalkInv'
  BY DEF EngineInv, WalkInv, Walking
<1> QED
  BY <1>4, <1>5, <1>6, <1>7 DEF EngineInv

\* The steps that only leave the walk, or have not begun it.
LEMMA ReturnStep ==
  ASSUME EngineInv, cfg' = cfg, Walking,
         NEW result \in {"ok", "error"}, Return(result),
         result = "ok" => Outputs(current) = {},
         timing' \in 0..Horizon, UNCHANGED <<deadline, boundaryVars>>
  PROVE  EngineInv'
<1> USE DEF Return, boundaryVars
<1>1. TypeOK'
  BY DEF EngineInv, TypeOK, Phases
<1>2. GraphInv' /\ FlagInv'
  BY SameGraph DEF EngineInv, GraphInv, Walking
<1>3. WalkInv'
  BY SameGraph DEF EngineInv, WalkInv, Walking, Outputs
<1> QED
  BY <1>1, <1>2, <1>3 DEF EngineInv

LEMMA ProceedStep ==
  ASSUME EngineInv, cfg' = cfg, phase = "execute", Proceed,
         timing' \in 0..Horizon, UNCHANGED <<deadline, boundaryVars>>
  PROVE  EngineInv'
<1> USE DEF Proceed, boundaryVars
<1>1. TypeOK'
  <2>1. verdicts' \in [Outputs(current) -> Verdicts] /\ Outputs(current)' = Outputs(current)
    BY DEF Outputs
  <2> QED
    BY <2>1 DEF EngineInv, TypeOK, Phases
<1>2. GraphInv' /\ FlagInv'
  BY SameGraph DEF EngineInv, GraphInv
<1>3. WalkInv'
  BY SameGraph DEF EngineInv, WalkInv, Walking
<1> QED
  BY <1>1, <1>2, <1>3 DEF EngineInv

\* Adding the time of an activity keeps the timing within its bound.
LEMMA ElapseType ==
  ASSUME timing \in 0..Horizon, Elapse
  PROVE  timing' \in 0..Horizon
BY TimeAssumption DEF Elapse

LEMMA EngineStep ==
  ASSUME EngineInv, [Next]_vars
  PROVE  EngineInv'
<1> USE DEF walk, clock, boundaryVars
<1>1. TypeOK
  BY DEF EngineInv
<1>2. CASE Construct
  BY <1>2, ConstructStep
<1>3. CASE Reject
  <2>1. TypeOK' /\ GraphInv'
    BY <1>1, <1>3 DEF Reject, TypeOK, Phases, GraphInv
  <2> QED
    BY <1>3, <2>1, SameGraph DEF Reject, EngineInv, WalkInv, Walking, Outputs
<1>4. CASE Begin
  <2>1. OnPath(current)'
    BY <1>4 DEF Begin, EngineInv, GraphInv, FlagInv, RequestsUnflagged, OnPath
  <2>2. current' \in Activities
    BY <1>1, <1>4, <2>1 DEF Begin, OnPath, TypeOK, ConfigType
  <2>3. TypeOK'
    BY <1>1, <1>4, <2>2 DEF Begin, TypeOK, Phases
  <2>4. GraphInv' /\ FlagInv'
    BY <1>4, SameGraph DEF Begin, EngineInv, GraphInv
  <2>5. WalkInv'
    BY <1>4, <2>1 DEF Begin, EngineInv, WalkInv, Walking
  <2> QED
    BY <2>3, <2>4, <2>5 DEF EngineInv
<1>5. CASE ExecuteDisabled
  BY <1>1, <1>5, ProceedStep DEF ExecuteDisabled, TypeOK
<1>6. CASE ExecuteLate
  BY <1>1, <1>6, ReturnStep DEF ExecuteLate, TypeOK, Walking
<1>7. CASE ExecuteOk
  BY <1>1, <1>7, ProceedStep, ElapseType DEF ExecuteOk, TypeOK
<1>8. CASE ExecuteFails
  BY <1>1, <1>8, ReturnStep, ElapseType DEF ExecuteFails, TypeOK, Walking
<1>9. CASE Next_End
  BY <1>1, <1>9, ReturnStep DEF Next_End, TypeOK, Walking
<1>10. CASE Next_Error
  BY <1>1, <1>10, ReturnStep DEF Next_Error, TypeOK, Walking
<1>11. CASE Next_Path
  <2>1. PICK i \in Outputs(current) : Follow(i)
    BY <1>11 DEF Next_Path
  <2>2. i \in 1..Len(cfg.paths) /\ Walking
    BY <1>11, <2>1 DEF Next_Path, Outputs, Walking
  <2>3. OnPath(current)'
    BY <1>11, <2>1, <2>2, TargetOnGraph DEF Next_Path, Follow, OnPath
  <2>4. current' \in Activities
    BY <1>1, <1>11, <2>3 DEF Next_Path, OnPath, TypeOK, ConfigType
  <2>5. TypeOK'
    BY <1>1, <1>11, <2>1, <2>4 DEF Next_Path, Follow, TypeOK, Phases
  <2>6. GraphInv' /\ FlagInv'
    BY <1>11, <2>2, SameGraph DEF Next_Path, EngineInv, GraphInv, Walking
  <2>7. WalkInv'
    BY <1>11, <2>1, <2>3 DEF Next_Path, Follow, EngineInv, WalkInv, Walking
  <2> QED
    BY <2>5, <2>6, <2>7 DEF EngineInv
<1>12. CASE Boundary
  <2>1. PICK name : BoundaryStep(name) \/ BoundaryPanic(name)
    BY <1>12 DEF Boundary
  <2>2. phase = "boundary" /\ phase' \in {"boundary", "panicked"} /\ UNCHANGED <<cfg, walk, deadline>>
    BY <1>12, <2>1 DEF Boundary, BoundaryStep, BoundaryPanic
  <2>3. timing' \in 0..Horizon
    BY <1>1, <2>1, ElapseType DEF BoundaryStep, BoundaryPanic, TypeOK
  <2>4. bndx' \in 0..Len(cfg.boundary)
    <3>1. Len(cfg.boundary) \in Nat
      BY <1>1 DEF TypeOK, ConfigType
    <3>2. bndx' \in {bndx, bndx + 1}
      BY <2>1 DEF BoundaryStep, BoundaryPanic
    <3>3. bndx < Len(cfg.boundary) /\ bndx \in 0..Len(cfg.boundary)
      BY <1>1, <1>12 DEF Boundary, TypeOK
    <3> QED
      BY <3>1, <3>2, <3>3
  <2>5. bndErr' \in BOOLEAN
    BY <1>1, <2>1 DEF BoundaryStep, BoundaryPanic, TypeOK
  <2>6. TypeOK'
    BY <1>1, <2>2, <2>3, <2>4, <2>5 DEF TypeOK, Phases
  <2>7. GraphInv' /\ FlagInv'
    BY <2>2, SameGraph DEF EngineInv, GraphInv
  <2>8. WalkInv'
    BY <2>2, SameGraph DEF EngineInv, WalkInv, Walking, Outputs
  <2> QED
    BY <2>6, <2>7, <2>8 DEF EngineInv
<1>13. CASE BoundaryEnd
  <2>1. TypeOK'
    BY <1>1, <1>13 DEF BoundaryEnd, TypeOK, Phases
  <2>2. GraphInv' /\ FlagInv' /\ WalkInv'
    BY <1>13, SameGraph DEF BoundaryEnd, EngineInv, GraphInv, WalkInv, Walking, Outputs
  <2> QED
    BY <2>1, <2>2 DEF EngineInv
<1>14. CASE UNCHANGED vars
  <2>1. TypeOK'
    BY <1>1, <1>14 DEF vars, TypeOK, Outputs
  <2>2. GraphInv' /\ FlagInv' /\ WalkInv'
    BY <1>14, SameGraph DEF vars, EngineInv, GraphInv, WalkInv, Walking, Outputs
  <2> QED
    BY <2>1, <2>2 DEF EngineInv
<1> QED
  BY <1>2, <1>3, <1>4, <1>5, <1>6, <1>7, <1>8, <1>9, <1>10, <1>11, <1>12, <1>13, <1>14 DEF Next

\* The graph, the walk and the types, in every reachable state.
THEOREM EngineInvariant == Spec => []EngineInv
<1>1. Init => EngineInv
  BY InitEngineInv
<1>2. EngineInv /\ [Next]_vars => EngineInv'
  BY EngineStep
<1> QED
  BY <1>1, <1>2, PTL DEF Spec

(***************************************************************************)
(* The walk ends well only on a response activity: the log.Fatal of the    *)
(* callers of Execute is unreachable when no request activity carries the  *)
(* boundary flag.                                                          *)
(***************************************************************************)
THEOREM EndsOnResponse == RequestsWalk => (Spec => []FinalIsResponse)
<1> SUFFICES ASSUME RequestsWalk PROVE Spec => []FinalIsResponse
  OBVIOUS
<1>1. ASSUME EngineInv PROVE FinalIsResponse
  <2> SUFFICES ASSUME outcome = "ok" PROVE cfg.type[current] = "response"
    BY DEF FinalIsResponse
  <2>1. current \in cfg.names /\ current \notin cfg.flagged /\ Outputs(current) = {}
    BY <1>1 DEF EngineInv, WalkInv, OnPath
  <2>2. ValidActivity(current)
    BY <1>1, <2>1 DEF EngineInv, GraphInv, WalkInv, Walking
  <2>3. cfg.type[current] \in Types
    BY <1>1, <2>1 DEF EngineInv, TypeOK, ConfigType
  <2> QED
    BY <2>1, <2>2, <2>3 DEF ValidActivity, Types
<1> QED
  BY <1>1, EngineInvariant, PTL

\* The walk stays on configured activities without the boundary flag.
THEOREM StaysOffBoundary == RequestsWalk => (Spec => []BoundaryOffPath)
<1> SUFFICES ASSUME RequestsWalk PROVE Spec => []BoundaryOffPath
  OBVIOUS
<1>1. EngineInv => BoundaryOffPath
  BY DEF EngineInv, WalkInv, OnPath, BoundaryOffPath
<1> QED
  BY <1>1, EngineInvariant, PTL

\* The type invariant.
THEOREM TypeCorrect == Spec => []TypeOK
<1>1. EngineInv => TypeOK
  BY DEF EngineInv
<1> QED
  BY <1>1, EngineInvariant, PTL

\* The deadline is exceeded by less than the duration of one activity.
THEOREM BoundedOvershoot == Spec => []OvershootBounded
<1>1. Init => OvershootBounded
  BY TimeAssumption DEF Init, OvershootBounded
<1>2. ASSUME EngineInv, OvershootBounded, [Next]_vars PROVE OvershootBounded'
  <2>1. TypeOK
    BY <1>2 DEF EngineInv
  <2>2. deadline' = deadline /\ deadline \in Nat /\ timing \in Nat
    BY <1>2, <2>1, TimeAssumption
       DEF TypeOK, Next, vars, clock, Construct, Reject, Begin, ExecuteDisabled, ExecuteLate,
           ExecuteOk, ExecuteFails, Next_End, Next_Path, Next_Error, Boundary, BoundaryEnd
  <2>3. ASSUME NEW a \in Activities, ~Late(a), Elapse PROVE OvershootBounded'
    <3>1. cfg.estimate[a] \in Nat
      BY <2>1, <2>3 DEF TypeOK, ConfigType
    <3> QED
      BY <2>2, <2>3, <3>1, TimeAssumption DEF Late, Elapse, OvershootBounded
  <2>4. CASE timing' = timing
    BY <1>2, <2>2, <2>4 DEF OvershootBounded
  <2>5. CASE ExecuteOk \/ ExecuteFails
    <3>1. current \in Activities
      BY <1>2, <2>1, <2>5 DEF ExecuteOk, ExecuteFails, EngineInv, WalkInv, OnPath, Walking, TypeOK, ConfigType
    <3> QED
      BY <2>3, <2>5, <3>1 DEF ExecuteOk, ExecuteFails
  <2>6. CASE Boundary
    <3>1. PICK name : name = cfg.boundary[bndx + 1] /\ (BoundaryStep(name) \/ BoundaryPanic(name))
      BY <2>6 DEF Boundary
    <3>2. name \in Activities
      BY <2>1, <2>6, <3>1 DEF Boundary, TypeOK, ConfigType
    <3> QED
      BY <2>3, <2>4, <3>1, <3>2 DEF BoundaryStep, BoundaryPanic
  <2> QED
    BY <1>2, <2>4, <2>5, <2>6
       DEF Next, vars, clock, Construct, Reject, Begin, ExecuteDisabled, ExecuteLate,
           Next_End, Next_Path, Next_Error, BoundaryEnd
<1> QED
  BY <1>1, <1>2, EngineInvariant, PTL DEF Spec

-----------------------------------------------------------------------------
(***************************************************************************)
(* The choice of a path.  The loop over the constraints is a fold; what it *)
(* computes is First and Chosen below, by induction over the finite sets   *)
(* of paths: a set of them that is not empty has a smallest member.        *)
(***************************************************************************)
LEMMA SmallestSubset ==
  ASSUME NEW S, IsFiniteSet(S), NEW B, B \subseteq SUBSET S, B # {}
  PROVE  \E T \in B : \A U \in B : U \subseteq T => U = T
<1>1. IsWellFoundedOn(StrictSubsetOrdering(S), SUBSET S)
  BY FS_StrictSubsetOrderingWellFounded, FS_FiniteSubsetsOfFinite
<1>2. PICK T \in B : \A U \in B : ~ (<<U, T>> \in StrictSubsetOrdering(S))
  BY <1>1, WFMin
<1>3. ASSUME NEW U \in B, U \subseteq T PROVE U = T
  BY <1>2, <1>3 DEF StrictSubsetOrdering
<1> QED
  BY <1>3

\* A finite set of numbers has a greatest and a least one.
LEMMA Extremes ==
  ASSUME NEW n \in Nat, NEW S \in SUBSET (1..n), S # {}
  PROVE  /\ Max(S) \in S /\ \A y \in S : Max(S) >= y
         /\ \E x \in S : \A y \in S : x =< y
<1>1. IsFiniteSet(1..n)
  BY FS_Interval
<1> DEFINE Bad == {T \in SUBSET (1..n) : T # {} /\ ~ \E x \in T : \A y \in T : x >= y}
           Worse == {T \in SUBSET (1..n) : T # {} /\ ~ \E x \in T : \A y \in T : x =< y}
<1>2. Bad = {}
  <2> SUFFICES ASSUME Bad # {} PROVE FALSE
    OBVIOUS
  <2>1. PICK T \in Bad : \A U \in Bad : U \subseteq T => U = T
    <3> DEFINE N == 1..n
    <3>1. IsFiniteSet(N) /\ Bad \subseteq SUBSET N
      BY <1>1
    <3> HIDE DEF N, Bad, Worse
    <3> QED
      BY <3>1, SmallestSubset
  <2>2. PICK z \in T : TRUE
    OBVIOUS
  <2>3. T \ {z} \notin Bad
    BY <2>1, <2>2
  <2>4. CASE T \ {z} = {}
    BY <2>2, <2>4
  <2>5. CASE T \ {z} # {}
    <3>1. PICK x \in T \ {z} : \A y \in T \ {z} : x >= y
      BY <2>3, <2>5
    <3>2. x \in 1..n /\ z \in 1..n
      BY <2>2, <3>1
    <3>3. CASE x >= z
      BY <3>1, <3>3
    <3>4. CASE z >= x
      <4>1. \A y \in T : z >= y
        BY <3>1, <3>2, <3>4
      <4> QED
        BY <2>2, <4>1
    <3> QED
      BY <3>2, <3>3, <3>4
  <2> QED
    BY <2>4, <2>5
<1>3. Worse = {}
  <2> SUFFICES ASSUME Worse # {} PROVE FALSE
    OBVIOUS
  <2>1. PICK T \in Worse : \A U \in Worse : U \subseteq T => U = T
    <3> DEFINE N == 1..n
    <3>1. IsFiniteSet(N) /\ Worse \subseteq SUBSET N
      BY <1>1
    <3> HIDE DEF N, Bad, Worse
    <3> QED
      BY <3>1, SmallestSubset
  <2>2. PICK z \in T : TRUE
    OBVIOUS
  <2>3. T \ {z} \notin Worse
    BY <2>1, <2>2
  <2>4. CASE T \ {z} = {}
    BY <2>2, <2>4
  <2>5. CASE T \ {z} # {}
    <3>1. PICK x \in T \ {z} : \A y \in T \ {z} : x =< y
      BY <2>3, <2>5
    <3>2. x \in 1..n /\ z \in 1..n
      BY <2>2, <3>1
    <3>3. CASE x =< z
      BY <3>1, <3>3
    <3>4. CASE z =< x
      <4>1. \A y \in T : z =< y
        BY <3>1, <3>2, <3>4
      <4> QED
        BY <2>2, <4>1
    <3> QED
      BY <3>2, <3>3, <3>4
  <2> QED
    BY <2>4, <2>5
<1>4. (\E x \in S : \A y \in S : x >= y) /\ (\E x \in S : \A y \in S : x =< y)
  BY <1>2, <1>3
<1>5. Max(S) \in S /\ \A y \in S : Max(S) >= y
  BY <1>4 DEF Max
<1> QED
  BY <1>4, <1>5

\* The first path whose constraint is not false.
IsFirst(truth, s, i) == i \in s /\ truth[i] # "false" /\ \A j \in s : truth[j] # "false" => i =< j

AllFalse(truth, s) == \A i \in s : truth[i] = "false"

First(truth, s) == CHOOSE i \in s : IsFirst(truth, s, i)

LEMMA FirstIs ==
  ASSUME NEW n \in Nat, NEW s \in SUBSET (1..n), NEW truth, ~AllFalse(truth, s)
  PROVE  /\ IsFirst(truth, s, First(truth, s))
         /\ \A i : IsFirst(truth, s, i) => i = First(truth, s)
<1> DEFINE U == {i \in s : truth[i] # "false"}
<1>1. U \in SUBSET (1..n) /\ U # {}
  BY DEF AllFalse
<1>2. \E x \in U : \A y \in U : x =< y
  BY <1>1, Extremes
<1>3. \E x \in s : IsFirst(truth, s, x)
  BY <1>2 DEF IsFirst
<1>4. IsFirst(truth, s, First(truth, s))
  BY <1>3 DEF First
<1>5. \A i, j \in 1..n : i =< j /\ j =< i => i = j
  OBVIOUS
<1>6. \A i : IsFirst(truth, s, i) => i = First(truth, s)
  BY <1>4, <1>5 DEF IsFirst
<1> QED
  BY <1>4, <1>6

\* What the loop has found, and whether it goes on, after the paths of s.
Chosen(truth, mode, s) ==
  IF AllFalse(truth, s) THEN [found |-> 0, status |-> "scan"]
  ELSE [found  |-> IF truth[First(truth, s)] = "true" THEN First(truth, s) ELSE 0,
        status |-> IF truth[First(truth, s)] = "error" THEN "failed"
                   ELSE IF mode = AtLeastOne THEN "returned"
                   ELSE IF AllFalse(truth, s \ {First(truth, s)}) THEN "scan" ELSE "failed"]

\* A turn of the loop, on the greatest path of s.
LEMMA ChosenTurn ==
  ASSUME NEW n \in Nat, NEW s \in SUBSET (1..n), s # {},
         NEW truth, \A i \in s : truth[i] \in Verdicts, NEW mode
  PROVE  Chosen(truth, mode, s) = Turn(truth, mode, Chosen(truth, mode, s \ {Max(s)}), Max(s))
<1> DEFINE x == Max(s)
           t == s \ {x}
           before == Chosen(truth, mode, t)
           m == First(truth, t)
<1>1. /\ x \in s /\ x \in 1..n /\ x # 0 /\ t \in SUBSET (1..n)
      /\ \A y \in s : y =< x
      /\ truth[x] \in {"true", "false", "error"}
  <2>1. x \in s /\ \A y \in s : x >= y
    BY Extremes
  <2> HIDE DEF x
  <2>2. x \in 1..n /\ \A y \in s : y \in 1..n
    BY <2>1
  <2>3. x # 0 /\ \A y \in s : y =< x
    BY <2>1, <2>2
  <2> QED
    BY <2>1, <2>2, <2>3 DEF Verdicts
<1>2. AllFalse(truth, s) <=> AllFalse(truth, t) /\ truth[x] = "false"
  BY <1>1 DEF AllFalse
<1>3. CASE AllFalse(truth, t)
  <2>1. before = [found |-> 0, status |-> "scan"]
    BY <1>3 DEF Chosen
  <2>2. CASE truth[x] = "false"
    <3>1. Chosen(truth, mode, s) = [found |-> 0, status |-> "scan"]
      BY <1>2, <1>3, <2>2 DEF Chosen
    <3>2. Turn(truth, mode, before, x) = before
      BY <2>1, <2>2 DEF Turn
    <3> QED
      BY <2>1, <3>1, <3>2
  <2>3. CASE truth[x] # "false"
    <3>1. IsFirst(truth, s, x)
      BY <1>1, <1>3, <2>3 DEF IsFirst, AllFalse
    <3>2. ~AllFalse(truth, s) /\ First(truth, s) = x
      BY <1>2, <2>3, <3>1, FirstIs
    <3>3. Chosen(truth, mode, s) =
            [found  |-> IF truth[x] = "true" THEN x ELSE 0,
             status |-> IF truth[x] = "error" THEN "failed"
                        ELSE IF mode = AtLeastOne THEN "returned" ELSE "scan"]
      BY <1>3, <3>2 DEF Chosen
    <3>4. Turn(truth, mode, before, x) =
            [found  |-> IF truth[x] = "true" THEN x ELSE 0,
             status |-> IF truth[x] = "error" THEN "failed"
                        ELSE IF mode = AtLeastOne THEN "returned" ELSE "scan"]
      <4>1. CASE truth[x] = "error"
        BY <2>1, <4>1 DEF Turn
      <4>2. CASE truth[x] = "true"
        BY <2>1, <4>2 DEF Turn
      <4> QED
        BY <1>1, <2>3, <4>1, <4>2
    <3> QED
      BY <3>3, <3>4
  <2> QED
    BY <2>2, <2>3
<1>4. CASE ~AllFalse(truth, t)
  <2>1. IsFirst(truth, t, m)
    BY <1>1, <1>4, FirstIs
  <2>2. m \in t /\ m \in s /\ m # x /\ m # 0 /\ truth[m] \in {"true", "error"}
    BY <1>1, <2>1 DEF IsFirst, Verdicts
  <2>3. IsFirst(truth, s, m)
    BY <1>1, <2>1, <2>2 DEF IsFirst
  <2>4. ~AllFalse(truth, s) /\ First(truth, s) = m
    BY <1>2, <1>4, <2>3, FirstIs
  <2>5. AllFalse(truth, s \ {m}) <=> AllFalse(truth, t \ {m}) /\ truth[x] = "false"
    BY <1>1, <2>2 DEF AllFalse
  <2>6. before = [found  |-> IF truth[m] = "true" THEN m ELSE 0,
                  status |-> IF truth[m] = "error" THEN "failed"
                             ELSE IF mode = AtLeastOne THEN "returned"
                             ELSE IF AllFalse(truth, t \ {m}) THEN "scan" ELSE "failed"]
    BY <1>4 DEF Chosen
  <2>7. Chosen(truth, mode, s) =
          [found  |-> IF truth[m] = "true" THEN m ELSE 0,
           status |-> IF truth[m] = "error" THEN "failed"
                      ELSE IF mode = AtLeastOne THEN "returned"
                      ELSE IF AllFalse(truth, t \ {m}) /\ truth[x] = "false" THEN "scan" ELSE "failed"]
    BY <2>4, <2>5 DEF Chosen
  <2>8. CASE truth[m] = "error" \/ mode = AtLeastOne \/ ~AllFalse(truth, t \ {m})
    <3>1. before.status # "scan"
      BY <2>6, <2>8
    <3>2. Turn(truth, mode, before, x) = before
      BY <3>1 DEF Turn
    <3>3. Chosen(truth, mode, s) = before
      BY <2>6, <2>7, <2>8
    <3> QED
      BY <3>2, <3>3
  <2>9. CASE truth[m] = "true" /\ mode # AtLeastOne /\ AllFalse(truth, t \ {m})
    <3>1. before = [found |-> m, status |-> "scan"]
      BY <2>6, <2>9
    <3>2. Chosen(truth, mode, s) =
            [found |-> m, status |-> IF truth[x] = "false" THEN "scan" ELSE "failed"]
      BY <2>7, <2>9
    <3> HIDE DEF before, m, x
    <3>3. Turn(truth, mode, before, x) =
            [found |-> m, status |-> IF truth[x] = "false" THEN "scan" ELSE "failed"]
      <4>1. CASE truth[x] = "error"
        BY <3>1, <4>1 DEF Turn
      <4>2. CASE truth[x] = "false"
        BY <3>1, <4>2 DEF Turn
      <4>3. CASE truth[x] = "true"
        BY <2>2, <2>9, <3>1, <4>3 DEF Turn
      <4> QED
        BY <1>1, <4>1, <4>2, <4>3
    <3> QED
      BY <3>2, <3>3 DEF before, m, x
  <2> QED
    BY <2>2, <2>8, <2>9
<1> QED
  BY <1>3, <1>4

\* What the loop over the constraints computes, for every finite set of paths.
LEMMA ScanIs ==
  ASSUME NEW n \in Nat, NEW S \in SUBSET (1..n),
         NEW truth, \A i \in S : truth[i] \in Verdicts, NEW mode
  PROVE  Scan(S, truth, mode) = Chosen(truth, mode, S)
<1> DEFINE Loop(h) == [s \in SUBSET S |->
             IF s = {} THEN [found |-> 0, status |-> "scan"]
             ELSE Turn(truth, mode, h[s \ {Max(s)}], Max(s))]
           C == [s \in SUBSET S |-> Chosen(truth, mode, s)]
           g == CHOOSE h : h = Loop(h)
<1>1. \A s \in SUBSET S : s # {} =>
        /\ Max(s) \in s /\ s \ {Max(s)} \in SUBSET S
        /\ Chosen(truth, mode, s) = Turn(truth, mode, Chosen(truth, mode, s \ {Max(s)}), Max(s))
  BY ChosenTurn, Extremes
<1>2. Chosen(truth, mode, {}) = [found |-> 0, status |-> "scan"]
  BY DEF Chosen, AllFalse
<1>3. C = Loop(C)
  <2>1. \A s \in SUBSET S : C[s] = Loop(C)[s]
    BY <1>1, <1>2
  <2> QED
    BY <2>1
<1>4. g = Loop(g)
  BY <1>3
<1>5. \A s \in SUBSET S :
        g[s] = IF s = {} THEN [found |-> 0, status |-> "scan"]
               ELSE Turn(truth, mode, g[s \ {Max(s)}], Max(s))
  BY <1>4
<1> HIDE DEF g
<1>6. \A s \in SUBSET S : g[s] = Chosen(truth, mode, s)
  <2> DEFINE Bad == {s \in SUBSET S : g[s] # Chosen(truth, mode, s)}
  <2> SUFFICES ASSUME Bad # {} PROVE FALSE
    OBVIOUS
  <2>1. PICK T \in Bad : \A U \in Bad : U \subseteq T => U = T
    <3> DEFINE N == 1..n
    <3>1. IsFiniteSet(N) /\ Bad \subseteq SUBSET N
      <4>1. IsFiniteSet(1..n)
        BY FS_Interval
      <4>2. \A s \in SUBSET S : s \in SUBSET (1..n)
        OBVIOUS
      <4> QED
        BY <4>1, <4>2
    <3>2. Bad # {}
      OBVIOUS
    <3> HIDE DEF N, Bad, Loop, C
    <3> QED
      BY <3>1, <3>2, SmallestSubset
  <2>2. T # {}
    BY <1>2, <1>5
  <2>3. T \ {Max(T)} \notin Bad
    BY <1>1, <2>1, <2>2
  <2>4. g[T \ {Max(T)}] = Chosen(truth, mode, T \ {Max(T)})
    BY <1>1, <2>2, <2>3
  <2>5. g[T] = Chosen(truth, mode, T)
    BY <1>1, <1>5, <2>2, <2>4
  <2> QED
    BY <2>5
<1>7. Scan(S, truth, mode) = g[S]
  BY Zenon DEF g, Scan, MapThenFoldSet
<1> QED
  BY <1>6, <1>7

\* The loop selects the path its policy allows, or none when there is none.
LEMMA SelectIs ==
  ASSUME NEW n \in Nat, NEW S \in SUBSET (1..n), NEW truth \in [S -> Verdicts], NEW mode
  PROVE  Selectable(S, truth, mode)
           = IF Select(S, truth, mode) \in S THEN {Select(S, truth, mode)} ELSE {}
<1> DEFINE c == Select(S, truth, mode)
           m == First(truth, S)
<1>1. c = IF Chosen(truth, mode, S).status = "failed" THEN 0 ELSE Chosen(truth, mode, S).found
  BY ScanIs DEF Select
<1>2. 0 \notin S /\ \A i \in S : truth[i] \in {"true", "false", "error"} /\ i \in 1..n
  BY DEF Verdicts
<1>3. CASE AllFalse(truth, S)
  <2>1. c = 0
    BY <1>1, <1>3 DEF Chosen
  <2>2. Selectable(S, truth, mode) = {}
    BY <1>3 DEF Selectable, AllFalse
  <2> QED
    BY <1>2, <2>1, <2>2
<1>4. CASE ~AllFalse(truth, S)
  <2>1. /\ m \in S /\ truth[m] \in {"true", "error"}
        /\ \A j \in S : truth[j] # "false" => m =< j
    BY <1>2, <1>4, FirstIs DEF IsFirst
  <2>2. c = IF truth[m] = "true" /\ (mode = AtLeastOne \/ AllFalse(truth, S \ {m})) THEN m ELSE 0
    BY <1>1, <1>4, <2>1 DEF Chosen
  <2>3. ASSUME NEW i \in Selectable(S, truth, mode)
        PROVE  i = m /\ truth[m] = "true" /\ (mode = AtLeastOne \/ AllFalse(truth, S \ {m}))
    <3>1. i \in S /\ truth[i] = "true" /\ i \in 1..n /\ m \in 1..n /\ m =< i
      BY <1>2, <2>1, <2>3 DEF Selectable
    <3>2. ~(m < i)
      BY <2>1, <2>3, <3>1 DEF Selectable
    <3>3. i = m
      BY <3>1, <3>2
    <3> QED
      BY <2>3, <3>1, <3>3 DEF Selectable, AllFalse
  <2>4. ASSUME truth[m] = "true", mode = AtLeastOne \/ AllFalse(truth, S \ {m})
        PROVE  m \in Selectable(S, truth, mode)
    <3>1. CASE mode = AtLeastOne
      <4>1. ASSUME NEW j \in S, j < m PROVE truth[j] = "false"
        <5>1. j \in 1..n /\ m \in 1..n
          BY <1>2, <2>1
        <5> HIDE DEF m
        <5>2. ~(m =< j)
          BY <4>1, <5>1
        <5> QED
          BY <2>1, <5>2
      <4> QED
        BY <2>1, <2>4, <3>1, <4>1 DEF Selectable
    <3>2. CASE mode # AtLeastOne
      BY <2>1, <2>4, <3>2 DEF Selectable, AllFalse
    <3> QED
      BY <3>1, <3>2
  <2> HIDE DEF m, c
  <2> QED
    BY <1>2, <2>1, <2>2, <2>3, <2>4 DEF c
<1> QED
  BY <1>3, <1>4

\* The step out of an activity: the one path the loop selects, or none.
LEMMA AllowedStep ==
  ASSUME EngineInv, [Next]_vars, phase = "next"
  PROVE  /\ phase' = "execute" =>
              \E i \in Selectable(Outputs(current), verdicts, cfg.policy) :
                 cfg.paths[i].target = current'
         /\ outcome' = "error" => Selectable(Outputs(current), verdicts, cfg.policy) = {}
<1> DEFINE selected == Select(Outputs(current), verdicts, cfg.policy)
           allowed == Selectable(Outputs(current), verdicts, cfg.policy)
<1>1. allowed = IF selected \in Outputs(current) THEN {selected} ELSE {}
  <2>1. verdicts \in [Outputs(current) -> Verdicts]
    BY DEF EngineInv, TypeOK
  <2>2. Len(cfg.paths) \in Nat /\ Outputs(current) \in SUBSET (1..Len(cfg.paths))
    BY DEF EngineInv, TypeOK, ConfigType, Outputs
  <2> QED
    BY <2>1, <2>2, SelectIs
<1>2. outcome = "none"
  BY DEF EngineInv, WalkInv
<1> HIDE DEF selected, allowed
<1>3. CASE Next_Path
  <2>1. selected \in Outputs(current) /\ Follow(selected)
    BY <1>3 DEF Next_Path, selected
  <2>2. current' = cfg.paths[selected].target /\ outcome' = "none"
    BY <1>2, <2>1 DEF Follow
  <2> QED
    BY <1>1, <2>1, <2>2 DEF allowed
<1>4. CASE Next_End
  BY <1>4 DEF Next_End, Return
<1>5. CASE Next_Error
  <2>1. phase' = "boundary" /\ selected \notin Outputs(current)
    BY <1>5 DEF Next_Error, Return, selected
  <2> QED
    BY <1>1, <2>1 DEF allowed
<1>6. CASE UNCHANGED vars
  BY <1>2, <1>6 DEF vars, walk
<1> QED
  BY <1>3, <1>4, <1>5, <1>6
     DEF Next, Construct, Reject, Begin, ExecuteDisabled, ExecuteLate, ExecuteOk, ExecuteFails,
         Boundary, BoundaryEnd

\* A followed path is one the policy allows, and a walk that fails for want of a
\* path had none: the loop of evalExpressionSetToBool means what the policies say.
THEOREM PathsAllowed == Spec => PathAllowed
<1>1. ASSUME EngineInv, [Next]_vars
      PROVE  [/\ phase = "next" /\ phase' = "execute" =>
                   \E i \in Selectable(Outputs(current), verdicts, cfg.policy) :
                      cfg.paths[i].target = current'
              /\ phase = "next" /\ outcome' = "error" =>
                   Selectable(Outputs(current), verdicts, cfg.policy) = {}]_vars
  BY <1>1, AllowedStep
<1> QED
  BY <1>1, EngineInvariant, PTL DEF Spec, PathAllowed

-----------------------------------------------------------------------------
(***************************************************************************)
(* The safety half of AcyclicEnds.  A request on a graph whose paths all   *)
(* lead forward along a ranking has so many steps left, at most: two for   *)
(* each activity ahead, one for each of the boundary.                      *)
(***************************************************************************)
Forward(rank) ==
  \A i \in 1..Len(cfg.paths) : rank[cfg.paths[i].source] < rank[cfg.paths[i].target]

StepsLeft(n, rank) ==
  LET boundary == Len(cfg.boundary)
  IN CASE phase = "new"      -> 2 * n + boundary + 4
       [] phase = "ready"    -> 2 * n + boundary + 3
       [] phase = "execute"  -> 2 * (n - rank[current]) + boundary + 3
       [] phase = "next"     -> 2 * (n - rank[current]) + boundary + 2
       [] phase = "boundary" -> boundary - bndx + 1
       [] OTHER              -> 0

\* What StepsLeft says of each phase.
LEMMA StepsLeftIs ==
  ASSUME EngineInv, NEW n \in Nat, NEW rank \in [Activities -> 1..n]
  PROVE  /\ Len(cfg.boundary) \in Nat /\ bndx \in 0..Len(cfg.boundary)
         /\ phase \in {"execute", "next"} => rank[current] \in 1..n
         /\ StepsLeft(n, rank) \in Nat
<1>1. Len(cfg.boundary) \in Nat /\ bndx \in 0..Len(cfg.boundary) /\ phase \in Phases
  BY DEF EngineInv, TypeOK, ConfigType
<1>2. phase \in {"execute", "next"} => rank[current] \in 1..n
  BY DEF EngineInv, TypeOK, ConfigType, WalkInv, Walking, OnPath
<1> DEFINE k == rank[current]
           b == Len(cfg.boundary)
<1>3. CASE phase \in {"execute", "next"}
  <2>1. k \in Nat /\ k =< n /\ b \in Nat
    BY <1>1, <1>2, <1>3
  <2>2. StepsLeft(n, rank) \in {2 * (n - k) + b + 3, 2 * (n - k) + b + 2}
    BY <1>3 DEF StepsLeft
  <2> HIDE DEF k, b
  <2>3. 2 * (n - k) + b + 3 \in Nat /\ 2 * (n - k) + b + 2 \in Nat
    BY <2>1
  <2> QED
    BY <1>1, <1>2, <2>2, <2>3
<1>4. CASE phase \notin {"execute", "next"}
  <2>1. StepsLeft(n, rank) \in {2 * n + b + 4, 2 * n + b + 3, b - bndx + 1, 0}
    BY <1>1, <1>4 DEF StepsLeft, Phases
  <2>2. b \in Nat /\ bndx \in 0..b
    BY <1>1
  <2> HIDE DEF k, b
  <2>3. 2 * n + b + 4 \in Nat /\ 2 * n + b + 3 \in Nat /\ b - bndx + 1 \in Nat
    BY <2>2
  <2>4. StepsLeft(n, rank) \in Nat
    BY <2>1, <2>3
  <2> QED
    BY <1>1, <1>4, <2>4
<1> QED
  BY <1>3, <1>4

\* Every step of the engine leaves fewer of them.
LEMMA FewerSteps ==
  ASSUME EngineInv, Next, NEW n \in Nat, NEW rank \in [Activities -> 1..n], Forward(rank)
  PROVE  Forward(rank)' /\ StepsLeft(n, rank)' < StepsLeft(n, rank)
<1> DEFINE b == Len(cfg.boundary)
<1> USE DEF walk, clock, boundaryVars
<1>1. b \in Nat /\ bndx \in 0..b
  BY StepsLeftIs
<1>2. cfg'.paths = cfg.paths /\ cfg'.boundary = cfg.boundary
  <2>1. CASE Construct
    <3>1. cfg \in ConfigType
      BY DEF EngineInv, TypeOK
    <3>2. PICK sa : cfg' = [cfg EXCEPT !.start = sa]
      BY <2>1 DEF Construct
    <3> QED
      BY <3>1, <3>2 DEF ConfigType
  <2>2. CASE ~Construct
    <3>1. cfg' = cfg
      BY <2>2 DEF Next, Reject, Begin, ExecuteDisabled, ExecuteLate, ExecuteOk, ExecuteFails,
                  Next_End, Next_Path, Next_Error, Boundary, BoundaryEnd
    <3> QED
      BY <3>1
  <2> QED
    BY <2>1, <2>2
<1>3. Forward(rank)'
  BY <1>2 DEF Forward
<1>4. phase \in {"execute", "next"} => rank[current] \in 1..n
  BY StepsLeftIs
<1>5. CASE phase = "new"
  <2>1. phase' \in {"ready", "rejected"}
    BY <1>5 DEF Next, Construct, Reject, Begin, ExecuteDisabled, ExecuteLate, ExecuteOk, ExecuteFails,
                  Next_End, Next_Path, Next_Error, Boundary, BoundaryEnd
  <2> QED
    BY <1>1, <1>2, <1>3, <1>5, <2>1 DEF StepsLeft
<1>6. CASE phase = "ready"
  <2>1. Begin
    BY <1>6 DEF Next, Construct, Reject, ExecuteDisabled, ExecuteLate, ExecuteOk, ExecuteFails,
                  Next_End, Next_Path, Next_Error, Boundary, BoundaryEnd
  <2>2. phase' = "execute" /\ rank[current'] \in 1..n
    BY <1>6, <2>1 DEF Begin, EngineInv, GraphInv, TypeOK, ConfigType
  <2> QED
    BY <1>1, <1>2, <1>3, <1>6, <2>2 DEF StepsLeft
<1>7. CASE phase = "execute"
  <2>1. /\ phase' \in {"boundary", "next"} /\ current' = current /\ bndx' = bndx
    BY <1>7 DEF Next, Construct, Reject, Begin, ExecuteDisabled, ExecuteLate, ExecuteOk, ExecuteFails,
                  Proceed, Return, Next_End, Next_Path, Next_Error, Boundary, BoundaryEnd
  <2> QED
    BY <1>1, <1>2, <1>3, <1>4, <1>7, <2>1 DEF StepsLeft
<1>8. CASE phase = "next"
  <2>1. \/ phase' = "boundary" /\ bndx' = bndx
        \/ Next_Path
    BY <1>8 DEF Next, Construct, Reject, Begin, ExecuteDisabled, ExecuteLate, ExecuteOk, ExecuteFails,
                  Return, Next_End, Next_Error, Boundary, BoundaryEnd
  <2>2. CASE phase' = "boundary" /\ bndx' = bndx
    BY <1>1, <1>2, <1>3, <1>4, <1>8, <2>2 DEF StepsLeft
  <2>3. CASE Next_Path
    <3>1. PICK i \in Outputs(current) : Follow(i)
      BY <2>3 DEF Next_Path
    <3>2. i \in 1..Len(cfg.paths) /\ cfg.paths[i].source = current /\ current' = cfg.paths[i].target
          /\ phase' = "execute"
      BY <3>1 DEF Outputs, Follow
    <3>3. rank[current] < rank[current']
      BY <3>2 DEF Forward
    <3>4. rank[current'] \in 1..n
      <4>1. cfg.paths[i] \in Paths
        BY <3>2 DEF EngineInv, TypeOK, ConfigType
      <4> QED
        BY <3>2, <4>1 DEF Paths
    <3> DEFINE k == rank[current]
               l == rank[current']
    <3>5. StepsLeft(n, rank) = 2 * (n - k) + b + 2
      BY <1>8 DEF StepsLeft
    <3>6. StepsLeft(n, rank)' = 2 * (n - l) + b + 3
      BY <1>2, <3>2 DEF StepsLeft
    <3>7. k \in Nat /\ l \in Nat /\ k < l
      BY <1>4, <1>8, <3>3, <3>4
    <3> HIDE DEF k, l, b
    <3>8. 2 * (n - l) + b + 3 < 2 * (n - k) + b + 2
      BY <1>1, <3>7
    <3> QED
      BY <1>3, <3>5, <3>6, <3>8
  <2> QED
    BY <2>1, <2>2, <2>3
<1>9. CASE phase = "boundary"
  <2>1. \/ phase' = "boundary" /\ bndx' = bndx + 1
        \/ phase' \in {"panicked", "done"}
    BY <1>9 DEF Next, Construct, Reject, Begin, ExecuteDisabled, ExecuteLate, ExecuteOk, ExecuteFails,
                  Next_End, Next_Path, Next_Error, Boundary, BoundaryStep, BoundaryPanic, BoundaryEnd
  <2> QED
    BY <1>1, <1>2, <1>3, <1>9, <2>1 DEF StepsLeft
<1>10. phase \in {"new", "ready", "execute", "next", "boundary"}
  BY DEF Next, Construct, Reject, Begin, ExecuteDisabled, ExecuteLate, ExecuteOk, ExecuteFails,
         Next_End, Next_Path, Next_Error, Boundary, BoundaryEnd
<1> QED
  BY <1>5, <1>6, <1>7, <1>8, <1>9, <1>10

\* On a graph without cycles the engine comes to an end (Execute, ExecuteBoundary): no
\* step brings back an activity, each one leaves fewer to take, and there are at most
\* two for each activity of the walk and one for each of the boundary.
THEOREM StepsRunOut ==
  ASSUME NEW CONSTANT n \in Nat, NEW CONSTANT rank \in [Activities -> 1..n]
  PROVE  Spec => /\ [](StepsLeft(n, rank) \in Nat)
                 /\ [][Forward(rank) => Forward(rank)' /\ StepsLeft(n, rank)' < StepsLeft(n, rank)]_vars
<1>1. EngineInv => StepsLeft(n, rank) \in Nat
  BY StepsLeftIs
<1>2. EngineInv /\ [Next]_vars =>
        [Forward(rank) => Forward(rank)' /\ StepsLeft(n, rank)' < StepsLeft(n, rank)]_vars
  BY FewerSteps
<1> QED
  BY <1>1, <1>2, EngineInvariant, PTL DEF Spec
=============================================================================
