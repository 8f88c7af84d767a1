-------------------------- MODULE WorkQueueProofs --------------------------
(***************************************************************************)
(* Proofs about the queue shared by the reporters, for every set of cases  *)
(* and every queue size.                                                   *)
(***************************************************************************)
EXTENDS WorkQueue, FiniteSetTheorems, TLAPS

\* The items the work loop holds that it has not dealt with yet.
Held == IF worker = "work" THEN 1 ELSE 0

\* The goroutine that is about to send is the one that holds the mutex.
MutexInv == \A c \in Cases : caller[c] = "sending" <=> qmu = c

SlotsInv ==
  /\ IsFiniteSet(Panicked)
  /\ SlotsAccounted
  /\ queuedItems =< Quota

\* handled, then the item at work, then the buffer: together they are accepted.
OrderInv ==
  /\ Len(accepted) = Len(handled) + Held + Len(workQueue)
  /\ \A i \in 1..Len(handled) : handled[i] = accepted[i]
  /\ worker = "work" => current = accepted[Len(handled) + 1]
  /\ \A i \in 1..Len(workQueue) : workQueue[i] = accepted[Len(handled) + Held + i]
  /\ \A i \in 1..Len(accepted) : caller[accepted[i]] = "accepted"

LoopInv ==
  /\ wg = 1 <=> worker \notin {"notStarted", "exited"}
  /\ worker = "exited" => closed /\ workQueue = <<>>
  /\ Busy => current \in Cases

QueueInv == QueueTypeOK /\ MutexInv /\ SlotsInv /\ OrderInv /\ LoopInv

\* Four fifths of the queue is at most the queue.
LEMMA QuotaBound == Quota \in Int /\ Quota =< QueueSize /\ 0 =< Quota
BY QueueSizeAssumption DEF Quota

LEMMA InitQueueInv == QueueInit => QueueInv
<1> SUFFICES ASSUME QueueInit PROVE QueueInv
  OBVIOUS
<1> USE DEF QueueInit
<1>1. QueueTypeOK
  <2>1. workQueue \in Seq(Cases) /\ accepted \in Seq(Cases) /\ handled \in Seq(Cases)
    OBVIOUS
  <2>2. caller \in [Cases -> CallerStates]
    BY DEF CallerStates
  <2>3. worker \in WorkerStates /\ wg \in {0, 1} /\ queuedItems \in Int
    BY DEF WorkerStates
  <2>5. closed \in BOOLEAN
    OBVIOUS
  <2>4. qmu \in Cases \cup {NoCase} /\ current \in Cases \cup {NoCase}
    OBVIOUS
  <2> HIDE DEF QueueInit
  <2> QED
    BY <2>1, <2>2, <2>3, <2>4, <2>5 DEF QueueTypeOK
<1>2. MutexInv
  BY NoCaseAssumption DEF MutexInv
<1>3. SlotsInv
  <2>1. Panicked = {} /\ Sending = {}
    BY DEF Panicked, Sending
  <2>2. IsFiniteSet(Panicked) /\ Cardinality(Panicked) = 0 /\ Cardinality(Sending) = 0
    BY <2>1, FS_EmptySet
  <2> QED
    BY <2>2, QuotaBound DEF SlotsInv, SlotsAccounted, Busy
<1>4. OrderInv
  BY DEF OrderInv, Held
<1>5. LoopInv
  BY DEF LoopInv, Busy
<1> QED
  BY <1>1, <1>2, <1>3, <1>4, <1>5 DEF QueueInv

-----------------------------------------------------------------------------
\* One lemma per part of the invariant, one step per action.
LEMMA TypeStep ==
  ASSUME QueueTypeOK, LoopInv, [QueueNext]_queueVars
  PROVE  QueueTypeOK'
<1> USE DEF QueueTypeOK, reporter, history
<1>1. CASE Start
  BY <1>1 DEF Start, WorkerStates, LoopInv
<1>2. CASE Stop
  BY <1>2 DEF Stop
<1>3. CASE Receive
  BY <1>3 DEF Receive, WorkerStates
<1>4. CASE Work
  BY <1>4 DEF Work, WorkerStates, LoopInv, Busy
<1>5. CASE Done
  BY <1>5 DEF Done, WorkerStates
<1>6. CASE Exit
  BY <1>6 DEF Exit, WorkerStates, LoopInv
<1>7. ASSUME NEW c \in Cases, Report(c) PROVE QueueTypeOK'
  <2>1. CASE ReportReject(c)
    BY <2>1 DEF ReportReject, CallerStates
  <2>2. CASE ReportAdmit(c)
    BY <2>2 DEF ReportAdmit, CallerStates
  <2>3. CASE ReportSend(c)
    BY <2>3 DEF ReportSend, CallerStates
  <2>4. CASE ReportPanic(c)
    BY <2>4 DEF ReportPanic, CallerStates
  <2> QED
    BY <1>7, <2>1, <2>2, <2>3, <2>4 DEF Report
<1>8. CASE UNCHANGED queueVars
  BY <1>8 DEF queueVars
<1> QED
  BY <1>1, <1>2, <1>3, <1>4, <1>5, <1>6, <1>7, <1>8 DEF QueueNext

LEMMA MutexStep ==
  ASSUME QueueTypeOK, MutexInv, [QueueNext]_queueVars
  PROVE  MutexInv'
<1> USE NoCaseAssumption DEF QueueTypeOK, MutexInv, reporter, history
<1>1. CASE \/ Start \/ Stop \/ Receive \/ Work \/ Done \/ Exit
  BY <1>1 DEF Start, Stop, Receive, Work, Done, Exit
<1>2. ASSUME NEW c \in Cases, Report(c) PROVE MutexInv'
  BY <1>2 DEF Report, ReportReject, ReportAdmit, ReportSend, ReportPanic
<1>3. CASE UNCHANGED queueVars
  BY <1>3 DEF queueVars
<1> QED
  BY <1>1, <1>2, <1>3 DEF QueueNext

LEMMA LoopStep ==
  ASSUME QueueTypeOK, LoopInv, [QueueNext]_queueVars
  PROVE  LoopInv'
<1> USE DEF QueueTypeOK, LoopInv, Busy, reporter, history
<1>1. CASE Start
  BY <1>1 DEF Start
<1>2. CASE Stop
  BY <1>2 DEF Stop
<1>3. CASE Receive
  BY <1>3 DEF Receive
<1>4. CASE Work
  BY <1>4 DEF Work
<1>5. CASE Done
  BY <1>5 DEF Done
<1>6. CASE Exit
  BY <1>6 DEF Exit
<1>7. ASSUME NEW c \in Cases, Report(c) PROVE LoopInv'
  BY <1>7 DEF Report, ReportReject, ReportAdmit, ReportSend, ReportPanic
<1>8. CASE UNCHANGED queueVars
  BY <1>8 DEF queueVars
<1> QED
  BY <1>1, <1>2, <1>3, <1>4, <1>5, <1>6, <1>7, <1>8 DEF QueueNext

\* The mutex admits one sender at a time.
LEMMA OneSender ==
  ASSUME NEW q \in Cases \cup {NoCase}, NEW S, S = {c \in Cases : q = c}
  PROVE  Cardinality(S) = IF q = NoCase THEN 0 ELSE 1
<1>1. CASE q = NoCase
  <2>1. S = {}
    BY <1>1, NoCaseAssumption
  <2> QED
    BY <1>1, <2>1, FS_EmptySet
<1>2. CASE q # NoCase
  <2>1. S = {q}
    BY <1>2
  <2> QED
    BY <1>2, <2>1, FS_Singleton
<1> QED
  BY <1>1, <1>2

LEMMA SlotsStep ==
  ASSUME QueueTypeOK, MutexInv, SlotsInv, [QueueNext]_queueVars
  PROVE  SlotsInv'
<1> DEFINE Claim(q) == IF q = NoCase THEN 0 ELSE 1
           BusyNow == IF Busy THEN 1 ELSE 0
<1>1. MutexInv' /\ qmu' \in Cases \cup {NoCase}
  <2>1. MutexInv'
    BY MutexStep
  <2>2. qmu' \in Cases \cup {NoCase}
    BY DEF QueueTypeOK, QueueNext, queueVars, reporter, Start, Stop, Receive, Work, Done, Exit,
           Report, ReportReject, ReportAdmit, ReportSend, ReportPanic
  <2> QED
    BY <2>1, <2>2
<1>2. Cardinality(Sending) = Claim(qmu) /\ Cardinality(Sending)' = Claim(qmu')
  <2>1. Sending = {c \in Cases : qmu = c} /\ Sending' = {c \in Cases : qmu' = c}
    BY <1>1 DEF Sending, MutexInv
  <2> QED
    BY <1>1, <2>1, OneSender DEF QueueTypeOK
<1>3. IsFiniteSet(Panicked) /\ Cardinality(Panicked) \in Nat
  BY FS_CardinalityType DEF SlotsInv
<1>4. queuedItems = Len(workQueue) + Claim(qmu) + Cardinality(Panicked) + BusyNow
  BY <1>2 DEF SlotsInv, SlotsAccounted
<1> SUFFICES /\ IsFiniteSet(Panicked')
             /\ queuedItems' = Len(workQueue') + Claim(qmu') + Cardinality(Panicked') + BusyNow'
             /\ queuedItems' =< Quota
  BY <1>2 DEF SlotsInv, SlotsAccounted, Quota
<1> USE DEF QueueTypeOK, SlotsInv, Busy, reporter, history
<1>5. CASE Panicked' = Panicked
  <2>1. CASE Start
    BY <1>3, <1>4, <1>5, <2>1 DEF Start
  <2>2. CASE Stop
    BY <1>3, <1>4, <1>5, <2>2 DEF Stop
  <2>3. CASE Receive
    BY <1>3, <1>4, <1>5, <2>3 DEF Receive
  <2>4. CASE Work
    BY <1>3, <1>4, <1>5, <2>4 DEF Work
  <2>5. CASE Done
    BY <1>3, <1>4, <1>5, <2>5, QuotaBound DEF Done
  <2>6. CASE Exit
    BY <1>3, <1>4, <1>5, <2>6 DEF Exit
  <2>7. ASSUME NEW c \in Cases, ReportReject(c) \/ ReportAdmit(c) \/ ReportSend(c)
        PROVE  /\ queuedItems' = Len(workQueue') + Claim(qmu') + Cardinality(Panicked') + BusyNow'
               /\ queuedItems' =< Quota
    BY <1>3, <1>4, <1>5, <2>7, NoCaseAssumption, QuotaBound
       DEF ReportReject, ReportAdmit, ReportSend, MutexInv
  <2>8. ASSUME NEW c \in Cases, ReportPanic(c) PROVE FALSE
    BY <1>5, <2>8 DEF ReportPanic, Panicked
  <2>9. CASE UNCHANGED queueVars
    BY <1>3, <1>4, <1>5, <2>9 DEF queueVars
  <2> QED
    BY <1>3, <1>5, <2>1, <2>2, <2>3, <2>4, <2>5, <2>6, <2>7, <2>8, <2>9 DEF QueueNext, Report
<1>6. ASSUME NEW c \in Cases, ReportPanic(c)
      PROVE  /\ IsFiniteSet(Panicked')
             /\ queuedItems' = Len(workQueue') + Claim(qmu') + Cardinality(Panicked') + BusyNow'
             /\ queuedItems' =< Quota
  <2>1. Panicked' = Panicked \cup {c} /\ c \notin Panicked
    BY <1>6 DEF ReportPanic, Panicked
  <2>2. IsFiniteSet(Panicked') /\ Cardinality(Panicked') = Cardinality(Panicked) + 1
    BY <1>3, <2>1, FS_AddElement
  <2>3. Claim(qmu) = 1 /\ Claim(qmu') = 0
    BY <1>6, NoCaseAssumption DEF ReportPanic, MutexInv
  <2> QED
    BY <1>3, <1>4, <1>6, <2>2, <2>3 DEF ReportPanic
<1>7. (\E c \in Cases : ReportPanic(c)) \/ Panicked' = Panicked
  BY DEF QueueNext, queueVars, Start, Stop, Receive, Work, Done, Exit,
         Report, ReportReject, ReportAdmit, ReportSend, Panicked
<1> QED
  BY <1>5, <1>6, <1>7

LEMMA OrderStep ==
  ASSUME QueueTypeOK, OrderInv, LoopInv, [QueueNext]_queueVars
  PROVE  OrderInv'
<1> USE DEF QueueTypeOK, OrderInv, Held, reporter, history
<1>1. CASE Receive
  <2>1. /\ Len(workQueue) \in Nat /\ Len(workQueue) > 0 /\ Len(workQueue') = Len(workQueue) - 1
        /\ current' = workQueue[1]
        /\ \A i \in 1..Len(workQueue') : workQueue'[i] = workQueue[i + 1]
    BY <1>1 DEF Receive
  <2>2. Held = 0 /\ Held' = 1 /\ handled' = handled /\ accepted' = accepted /\ caller' = caller
    BY <1>1 DEF Receive
  <2> HIDE DEF Held
  <2>3. Len(handled) \in Nat /\ Len(accepted') = Len(handled') + Held' + Len(workQueue')
    <3>1. Len(handled) \in Nat /\ Len(handled') = Len(handled) /\ Len(accepted') = Len(accepted)
      BY <2>2
    <3>2. Len(accepted) = Len(handled) + 0 + Len(workQueue)
      BY <2>2
    <3> HIDE DEF OrderInv, QueueTypeOK
    <3> QED
      BY <2>1, <2>2, <3>1, <3>2
  <2>4. current' = accepted'[Len(handled') + 1]
    BY <2>1, <2>2, <2>3
  <2>5. \A i \in 1..Len(workQueue') : workQueue'[i] = accepted'[Len(handled') + Held' + i]
    <3> SUFFICES ASSUME NEW i \in 1..Len(workQueue')
                 PROVE  workQueue'[i] = accepted'[Len(handled') + Held' + i]
      OBVIOUS
    <3>1. workQueue'[i] = workQueue[i + 1] /\ i + 1 \in 1..Len(workQueue)
      BY <2>1
    <3>2. workQueue[i + 1] = accepted[Len(handled) + Held + (i + 1)]
      BY <3>1
    <3>3. Len(handled) + Held + (i + 1) = Len(handled') + Held' + i
      BY <2>2, <2>3
    <3> QED
      BY <2>2, <3>1, <3>2, <3>3
  <2> QED
    BY <2>2, <2>3, <2>4, <2>5
<1>2. CASE Work
  <2>1. /\ Len(handled') = Len(handled) + 1 /\ Len(handled) \in Nat
        /\ handled'[Len(handled) + 1] = current
        /\ \A i \in 1..Len(handled) : handled'[i] = handled[i]
    BY <1>2, LoopInv DEF Work, LoopInv, Busy
  <2> QED
    BY <1>2, <2>1 DEF Work
<1>3. CASE Start \/ Stop \/ Done \/ Exit
  BY <1>3 DEF Start, Stop, Done, Exit
<1>4. ASSUME NEW c \in Cases, ReportSend(c) PROVE OrderInv'
  <2>1. /\ Len(accepted') = Len(accepted) + 1 /\ Len(accepted) \in Nat
        /\ Len(workQueue') = Len(workQueue) + 1 /\ Len(workQueue) \in Nat
        /\ accepted'[Len(accepted) + 1] = c /\ workQueue'[Len(workQueue) + 1] = c
        /\ \A i \in 1..Len(accepted) : accepted'[i] = accepted[i]
        /\ \A i \in 1..Len(workQueue) : workQueue'[i] = workQueue[i]
    BY <1>4 DEF ReportSend
  <2>2. \A d \in Cases : d = c \/ caller[d] = "accepted" => caller'[d] = "accepted"
    BY <1>4 DEF ReportSend
  <2>3. \A i \in 1..Len(accepted') : caller'[accepted'[i]] = "accepted"
    <3> SUFFICES ASSUME NEW i \in 1..Len(accepted') PROVE caller'[accepted'[i]] = "accepted"
      OBVIOUS
    <3>1. CASE i = Len(accepted) + 1
      BY <2>1, <2>2, <3>1
    <3>2. CASE i \in 1..Len(accepted)
      BY <2>1, <2>2, <3>2
    <3> QED
      BY <2>1, <3>1, <3>2
  <2>4. Held' = Held /\ Held \in {0, 1} /\ handled' = handled /\ Len(handled) \in Nat
        /\ worker' = worker /\ current' = current
    BY <1>4 DEF ReportSend
  <2> HIDE DEF Held
  <2>5. \A i \in 1..Len(workQueue') : workQueue'[i] = accepted'[Len(handled') + Held' + i]
    <3> SUFFICES ASSUME NEW i \in 1..Len(workQueue')
                 PROVE  workQueue'[i] = accepted'[Len(handled) + Held + i]
      BY <2>4
    <3>1. CASE i = Len(workQueue) + 1
      BY <2>1, <2>4, <3>1
    <3>2. CASE i \in 1..Len(workQueue)
      <4>1. workQueue'[i] = accepted[Len(handled) + Held + i]
        BY <2>1, <3>2
      <4>2. Len(handled) + Held + i \in 1..Len(accepted)
        BY <2>1, <2>4, <3>2
      <4> QED
        BY <2>1, <4>1, <4>2
    <3> QED
      BY <2>1, <3>1, <3>2
  <2>6. \A i \in 1..Len(handled') : handled'[i] = accepted'[i]
    BY <2>1, <2>4
  <2>7. worker' = "work" => current' = accepted'[Len(handled') + 1]
    <3> SUFFICES ASSUME worker = "work" PROVE current = accepted'[Len(handled) + 1]
      BY <2>4
    <3>1. Len(handled) + 1 \in 1..Len(accepted)
      BY <2>1, <2>4 DEF Held
    <3> QED
      BY <2>1, <3>1
  <2>8. Len(accepted') = Len(handled') + Held' + Len(workQueue')
    BY <2>1, <2>4
  <2> QED
    BY <2>3, <2>5, <2>6, <2>7, <2>8 DEF OrderInv
<1>5. ASSUME NEW c \in Cases, ReportReject(c) \/ ReportAdmit(c) \/ ReportPanic(c) PROVE OrderInv'
  <2>1. /\ caller' \in [Cases -> CallerStates]
        /\ \A d \in Cases : caller[d] = "accepted" => caller'[d] = "accepted"
    BY <1>5 DEF ReportReject, ReportAdmit, ReportPanic, CallerStates
  <2>2. UNCHANGED <<workQueue, worker, current, accepted, handled>>
    BY <1>5 DEF ReportReject, ReportAdmit, ReportPanic
  <2> QED
    BY <2>1, <2>2
<1>6. CASE UNCHANGED queueVars
  BY <1>6 DEF queueVars
<1> QED
  BY <1>1, <1>2, <1>3, <1>4, <1>5, <1>6 DEF QueueNext, Report

-----------------------------------------------------------------------------
\* The invariant holds whatever the reporter does with the items.
THEOREM QueueInvariant == QueueSpec => []QueueInv
<1>1. ASSUME QueueInv, [QueueNext]_queueVars PROVE QueueInv'
  BY <1>1, TypeStep, MutexStep, SlotsStep, OrderStep, LoopStep DEF QueueInv
<1> QED
  BY <1>1, InitQueueInv, PTL DEF QueueSpec

\* No case is accepted twice.
Distinct == \A i, j \in 1..Len(accepted) : accepted[i] = accepted[j] => i = j

\* The goroutine of a case sends it once: a case is in the list of those accepted, and
\* so in the list of those handled, at most once.
THEOREM AcceptedOnce == QueueSpec => []Distinct
<1>1. QueueInit => Distinct
  BY DEF QueueInit, Distinct
<1>2. ASSUME QueueInv, Distinct, [QueueNext]_queueVars PROVE Distinct'
  <2>1. ASSUME NEW c \in Cases, ReportSend(c) PROVE Distinct'
    <3>1. /\ accepted \in Seq(Cases) /\ accepted' = Append(accepted, c)
          /\ \A i \in 1..Len(accepted) : accepted[i] # c
      BY <1>2, <2>1 DEF ReportSend, QueueInv, QueueTypeOK, OrderInv
    <3> QED
      BY <1>2, <3>1 DEF Distinct
  <2>2. CASE UNCHANGED accepted
    BY <1>2, <2>2 DEF Distinct
  <2> QED
    BY <1>2, <2>1, <2>2 DEF QueueNext, Report, Start, Stop, Receive, Work, Done, Exit, ReportReject,
                            ReportAdmit, ReportPanic, history, queueVars
<1> QED
  BY <1>1, <1>2, QueueInvariant, PTL DEF QueueSpec

(***************************************************************************)
(* Report never waits for room while it holds the mutex that done needs:   *)
(* the admission threshold leaves room for every sender, for every size.   *)
(***************************************************************************)
THEOREM NeverBlocks == QueueSpec => []SenderNeverBlocks
<1>1. ASSUME QueueInv PROVE SenderNeverBlocks
  <2> SUFFICES ASSUME NEW c \in Cases, caller[c] = "sending" PROVE Len(workQueue) < QueueSize
    BY DEF SenderNeverBlocks
  <2>1. qmu = c /\ c # NoCase
    BY <1>1, NoCaseAssumption DEF QueueInv, MutexInv
  <2>2. Sending = {d \in Cases : qmu = d}
    BY <1>1 DEF QueueInv, MutexInv, Sending
  <2>3. Cardinality(Sending) = 1
    BY <1>1, <2>1, <2>2, OneSender DEF QueueInv, QueueTypeOK
  <2>4. Cardinality(Panicked) \in Nat
    BY <1>1, FS_CardinalityType DEF QueueInv, SlotsInv
  <2>5. Len(workQueue) \in Nat /\ queuedItems \in Int
    BY <1>1 DEF QueueInv, QueueTypeOK
  <2>6. Len(workQueue) + 1 =< queuedItems /\ queuedItems =< Quota
    BY <1>1, <2>3, <2>4, <2>5, QuotaBound DEF QueueInv, SlotsInv, SlotsAccounted
  <2> QED
    BY <2>5, <2>6, QuotaBound, QueueSizeAssumption
<1> QED
  BY <1>1, QueueInvariant, PTL

\* Every slot taken by Report is accounted for.
THEOREM Accounted == QueueSpec => []SlotsAccounted
<1>1. QueueInv => SlotsAccounted
  BY DEF QueueInv, SlotsInv
<1> QED
  BY <1>1, QueueInvariant, PTL

\* The wait group is released only once everything accepted has been handled.
THEOREM Drained == QueueSpec => []ReleasedWhenDrained
<1>1. ASSUME QueueInv PROVE ReleasedWhenDrained
  <2>1. ASSUME worker = "exited" PROVE closed /\ handled = accepted
    <3>1. closed /\ workQueue = <<>> /\ Held = 0
      BY <1>1, <2>1 DEF QueueInv, LoopInv, Held
    <3>2. Len(handled) = Len(accepted)
      BY <1>1, <3>1 DEF QueueInv, QueueTypeOK, OrderInv
    <3> QED
      BY <1>1, <3>1, <3>2 DEF QueueInv, QueueTypeOK, OrderInv
  <2> QED
    BY <1>1, <2>1 DEF ReleasedWhenDrained, QueueInv, LoopInv
<1> QED
  BY <1>1, QueueInvariant, PTL

(***************************************************************************)
(* The safety part of ImplementsReportLog: every step of the queue is a    *)
(* step of ReportLog or leaves accepted, handled and the phase unchanged.  *)
(***************************************************************************)
THEOREM RefinesReportLog == QueueSpec => Log!Init /\ [][Log!Next]_Log!logVars
<1> DEFINE phase == CASE worker = "notStarted" -> "created"
                      [] worker = "exited" -> "finished"
                      [] OTHER -> "running"
<1>1. QueueInit => Log!Init
  BY DEF QueueInit, Log!Init
<1>2. ASSUME QueueInv, [QueueNext]_queueVars PROVE [Log!Next]_Log!logVars
  <2> USE <1>2 DEF reporter, history, Log!logVars
  <2>1. CASE Start
    BY <2>1 DEF Start, Log!Begin, Log!Next
  <2>2. CASE Work
    BY <2>2 DEF Work, Log!Handle, Log!Next, QueueInv, QueueTypeOK, OrderInv, Held
  <2>3. CASE Exit
    BY <2>3 DEF Exit, Log!Finish, Log!Next, QueueInv, QueueTypeOK, OrderInv, Held
  <2>4. ASSUME NEW c \in Cases, ReportSend(c) PROVE Log!Accept(c)
    BY <2>4 DEF ReportSend, Log!Accept, QueueInv, OrderInv, LoopInv
  <2>5. CASE Stop \/ Receive \/ Done
    BY <2>5 DEF Stop, Receive, Done
  <2>6. ASSUME NEW c \in Cases, ReportReject(c) \/ ReportAdmit(c) \/ ReportPanic(c)
        PROVE  UNCHANGED Log!logVars
    BY <2>6 DEF ReportReject, ReportAdmit, ReportPanic
  <2>7. CASE UNCHANGED queueVars
    BY <2>7 DEF queueVars
  <2> QED
    BY <2>1, <2>2, <2>3, <2>4, <2>5, <2>6, <2>7 DEF QueueNext, Report, Log!Next
<1> QED
  BY <1>1, <1>2, QueueInvariant, PTL DEF QueueSpec
=============================================================================
