----------------------------- MODULE WorkQueue -----------------------------
(***************************************************************************)
(* The queue shared by the HAR reporters (reporter/dummy-reporter.go and   *)
(* reporter/kafka-reporter.go, which repeat the same code): any number of  *)
(* goroutines call Report, each for the case it has just executed; one     *)
(* goroutine runs doWorkLoop; somebody calls Stop, which takes no lock.    *)
(*                                                                         *)
(* A critical section of qmu that cannot block inside is one step.  Report *)
(* sends on the channel while it holds qmu, so its send is a step of its   *)
(* own, and the mutex stays taken in between.                              *)
(***************************************************************************)
EXTENDS Integers, Sequences, FiniteSets

CONSTANTS Cases,     \* the cases, each reported once, by a goroutine of its own
          NoCase,    \* "nobody": the mutex is free, the worker has no item
          QueueSize  \* cfg.QueueSize, also the capacity of the channel

ASSUME QueueSizeAssumption == QueueSize \in Nat
ASSUME NoCaseAssumption == NoCase \notin Cases

VARIABLES
  qmu,          \* the goroutine that holds the mutex, or NoCase
  queuedItems,
  workQueue,    \* the buffer of the channel
  closed,       \* the channel has been closed
  caller,       \* where the goroutine of each case is in Report
  worker,       \* where doWorkLoop is
  current,      \* the case the work loop has received
  wg,           \* the wait group handed to NewReporter
  accepted,     \* history: the cases sent on the channel, in order
  handled       \* history: the cases the loop body dealt with, in order

reporter == <<qmu, queuedItems, closed, caller>>
history == <<accepted, handled>>
queueVars == <<qmu, queuedItems, workQueue, closed, caller, worker, current, wg,
               accepted, handled>>

CallerStates == {"ready", "sending", "accepted", "rejected", "panicked"}
WorkerStates == {"notStarted", "receive", "work", "done", "exited"}

\* Mutated Quota: `>` for `>=`, and no reserve.
QuotaOverCapacity == QueueSize + 1

\* The admission threshold of Report: four fifths of the queue, rounded up.
Quota == QueueSize - ((QueueSize * 20) \div 100)

QueueInit ==
  /\ qmu = NoCase
  /\ queuedItems = 0
  /\ workQueue = <<>>
  /\ closed = FALSE
  /\ caller = [c \in Cases |-> "ready"]
  /\ worker = "notStarted"
  /\ current = NoCase
  /\ wg = 0
  /\ accepted = <<>>
  /\ handled = <<>>

-----------------------------------------------------------------------------
\* Mutated forms: what the properties below must notice.

\* Unlock that is not deferred.
ReportPanicKeepsLock(c) ==
  /\ caller[c] = "sending"
  /\ closed
  /\ caller' = [caller EXCEPT ![c] = "panicked"]
  /\ UNCHANGED <<qmu, queuedItems, workQueue, closed, worker, current, wg, history>>

\* Stop also throws away what is buffered.
StopDrains ==
  /\ ~closed
  /\ closed' = TRUE
  /\ workQueue' = <<>>
  /\ UNCHANGED <<qmu, queuedItems, caller, worker, current, wg, history>>

\* The error path calls done() a second time.
DoneTwice ==
  /\ worker = "done"
  /\ qmu = NoCase
  /\ \E n \in {1, 2} : queuedItems' = queuedItems - n
  /\ current' = NoCase
  /\ worker' = "receive"
  /\ UNCHANGED <<qmu, workQueue, closed, caller, wg, history>>

\* The work loop starts without taking the wait group.
StartNoAdd ==
  /\ worker = "notStarted"
  /\ worker' = "receive"
  /\ UNCHANGED <<reporter, workQueue, current, wg, history>>

-----------------------------------------------------------------------------
\* Start: the wait group is taken before the work loop runs.
Start ==
  /\ worker = "notStarted"
  /\ worker' = "receive"
  /\ wg' = wg + 1
  /\ UNCHANGED <<reporter, workQueue, current, history>>

\* Report when the quota is used up: "too many requests".
ReportReject(c) ==
  /\ caller[c] = "ready"
  /\ qmu = NoCase
  /\ queuedItems >= Quota
  /\ caller' = [caller EXCEPT ![c] = "rejected"]
  /\ UNCHANGED <<qmu, queuedItems, workQueue, closed, worker, current, wg, history>>

\* Report below the quota: the item is counted, the send is still to come.
ReportAdmit(c) ==
  /\ caller[c] = "ready"
  /\ qmu = NoCase
  /\ queuedItems < Quota
  /\ qmu' = c
  /\ queuedItems' = queuedItems + 1
  /\ caller' = [caller EXCEPT ![c] = "sending"]
  /\ UNCHANGED <<workQueue, closed, worker, current, wg, history>>

\* The send completes when the channel has room; the mutex is released.
ReportSend(c) ==
  /\ caller[c] = "sending"
  /\ ~closed
  /\ Len(workQueue) < QueueSize
  /\ workQueue' = Append(workQueue, c)
  /\ accepted' = Append(accepted, c)
  /\ caller' = [caller EXCEPT ![c] = "accepted"]
  /\ qmu' = NoCase
  /\ UNCHANGED <<queuedItems, closed, worker, current, wg, handled>>

\* A send on a closed channel panics; the deferred Unlock still runs.
ReportPanic(c) ==
  /\ caller[c] = "sending"
  /\ closed
  /\ caller' = [caller EXCEPT ![c] = "panicked"]
  /\ qmu' = NoCase
  /\ UNCHANGED <<queuedItems, workQueue, closed, worker, current, wg, history>>

\* Stop closes the channel, whatever Report is doing.
Stop ==
  /\ ~closed
  /\ closed' = TRUE
  /\ UNCHANGED <<qmu, queuedItems, caller, workQueue, worker, current, wg, history>>

\* The range over the channel yields the oldest item.
Receive ==
  /\ worker = "receive"
  /\ workQueue # <<>>
  /\ current' = Head(workQueue)
  /\ workQueue' = Tail(workQueue)
  /\ worker' = "work"
  /\ UNCHANGED <<reporter, wg, history>>

\* The body of the loop up to done(); what it does is the reporter's own.
Work ==
  /\ worker = "work"
  /\ handled' = Append(handled, current)
  /\ worker' = "done"
  /\ UNCHANGED <<reporter, workQueue, current, wg, accepted>>

\* done() needs the mutex.
Done ==
  /\ worker = "done"
  /\ qmu = NoCase
  /\ queuedItems' = queuedItems - 1
  /\ current' = NoCase
  /\ worker' = "receive"
  /\ UNCHANGED <<qmu, workQueue, closed, caller, wg, history>>

\* The range ends when the channel is closed and drained.
Exit ==
  /\ worker = "receive"
  /\ closed
  /\ workQueue = <<>>
  /\ worker' = "exited"
  /\ wg' = wg - 1
  /\ UNCHANGED <<reporter, workQueue, current, history>>

Report(c) == ReportReject(c) \/ ReportAdmit(c) \/ ReportSend(c) \/ ReportPanic(c)

\* Every step of a reporter is one of these, or leaves the queue alone.
QueueNext ==
  \/ Start \/ Stop \/ Receive \/ Work \/ Done \/ Exit
  \/ \E c \in Cases : Report(c)

QueueSpec == QueueInit /\ [][QueueNext]_queueVars

(***************************************************************************)
(* The scheduler runs every goroutine that can run, and sync.Mutex does    *)
(* not starve a goroutine that waits for it.  Nothing makes anybody call   *)
(* Start, Report or Stop.                                                  *)
(***************************************************************************)
QueueFairness ==
  /\ WF_queueVars(Receive) /\ WF_queueVars(Exit) /\ SF_queueVars(Done)
  /\ \A c \in Cases : WF_queueVars(ReportSend(c) \/ ReportPanic(c))

-----------------------------------------------------------------------------
Busy == worker \in {"work", "done"}
Sending == {c \in Cases : caller[c] = "sending"}
Panicked == {c \in Cases : caller[c] = "panicked"}

QueueTypeOK ==
  /\ qmu \in Cases \cup {NoCase}
  /\ queuedItems \in Int
  /\ workQueue \in Seq(Cases)
  /\ closed \in BOOLEAN
  /\ caller \in [Cases -> CallerStates]
  /\ worker \in WorkerStates
  /\ current \in Cases \cup {NoCase}
  /\ wg \in {0, 1}
  /\ accepted \in Seq(Cases)
  /\ handled \in Seq(Cases)

(***************************************************************************)
(* The mutex is held over a channel send (Report), and the consumer needs  *)
(* the same mutex (done): were the channel ever full at that point, both   *)
(* goroutines would wait for each other.  So a sender always finds room,   *)
(* or a closed channel.                                                    *)
(***************************************************************************)
SenderNeverBlocks ==
  \A c \in Cases : caller[c] = "sending" => closed \/ Len(workQueue) < QueueSize

(***************************************************************************)
(* queuedItems counts the buffered items, the one being worked on, the one *)
(* about to be sent, and for ever each one whose send hit a closed channel *)
(* (Report has no path that takes its increment back).                     *)
(***************************************************************************)
SlotsAccounted ==
  queuedItems = Len(workQueue) + Cardinality(Sending) + Cardinality(Panicked)
                  + (IF Busy THEN 1 ELSE 0)

\* The wait group is held exactly while the work loop runs, so that a waiter
\* released by it finds every accepted case handled (Stop, doWorkLoop).
ReleasedWhenDrained ==
  /\ wg = 1 <=> worker \notin {"notStarted", "exited"}
  /\ worker = "exited" => closed /\ handled = accepted

Log == INSTANCE ReportLog WITH
         phase <- CASE worker = "notStarted" -> "created"
                    [] worker = "exited" -> "finished"
                    [] OTHER -> "running"

\* The queue of both reporters keeps the promise of ReportLog: first accepted,
\* first handled, each exactly once, all of them before the wait group is released.
ImplementsReportLog == Log!Spec

\* Once Stop has been called on a running reporter, its work loop ends.
StopEnds == closed /\ wg = 1 ~> worker = "exited"
=============================================================================
