--------------------------- MODULE KafkaReporter ---------------------------
(***************************************************************************)
(* The Kafka reporter (reporter/kafka-reporter.go): the shared queue, a    *)
(* work loop that hands each report to the producer, and a second          *)
(* goroutine that reads the producer's events and counts the outcomes.     *)
(* The producer library is modelled from its use: Produce either refuses a *)
(* message or takes it, every message taken gets one delivery report while *)
(* the producer is open, and Close drops what has no report yet.           *)
(***************************************************************************)
EXTENDS WorkQueue

CONSTANT MaxErrors  \* bound: the error events the library may raise

ASSUME MaxErrorsAssumption == MaxErrors \in Nat

VARIABLES
  inFlight,   \* external: messages taken by the producer, not reported yet
  events,     \* the producer's event channel
  open,       \* the producer and its event channel are open
  monitor,    \* where monitorProducerEvents is
  counts,     \* the counter, by status code
  dropped,    \* history: the cases in flight when the producer was closed
  errors      \* how many error events there were

producer == <<inFlight, events, open, dropped, errors>>
vars == <<queueVars, producer, monitor, counts>>

Codes == {"200", "500", "503"}
CodeOf == [delivered |-> "200", failed |-> "500", error |-> "503"]

Init ==
  /\ QueueInit
  /\ inFlight = {}
  /\ events = <<>>
  /\ open = FALSE
  /\ monitor = "notStarted"
  /\ counts = [s \in Codes |-> 0]
  /\ dropped = {}
  /\ errors = 0

Count(s) == counts' = [counts EXCEPT ![s] = @ + 1]

\* Start makes the producer and launches both goroutines.
KafkaStart ==
  /\ Start
  /\ open' = TRUE
  /\ monitor' = "running"
  /\ UNCHANGED <<inFlight, events, counts, dropped, errors>>

\* Wrong level, marshalling error, or Produce refuses the message.
WorkFails ==
  /\ Work
  /\ Count("500")
  /\ UNCHANGED <<producer, monitor>>

\* Produce takes the message; the monitor will count it.
WorkProduces ==
  /\ Work
  /\ inFlight' = inFlight \cup {current}
  /\ UNCHANGED <<events, open, dropped, errors, monitor, counts>>

\* The library reports a message, in an order of its own.
DeliveryReport(c) ==
  /\ open
  /\ c \in inFlight
  /\ inFlight' = inFlight \ {c}
  /\ \E kind \in {"delivered", "failed"} : events' = Append(events, kind)
  /\ UNCHANGED <<queueVars, open, dropped, errors, monitor, counts>>

\* The library raises an error that concerns no message.
LibraryError ==
  /\ open
  /\ errors < MaxErrors
  /\ errors' = errors + 1
  /\ events' = Append(events, "error")
  /\ UNCHANGED <<queueVars, inFlight, open, dropped, monitor, counts>>

\* Mutated MonitorEvent: the branch of failed deliveries does not count.
MonitorEventLogsOnly ==
  /\ monitor = "running"
  /\ events # <<>>
  /\ events' = Tail(events)
  /\ IF Head(events) = "failed" THEN UNCHANGED counts ELSE Count(CodeOf[Head(events)])
  /\ UNCHANGED <<queueVars, inFlight, open, dropped, errors, monitor>>

\* One turn of monitorProducerEvents.
MonitorEvent ==
  /\ monitor = "running"
  /\ events # <<>>
  /\ events' = Tail(events)
  /\ Count(CodeOf[Head(events)])
  /\ UNCHANGED <<queueVars, inFlight, open, dropped, errors, monitor>>

\* The event channel is closed and drained.
MonitorExit ==
  /\ monitor = "running"
  /\ ~open
  /\ events = <<>>
  /\ monitor' = "exited"
  /\ UNCHANGED <<queueVars, producer, counts>>

\* Mutated KafkaExit: the wait group is released and the producer left open.
KafkaExitNoClose ==
  /\ Exit
  /\ UNCHANGED <<producer, monitor, counts>>

\* After the range the producer is closed, without a Flush, and the wait group
\* released; the monitor is not waited for.
KafkaExit ==
  /\ Exit
  /\ open' = FALSE
  /\ dropped' = inFlight
  /\ inFlight' = {}
  /\ UNCHANGED <<events, errors, monitor, counts>>

QueueStep ==
  /\ Stop \/ Receive \/ Done \/ \E c \in Cases : Report(c)
  /\ UNCHANGED <<producer, monitor, counts>>

Next ==
  \/ QueueStep \/ KafkaStart \/ WorkFails \/ WorkProduces \/ KafkaExit
  \/ LibraryError \/ MonitorEvent \/ MonitorExit
  \/ \E c \in Cases : DeliveryReport(c)

(***************************************************************************)
(* Goroutines run; nothing obliges the library to report a message before  *)
(* the producer is closed.                                                 *)
(***************************************************************************)
Spec ==
  /\ Init
  /\ [][Next]_vars
  /\ QueueFairness
  /\ WF_vars(WorkFails \/ WorkProduces)
  /\ WF_vars(MonitorEvent) /\ WF_vars(MonitorExit)

-----------------------------------------------------------------------------
Pending(kinds) == Cardinality({i \in 1..Len(events) : events[i] \in kinds})

TypeOK ==
  /\ QueueTypeOK
  /\ inFlight \subseteq Cases
  /\ events \in Seq({"delivered", "failed", "error"})
  /\ open \in BOOLEAN
  /\ monitor \in {"notStarted", "running", "exited"}
  /\ counts \in [Codes -> Nat]
  /\ dropped \subseteq Cases
  /\ errors \in 0..MaxErrors

(***************************************************************************)
(* The work loop and the monitor share the counter and know nothing of     *)
(* each other, yet every case the loop dealt with is counted at most once: *)
(* it is counted, its report waits for the monitor, it is in flight, or it *)
(* was dropped when the producer was closed.                               *)
(***************************************************************************)
OutcomesConserved ==
  Len(handled) = counts["200"] + counts["500"] + Pending({"delivered", "failed"})
                   + Cardinality(inFlight) + Cardinality(dropped)

\* Once Stop has been called on a running reporter, both goroutines end and
\* every case handled is in the counter, except those the Close dropped.
StopSettles ==
  closed /\ wg = 1 ~>
    /\ monitor = "exited"
    /\ counts["200"] + counts["500"] + Cardinality(dropped) = Len(accepted)
    /\ counts["503"] = errors
=============================================================================
