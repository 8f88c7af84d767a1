-------------------------- MODULE ReporterProofs --------------------------
(***************************************************************************)
(* Proofs about the two reporters, for every number of cases, queue size   *)
(* and number of error events.  Both inherit what WorkQueueProofs proves   *)
(* of the queue, because each of their steps is a step of the queue.  In   *)
(* the Kafka reporter the work loop and the monitor share a counter, and   *)
(* no case is counted twice or forgotten.                                  *)
(***************************************************************************)
EXTENDS DummyReporter, KafkaReporter, WorkQueueProofs

LEMMA NextIsQueueStep == [Next]_vars => [QueueNext]_queueVars
BY DEF Next, QueueStep, KafkaStart, WorkFails, WorkProduces, KafkaExit, LibraryError, MonitorEvent,
       MonitorExit, DeliveryReport, QueueNext, vars

\* Every behaviour of the Kafka reporter is a behaviour of the shared queue.
THEOREM IsQueue == Spec => QueueSpec
<1>1. Init => QueueInit
  BY DEF Init
<1> QED
  BY <1>1, NextIsQueueStep, PTL DEF Spec, QueueSpec

-----------------------------------------------------------------------------
EventKinds == {"delivered", "failed", "error"}
IsHandled(c) == \E i \in 1..Len(handled) : handled[i] = c

ProducerType ==
  /\ inFlight \subseteq Cases /\ dropped \subseteq Cases
  /\ IsFiniteSet(inFlight) /\ IsFiniteSet(dropped)
  /\ events \in Seq(EventKinds)
  /\ open \in BOOLEAN
  /\ errors \in 0..MaxErrors

CounterType == counts \in [Codes -> Nat] /\ monitor \in {"notStarted", "running", "exited"}

\* The producer is open while the work loop runs; it holds cases of that loop, and
\* drops them at its end.
ProducerInv ==
  /\ open <=> worker \notin {"notStarted", "exited"}
  /\ \A c \in inFlight : IsHandled(c)
  /\ worker # "exited" => dropped = {}
  /\ worker = "exited" => inFlight = {}

\* The monitor outlives the work loop, and leaves no event behind.
MonitorInv ==
  /\ monitor = "notStarted" <=> worker = "notStarted"
  /\ monitor = "exited" => worker = "exited" /\ events = <<>>

\* The error events have a code of their own.
ErrorsCounted == counts["503"] + Pending({"error"}) = errors

KafkaInv == ProducerType /\ CounterType /\ ProducerInv /\ MonitorInv /\ OutcomesConserved /\ ErrorsCounted

-----------------------------------------------------------------------------
\* Where the events of some kinds are.
Marks(s, K) == {i \in 1..Len(s) : s[i] \in K}

LEMMA MarksFinite ==
  ASSUME NEW s \in Seq(EventKinds), NEW K
  PROVE  IsFiniteSet(Marks(s, K)) /\ Cardinality(Marks(s, K)) \in Nat
<1>1. IsFiniteSet(1..Len(s)) /\ Marks(s, K) \in SUBSET (1..Len(s))
  BY FS_Interval DEF Marks
<1>2. IsFiniteSet(Marks(s, K))
  BY <1>1, FS_Subset
<1> QED
  BY <1>2, FS_CardinalityType

\* An event added at the end counts for its own kind only.
LEMMA MarksAppend ==
  ASSUME NEW s \in Seq(EventKinds), NEW e \in EventKinds, NEW K
  PROVE  Cardinality(Marks(Append(s, e), K)) = Cardinality(Marks(s, K)) + (IF e \in K THEN 1 ELSE 0)
<1> DEFINE n == Len(s) + 1
<1>1. /\ n \in Nat /\ Len(Append(s, e)) = n /\ Append(s, e)[n] = e
      /\ \A i \in 1..Len(s) : Append(s, e)[i] = s[i]
  OBVIOUS
<1>2. Marks(Append(s, e), K) = IF e \in K THEN Marks(s, K) \cup {n} ELSE Marks(s, K)
  BY <1>1 DEF Marks
<1>3. n \notin Marks(s, K)
  BY DEF Marks
<1>4. Cardinality(Marks(s, K) \cup {n}) = Cardinality(Marks(s, K)) + 1
  BY <1>3, MarksFinite, FS_AddElement
<1> QED
  BY <1>2, <1>4, MarksFinite

\* So does the first one, when it is taken.
LEMMA MarksTail ==
  ASSUME NEW s \in Seq(EventKinds), s # <<>>, NEW K
  PROVE  Cardinality(Marks(s, K)) = Cardinality(Marks(Tail(s), K)) + (IF Head(s) \in K THEN 1 ELSE 0)
<1> DEFINE S == Marks(Tail(s), K)
           T == Marks(s, K) \ {1}
           f == [i \in S |-> i + 1]
<1>1. /\ Len(s) \in Nat /\ Len(s) >= 1 /\ Len(Tail(s)) = Len(s) - 1 /\ s[1] = Head(s)
      /\ Tail(s) \in Seq(EventKinds)
      /\ \A i \in 1..Len(Tail(s)) : Tail(s)[i] = s[i + 1]
  OBVIOUS
<1>2. IsFiniteSet(S) /\ Cardinality(S) \in Nat
  BY <1>1, MarksFinite
<1>3. f \in Bijection(S, T)
  <2> USE DEF Marks
  <2>1. f \in [S -> T]
    BY <1>1
  <2>2. \A a, b \in S : f[a] = f[b] => a = b
    OBVIOUS
  <2>3. \A t \in T : \E a \in S : f[a] = t
    <3> SUFFICES ASSUME NEW t \in T PROVE t - 1 \in S /\ f[t - 1] = t
      OBVIOUS
    <3>1. t \in 2..Len(s) /\ s[t] \in K
      BY <1>1
    <3>2. t - 1 \in 1..Len(Tail(s)) /\ Tail(s)[t - 1] = s[t]
      BY <1>1, <3>1
    <3> QED
      BY <3>1, <3>2
  <2> QED
    BY <2>1, <2>2, <2>3 DEF Bijection, Injection, IsInjective, Surjection
<1>4. IsFiniteSet(T) /\ Cardinality(T) = Cardinality(S)
  BY <1>2, <1>3, FS_Bijection DEF ExistsBijection
<1>5. Marks(s, K) = IF Head(s) \in K THEN T \cup {1} ELSE T
  BY <1>1 DEF Marks
<1>6. 1 \notin T
  OBVIOUS
<1> HIDE DEF S, T, f
<1>7. Cardinality(T \cup {1}) = Cardinality(T) + 1
  BY <1>4, <1>6, FS_AddElement
<1> QED
  BY <1>2, <1>4, <1>5, <1>7 DEF S

\* What waits for the monitor, when the library adds an event and when the monitor
\* takes one.
LEMMA PendingIsMarks ==
  ASSUME NEW K PROVE Pending(K) = Cardinality(Marks(events, K)) /\ Pending(K)' = Cardinality(Marks(events', K))
BY DEF Pending, Marks

LEMMA EventAdded ==
  ASSUME events \in Seq(EventKinds), NEW e \in EventKinds, events' = Append(events, e), NEW K
  PROVE  Pending(K) \in Nat /\ Pending(K)' = Pending(K) + (IF e \in K THEN 1 ELSE 0)
BY PendingIsMarks, MarksFinite, MarksAppend

LEMMA EventTaken ==
  ASSUME events \in Seq(EventKinds), events # <<>>, events' = Tail(events), NEW K
  PROVE  Pending(K)' \in Nat /\ Pending(K) = Pending(K)' + (IF Head(events) \in K THEN 1 ELSE 0)
<1>1. Tail(events) \in Seq(EventKinds)
  OBVIOUS
<1>2. Pending(K) = Cardinality(Marks(events, K))
  BY PendingIsMarks
<1>3. Pending(K)' = Cardinality(Marks(Tail(events), K))
  BY PendingIsMarks
<1>4. Cardinality(Marks(Tail(events), K)) \in Nat
  BY <1>1, MarksFinite
<1>5. Cardinality(Marks(events, K)) = Cardinality(Marks(Tail(events), K)) + (IF Head(events) \in K THEN 1 ELSE 0)
  BY MarksTail
<1> QED
  BY <1>2, <1>3, <1>4, <1>5

LEMMA NoEventPending ==
  ASSUME events = <<>>, NEW K PROVE Pending(K) = 0
<1>1. {i \in 1..Len(events) : events[i] \in K} = {}
  OBVIOUS
<1> QED
  BY <1>1, FS_EmptySet DEF Pending

-----------------------------------------------------------------------------
LEMMA KafkaInit == Init => KafkaInv
<1> SUFFICES ASSUME Init PROVE KafkaInv
  OBVIOUS
<1>1. /\ inFlight = {} /\ dropped = {} /\ events = <<>> /\ ~open /\ open \in BOOLEAN /\ errors = 0
      /\ counts = [s \in Codes |-> 0] /\ monitor = "notStarted"
      /\ worker = "notStarted" /\ handled = <<>>
  BY DEF Init, QueueInit
<1>2. ProducerType
  BY <1>1, FS_EmptySet, MaxErrorsAssumption DEF ProducerType
<1>3. CounterType /\ ProducerInv /\ MonitorInv
  BY <1>1 DEF CounterType, ProducerInv, MonitorInv
<1>4. OutcomesConserved
  BY <1>1, FS_EmptySet, NoEventPending DEF OutcomesConserved, Codes
<1>5. ErrorsCounted
  BY <1>1, NoEventPending DEF ErrorsCounted, Codes
<1> QED
  BY <1>2, <1>3, <1>4, <1>5 DEF KafkaInv

\* The case the work loop holds has not been handed to the producer before.
LEMMA CurrentIsNew ==
  ASSUME QueueInv, Distinct, ProducerType, ProducerInv, worker = "work"
  PROVE  /\ current \in Cases /\ current \notin inFlight
         /\ handled \in Seq(Cases)
<1>1. /\ current \in Cases /\ handled \in Seq(Cases) /\ accepted \in Seq(Cases)
      /\ current = accepted[Len(handled) + 1]
      /\ Len(accepted) = Len(handled) + 1 + Len(workQueue) /\ Len(workQueue) \in Nat
      /\ \A i \in 1..Len(handled) : handled[i] = accepted[i]
  BY DEF QueueInv, QueueTypeOK, OrderInv, LoopInv, Busy, Held
<1>2. ASSUME NEW i \in 1..Len(handled), handled[i] = current PROVE FALSE
  <2>1. i \in 1..Len(accepted) /\ Len(handled) + 1 \in 1..Len(accepted) /\ i # Len(handled) + 1
    BY <1>1
  <2>2. accepted[i] = accepted[Len(handled) + 1]
    BY <1>1, <1>2
  <2> QED
    BY <2>1, <2>2 DEF Distinct
<1> QED
  BY <1>1, <1>2 DEF ProducerInv, IsHandled

LEMMA ProducerTypeStep ==
  ASSUME QueueInv, KafkaInv, [Next]_vars
  PROVE  ProducerType'
<1> USE DEF KafkaInv, ProducerType
<1>1. CASE KafkaStart
  BY <1>1 DEF KafkaStart
<1>2. CASE WorkProduces
  <2>1. current \in Cases
    BY <1>2 DEF WorkProduces, Work, QueueInv, LoopInv, Busy
  <2>2. IsFiniteSet(inFlight \cup {current})
    BY FS_AddElement
  <2> QED
    BY <1>2, <2>1, <2>2 DEF WorkProduces
<1>3. ASSUME NEW c \in Cases, DeliveryReport(c) PROVE ProducerType'
  <2>1. IsFiniteSet(inFlight \ {c})
    BY FS_RemoveElement
  <2>2. events' \in Seq(EventKinds)
    BY <1>3 DEF DeliveryReport, EventKinds
  <2> QED
    BY <1>3, <2>1, <2>2 DEF DeliveryReport
<1>4. CASE LibraryError
  <2>1. events' \in Seq(EventKinds)
    BY <1>4 DEF LibraryError, EventKinds
  <2>2. errors' \in 0..MaxErrors
    BY <1>4, MaxErrorsAssumption DEF LibraryError
  <2> QED
    BY <1>4, <2>1, <2>2 DEF LibraryError
<1>5. CASE MonitorEvent
  BY <1>5 DEF MonitorEvent
<1>6. CASE KafkaExit
  BY <1>6, FS_EmptySet DEF KafkaExit
<1>7. CASE WorkFails \/ MonitorExit \/ QueueStep \/ UNCHANGED vars
  BY <1>7 DEF WorkFails, MonitorExit, QueueStep, vars, producer
<1> QED
  BY <1>1, <1>2, <1>3, <1>4, <1>5, <1>6, <1>7 DEF Next

LEMMA CounterTypeStep ==
  ASSUME KafkaInv, [Next]_vars
  PROVE  CounterType'
<1> USE DEF KafkaInv, CounterType
<1>1. ASSUME NEW s, s \in Codes, Count(s) PROVE counts' \in [Codes -> Nat]
  BY <1>1 DEF Count
<1>2. CASE WorkFails
  BY <1>1, <1>2 DEF WorkFails, Codes
<1>3. CASE MonitorEvent
  <2>1. Head(events) \in EventKinds
    BY <1>3 DEF MonitorEvent, ProducerType
  <2>2. CodeOf[Head(events)] \in Codes
    BY <2>1 DEF EventKinds, CodeOf, Codes
  <2> QED
    BY <1>1, <1>3, <2>2 DEF MonitorEvent
<1>4. CASE ~(WorkFails \/ MonitorEvent)
  BY <1>4 DEF Next, KafkaStart, WorkProduces, KafkaExit, LibraryError, MonitorExit, DeliveryReport,
              QueueStep, vars
<1> QED
  BY <1>2, <1>3, <1>4

\* The steps of the shared queue that are not steps of the reporter.
LEMMA QueueStepKeeps ==
  ASSUME QueueStep
  PROVE  /\ UNCHANGED <<handled, producer, monitor, counts>>
         /\ worker' = "notStarted" <=> worker = "notStarted"
         /\ worker' = "exited" <=> worker = "exited"
BY DEF QueueStep, Stop, Receive, Done, Report, ReportReject, ReportAdmit, ReportSend, ReportPanic, history

LEMMA ProducerStep ==
  ASSUME QueueInv, KafkaInv, [Next]_vars
  PROVE  ProducerInv'
<1> USE DEF KafkaInv, ProducerInv
<1>1. CASE KafkaStart
  BY <1>1 DEF KafkaStart, Start, history, IsHandled
<1>2. ASSUME Work PROVE IsHandled(current)' /\ \A c : IsHandled(c) => IsHandled(c)'
  <2>1. /\ handled \in Seq(Cases) /\ current \in Cases /\ handled' = Append(handled, current)
    BY <1>2 DEF Work, QueueInv, QueueTypeOK, LoopInv, Busy
  <2>2. /\ Len(handled') = Len(handled) + 1 /\ Len(handled) \in Nat
        /\ handled'[Len(handled) + 1] = current
        /\ \A i \in 1..Len(handled) : handled'[i] = handled[i]
    BY <2>1
  <2>3. current' = current
    BY <1>2 DEF Work
  <2> QED
    BY <2>2, <2>3 DEF IsHandled
<1>3. CASE WorkProduces
  BY <1>2, <1>3 DEF WorkProduces, Work
<1>4. CASE WorkFails
  BY <1>2, <1>4 DEF WorkFails, Work, producer
<1>5. CASE KafkaExit
  BY <1>5 DEF KafkaExit, Exit
<1>6. CASE QueueStep
  BY <1>6, QueueStepKeeps DEF producer, IsHandled
<1>7. ASSUME NEW c \in Cases, DeliveryReport(c) PROVE ProducerInv'
  BY <1>7 DEF DeliveryReport, IsHandled, queueVars
<1>8. CASE LibraryError \/ MonitorEvent \/ MonitorExit \/ UNCHANGED vars
  BY <1>8 DEF LibraryError, MonitorEvent, MonitorExit, IsHandled, queueVars, producer, vars
<1> QED
  BY <1>1, <1>3, <1>4, <1>5, <1>6, <1>7, <1>8 DEF Next

LEMMA MonitorStep ==
  ASSUME KafkaInv, [Next]_vars
  PROVE  MonitorInv'
<1> USE DEF KafkaInv, MonitorInv, ProducerInv
<1>1. CASE KafkaStart
  BY <1>1 DEF KafkaStart, Start
<1>2. CASE WorkProduces \/ WorkFails
  BY <1>2 DEF WorkProduces, WorkFails, Work, producer
<1>3. CASE KafkaExit
  BY <1>3 DEF KafkaExit, Exit
<1>4. CASE QueueStep
  BY <1>4, QueueStepKeeps DEF producer
<1>5. ASSUME NEW c \in Cases, DeliveryReport(c) PROVE MonitorInv'
  BY <1>5 DEF DeliveryReport, queueVars
<1>6. CASE LibraryError \/ MonitorEvent \/ MonitorExit \/ UNCHANGED vars
  BY <1>6 DEF LibraryError, MonitorEvent, MonitorExit, queueVars, producer, vars
<1> QED
  BY <1>1, <1>2, <1>3, <1>4, <1>5, <1>6 DEF Next

\* The counters of the codes are numbers; one of them goes up by one.
LEMMA Counting ==
  ASSUME CounterType, NEW s \in Codes, Count(s)
  PROVE  \A t \in Codes : counts[t] \in Nat /\ counts'[t] = counts[t] + (IF t = s THEN 1 ELSE 0)
BY DEF CounterType, Count

LEMMA OutcomesStep ==
  ASSUME QueueInv, Distinct, KafkaInv, [Next]_vars
  PROVE  OutcomesConserved' /\ ErrorsCounted'
<1> DEFINE D == {"delivered", "failed"}
           E == {"error"}
           R == Pending(D)
           X == Pending(E)
           H == Len(handled)
           A == counts["200"]
           B == counts["500"]
           C == counts["503"]
           F == Cardinality(inFlight)
           G == Cardinality(dropped)
<1> USE DEF KafkaInv
<1>0. H = A + B + R + F + G /\ C + X = errors
  BY DEF OutcomesConserved, ErrorsCounted
<1> SUFFICES H' = A' + B' + R' + F' + G' /\ C' + X' = errors'
  BY DEF OutcomesConserved, ErrorsCounted
<1>1. "200" \in Codes /\ "500" \in Codes /\ "503" \in Codes /\ events \in Seq(EventKinds)
  BY DEF Codes, ProducerType
<1>2. /\ A \in Int /\ B \in Int /\ C \in Int /\ R \in Int /\ X \in Int
      /\ F \in Int /\ G \in Int /\ errors \in Int
  <2>1. Cardinality(inFlight) \in Nat /\ Cardinality(dropped) \in Nat
    BY FS_CardinalityType DEF ProducerType
  <2>2. R \in Nat /\ X \in Nat
    BY <1>1, PendingIsMarks, MarksFinite
  <2>3. counts["200"] \in Nat /\ counts["500"] \in Nat /\ counts["503"] \in Nat /\ errors \in Nat
    BY <1>1, MaxErrorsAssumption DEF CounterType, ProducerType
  <2> QED
    BY ONLY <2>1, <2>2, <2>3
<1>3. ASSUME UNCHANGED <<events, errors>> PROVE R' = R /\ X' = X
  BY <1>3 DEF Pending
<1>4. ASSUME Work PROVE Len(handled') = Len(handled) + 1 /\ Len(handled) \in Nat
  <2>1. handled \in Seq(Cases) /\ current \in Cases /\ handled' = Append(handled, current)
    BY <1>4 DEF Work, QueueInv, QueueTypeOK, LoopInv, Busy
  <2> QED
    BY <2>1
<1> HIDE DEF R, X, H, A, B, C, F, G
<1>5. CASE WorkFails
  <2>1. counts'["500"] = counts["500"] + 1 /\ counts'["200"] = counts["200"] /\ counts'["503"] = counts["503"]
    BY <1>1, <1>2, <1>5, Counting DEF WorkFails, A, B, C
  <2>2. UNCHANGED <<events, errors, inFlight, dropped>> /\ Work
    BY <1>5 DEF WorkFails, producer
  <2>3. Cardinality(inFlight') = Cardinality(inFlight) /\ Cardinality(dropped') = Cardinality(dropped)
    BY ONLY <2>2
  <2>4. R' = R /\ X' = X /\ errors' = errors
    BY <1>3, <2>2
  <2>5. Len(handled') = Len(handled) + 1
    BY <1>4, <2>2
  <2>6. /\ H' = H + 1 /\ A' = A /\ B' = B + 1 /\ C' = C
        /\ R' = R /\ X' = X /\ F' = F /\ G' = G /\ errors' = errors
    BY ONLY <2>1, <2>3, <2>4, <2>5 DEF H, A, B, C, F, G
  <2> QED
    BY ONLY <1>0, <1>2, <2>6
<1>6. CASE WorkProduces
  <2>1. current \notin inFlight /\ IsFiniteSet(inFlight) /\ inFlight' = inFlight \cup {current}
    BY <1>6, CurrentIsNew DEF WorkProduces, Work, ProducerType
  <2>2. Cardinality(inFlight') = Cardinality(inFlight) + 1
    BY <2>1, FS_AddElement
  <2>3. UNCHANGED <<events, errors, counts, dropped>> /\ Work
    BY <1>6 DEF WorkProduces
  <2>4. counts'["200"] = counts["200"] /\ counts'["500"] = counts["500"] /\ counts'["503"] = counts["503"]
    BY ONLY <2>3
  <2>5. Cardinality(dropped') = Cardinality(dropped) /\ errors' = errors
    BY ONLY <2>3
  <2>6. R' = R /\ X' = X
    BY <1>3, <2>3
  <2>7. Len(handled') = Len(handled) + 1
    BY <1>4, <2>3
  <2>8. /\ H' = H + 1 /\ A' = A /\ B' = B /\ C' = C
        /\ R' = R /\ X' = X /\ F' = F + 1 /\ G' = G /\ errors' = errors
    BY ONLY <2>2, <2>4, <2>5, <2>6, <2>7 DEF H, A, B, C, F, G
  <2> QED
    BY ONLY <1>0, <1>2, <2>8
<1>7. ASSUME NEW c \in Cases, DeliveryReport(c) PROVE  H' = A' + B' + R' + F' + G' /\ C' + X' = errors'
  <2>1. PICK kind \in {"delivered", "failed"} : events' = Append(events, kind)
    BY <1>7 DEF DeliveryReport
  <2>2. R' = R + 1 /\ X' = X
    <3>1. kind \in D /\ kind \notin E /\ kind \in EventKinds
      BY DEF D, E, EventKinds
    <3>2. \A K : Pending(K)' = Pending(K) + (IF kind \in K THEN 1 ELSE 0)
      BY <1>1, <2>1, <3>1, EventAdded
    <3> QED
      BY <1>2, <3>1, <3>2 DEF R, X
  <2>3. Cardinality(inFlight') = Cardinality(inFlight) - 1
    BY <1>7, FS_RemoveElement DEF DeliveryReport, ProducerType
  <2>4. UNCHANGED <<counts, dropped, errors, handled>>
    BY <1>7 DEF DeliveryReport, queueVars
  <2>5. counts'["200"] = counts["200"] /\ counts'["500"] = counts["500"] /\ counts'["503"] = counts["503"]
    BY ONLY <2>4
  <2>6. Cardinality(dropped') = Cardinality(dropped) /\ errors' = errors /\ Len(handled') = Len(handled)
    BY ONLY <2>4
  <2>7. /\ H' = H /\ A' = A /\ B' = B /\ C' = C
        /\ R' = R + 1 /\ X' = X /\ F' = F - 1 /\ G' = G /\ errors' = errors
    BY ONLY <2>2, <2>3, <2>5, <2>6 DEF H, A, B, C, F, G
  <2> QED
    BY ONLY <1>0, <1>2, <2>7
<1>8. CASE LibraryError
  <2>1. R' = R /\ X' = X + 1
    <3>1. "error" \notin D /\ "error" \in E /\ "error" \in EventKinds /\ events' = Append(events, "error")
      BY <1>8 DEF D, E, EventKinds, LibraryError
    <3>2. \A K : Pending(K)' = Pending(K) + (IF "error" \in K THEN 1 ELSE 0)
      BY <1>1, <3>1, EventAdded
    <3> QED
      BY <1>2, <3>1, <3>2 DEF R, X
  <2>2. UNCHANGED <<counts, dropped, inFlight, handled>> /\ errors' = errors + 1
    BY <1>8 DEF LibraryError, queueVars
  <2>3. counts'["200"] = counts["200"] /\ counts'["500"] = counts["500"] /\ counts'["503"] = counts["503"]
    BY ONLY <2>2
  <2>4. Cardinality(inFlight') = Cardinality(inFlight) /\ Cardinality(dropped') = Cardinality(dropped) /\ Len(handled') = Len(handled)
    BY ONLY <2>2
  <2>5. /\ H' = H /\ A' = A /\ B' = B /\ C' = C
        /\ R' = R /\ X' = X + 1 /\ F' = F /\ G' = G /\ errors' = errors + 1
    BY ONLY <2>1, <2>2, <2>3, <2>4 DEF H, A, B, C, F, G
  <2> QED
    BY ONLY <1>0, <1>2, <2>5
<1>9. CASE MonitorEvent
  <2> DEFINE e == Head(events)
  <2>1. events # <<>> /\ events' = Tail(events) /\ e \in EventKinds /\ Count(CodeOf[e])
    BY <1>1, <1>9 DEF MonitorEvent
  <2>2. \A K : Pending(K)' \in Nat /\ Pending(K) = Pending(K)' + (IF e \in K THEN 1 ELSE 0)
    BY <1>1, <2>1, EventTaken
  <2>3. UNCHANGED <<dropped, inFlight, handled, errors>>
    BY <1>9 DEF MonitorEvent, queueVars
  <2>5. Cardinality(inFlight') = Cardinality(inFlight) /\ Cardinality(dropped') = Cardinality(dropped) /\ Len(handled') = Len(handled) /\ errors' = errors
    BY ONLY <2>3
  <2> HIDE DEF e
  <2>6. CASE e = "error"
    <3>1. CodeOf[e] = "503" /\ e \notin D /\ e \in E
      BY <2>6 DEF CodeOf, D, E
    <3>2. counts'["503"] = counts["503"] + 1 /\ counts'["200"] = counts["200"] /\ counts'["500"] = counts["500"]
      BY <1>1, <1>2, <2>1, <3>1, Counting DEF A, B, C
    <3>3. R' = R /\ X' = X - 1
      BY <1>2, <2>2, <3>1 DEF R, X
    <3>4. /\ H' = H /\ A' = A /\ B' = B /\ C' = C + 1
          /\ R' = R /\ X' = X - 1 /\ F' = F /\ G' = G /\ errors' = errors
      BY ONLY <2>5, <3>2, <3>3 DEF H, A, B, C, F, G
    <3> QED
      BY ONLY <1>0, <1>2, <3>4
  <2>7. CASE e = "delivered"
    <3>1. CodeOf[e] = "200" /\ e \in D /\ e \notin E
      BY <2>7 DEF CodeOf, D, E
    <3>2. counts'["200"] = counts["200"] + 1 /\ counts'["503"] = counts["503"] /\ counts'["500"] = counts["500"]
      BY <1>1, <1>2, <2>1, <3>1, Counting DEF A, B, C
    <3>3. R' = R - 1 /\ X' = X
      BY <1>2, <2>2, <3>1 DEF R, X
    <3>4. /\ H' = H /\ A' = A + 1 /\ B' = B /\ C' = C
          /\ R' = R - 1 /\ X' = X /\ F' = F /\ G' = G /\ errors' = errors
      BY ONLY <2>5, <3>2, <3>3 DEF H, A, B, C, F, G
    <3> QED
      BY ONLY <1>0, <1>2, <3>4
  <2>8. CASE e = "failed"
    <3>1. CodeOf[e] = "500" /\ e \in D /\ e \notin E
      BY <2>8 DEF CodeOf, D, E
    <3>2. counts'["500"] = counts["500"] + 1 /\ counts'["503"] = counts["503"] /\ counts'["200"] = counts["200"]
      BY <1>1, <1>2, <2>1, <3>1, Counting DEF A, B, C
    <3>3. R' = R - 1 /\ X' = X
      BY <1>2, <2>2, <3>1 DEF R, X
    <3>4. /\ H' = H /\ A' = A /\ B' = B + 1 /\ C' = C
          /\ R' = R - 1 /\ X' = X /\ F' = F /\ G' = G /\ errors' = errors
      BY ONLY <2>5, <3>2, <3>3 DEF H, A, B, C, F, G
    <3> QED
      BY ONLY <1>0, <1>2, <3>4
  <2> QED
    BY <2>1, <2>6, <2>7, <2>8 DEF EventKinds
<1>10. CASE KafkaExit
  <2>1. dropped = {} /\ dropped' = inFlight /\ inFlight' = {}
    BY <1>10 DEF KafkaExit, Exit, ProducerInv
  <2>2. Cardinality(dropped') = Cardinality(inFlight) /\ Cardinality(dropped) = 0 /\ Cardinality(inFlight') = 0
    BY <2>1, FS_EmptySet
  <2>3. UNCHANGED <<events, errors, counts, handled>>
    BY <1>10 DEF KafkaExit, Exit, history
  <2>4. counts'["200"] = counts["200"] /\ counts'["500"] = counts["500"] /\ counts'["503"] = counts["503"]
    BY ONLY <2>3
  <2>5. Len(handled') = Len(handled) /\ errors' = errors
    BY ONLY <2>3
  <2>6. R' = R /\ X' = X
    BY <1>3, <2>3
  <2>7. /\ H' = H /\ A' = A /\ B' = B /\ C' = C
        /\ R' = R /\ X' = X /\ errors' = errors /\ G' = F /\ G = 0 /\ F' = 0
    BY ONLY <2>2, <2>4, <2>5, <2>6 DEF H, A, B, C, F, G
  <2> QED
    BY ONLY <1>0, <1>2, <2>7
<1>11. CASE UNCHANGED <<events, errors, counts, handled, inFlight, dropped>>
  BY <1>0, <1>3, <1>11 DEF H, A, B, C, F, G
<1>12. KafkaStart \/ MonitorExit \/ QueueStep \/ UNCHANGED vars =>
         UNCHANGED <<events, errors, counts, handled, inFlight, dropped>>
  BY QueueStepKeeps DEF KafkaStart, Start, MonitorExit, vars, queueVars, producer, history
<1> QED
  BY <1>5, <1>6, <1>7, <1>8, <1>9, <1>10, <1>11, <1>12 DEF Next

\* The inductive invariant of the Kafka reporter.  It stands on that of the queue: the
\* case the work loop holds is new, because no case is accepted twice.
THEOREM KafkaInvariant == Spec => []KafkaInv
<1>1. ASSUME QueueInv, Distinct, KafkaInv, [Next]_vars PROVE KafkaInv'
  BY <1>1, ProducerTypeStep, CounterTypeStep, ProducerStep, MonitorStep, OutcomesStep DEF KafkaInv
<1> QED
  BY <1>1, KafkaInit, IsQueue, QueueInvariant, AcceptedOnce, PTL DEF Spec

\* The type invariant of the Kafka reporter.
THEOREM TypeCorrect == Spec => []TypeOK
<1>1. QueueInv /\ KafkaInv => TypeOK
  BY DEF QueueInv, KafkaInv, ProducerType, CounterType, TypeOK, EventKinds
<1> QED
  BY <1>1, KafkaInvariant, IsQueue, QueueInvariant, PTL

\* Every case the work loop dealt with is counted once, waits for the monitor, is in
\* flight, or was dropped when the producer was closed.
THEOREM OutcomesAreConserved == Spec => []OutcomesConserved
<1>1. KafkaInv => OutcomesConserved
  BY DEF KafkaInv
<1> QED
  BY <1>1, KafkaInvariant, PTL

\* Report of the Kafka reporter never blocks while it holds the mutex.
THEOREM ReportNeverBlocks == Spec => []SenderNeverBlocks
BY IsQueue, NeverBlocks, PTL

\* Once both goroutines have ended the counter accounts for every case accepted, but for
\* those the Close dropped, and for every error event: what StopSettles promises, when
\* it is reached.
THEOREM SettledCounts ==
  Spec => [](monitor = "exited" =>
               /\ counts["200"] + counts["500"] + Cardinality(dropped) = Len(accepted)
               /\ counts["503"] = errors)
<1>1. ASSUME QueueInv, KafkaInv, monitor = "exited"
      PROVE  /\ counts["200"] + counts["500"] + Cardinality(dropped) = Len(accepted)
             /\ counts["503"] = errors
  <2>1. worker = "exited" /\ events = <<>> /\ inFlight = {}
    BY <1>1 DEF KafkaInv, MonitorInv, ProducerInv
  <2>2. workQueue = <<>> /\ Held = 0
    BY <1>1, <2>1 DEF QueueInv, LoopInv, Held
  <2>3. Len(handled) = Len(accepted)
    BY <1>1, <2>2 DEF QueueInv, QueueTypeOK, OrderInv
  <2>4. \A K : Pending(K) = 0
    BY <2>1, NoEventPending
  <2>5. Cardinality(inFlight) = 0
    BY <2>1, FS_EmptySet
  <2>6. /\ counts["200"] \in Nat /\ counts["500"] \in Nat /\ counts["503"] \in Nat
        /\ Cardinality(dropped) \in Nat
    BY <1>1, FS_CardinalityType DEF KafkaInv, CounterType, ProducerType, Codes
  <2> QED
    BY <1>1, <2>3, <2>4, <2>5, <2>6 DEF KafkaInv, OutcomesConserved, ErrorsCounted
<1> QED
  BY <1>1, KafkaInvariant, IsQueue, QueueInvariant, PTL

-----------------------------------------------------------------------------
(***************************************************************************)
(* The file reporter: the same queue, with a counter of its own and the    *)
(* file.                                                                   *)
(***************************************************************************)
LEMMA FileStepIsQueueStep == [FileNext]_fileVars => [QueueNext]_queueVars
BY DEF FileNext, FileQueueStep, FileWorkFails, FileWorkWrites, QueueNext, fileVars

\* Every behaviour of the file reporter is a behaviour of the shared queue.
THEOREM FileIsQueue == FileSpec => QueueSpec
<1>1. FileInit => QueueInit
  BY DEF FileInit
<1> QED
  BY <1>1, FileStepIsQueueStep, PTL DEF FileSpec, QueueSpec

FileInv ==
  /\ QueueInv
  /\ file \in Cases \cup {NoCase}
  /\ metrics \in [FileCodes -> Nat]
  /\ FileCountedOnce

\* Types, and the counter agrees with the number of cases the loop dealt with.
THEOREM FileInvariant == FileSpec => []FileInv
<1>1. FileInit => FileInv
  <2> SUFFICES ASSUME FileInit PROVE FileInv
    OBVIOUS
  <2>1. QueueInv
    BY InitQueueInv DEF FileInit
  <2>2. handled = <<>> /\ metrics = [s \in FileCodes |-> 0] /\ file = NoCase
    BY DEF FileInit, QueueInit
  <2> QED
    BY <2>1, <2>2 DEF FileInv, FileCountedOnce, FileCodes
<1>2. ASSUME FileInv, [FileNext]_fileVars PROVE FileInv'
  <2>1. QueueInv'
    BY <1>2, FileStepIsQueueStep, TypeStep, MutexStep, SlotsStep, OrderStep, LoopStep
       DEF FileInv, QueueInv
  <2>2. handled \in Seq(Cases) /\ (worker = "work" => current \in Cases)
    BY <1>2 DEF FileInv, QueueInv, QueueTypeOK, LoopInv, Busy
  <2> USE DEF FileInv, FileCountedOnce, FileCodes
  <2>3. CASE FileWorkFails
    <3>1. Len(handled') = Len(handled) + 1
      BY <2>2, <2>3 DEF FileWorkFails, Work
    <3> QED
      BY <1>2, <2>1, <2>2, <2>3, <3>1 DEF FileWorkFails, FileCount
  <2>4. CASE FileWorkWrites
    <3>1. Len(handled') = Len(handled) + 1
      BY <2>2, <2>4 DEF FileWorkWrites, Work
    <3> QED
      BY <1>2, <2>1, <2>2, <2>4, <3>1 DEF FileWorkWrites, Work, FileCount
  <2>5. CASE FileQueueStep
    <3>1. UNCHANGED <<file, metrics, handled>>
      BY <2>5 DEF FileQueueStep, Start, Stop, Receive, Done, Exit, Report, ReportReject,
                  ReportAdmit, ReportSend, ReportPanic, history
    <3> QED
      BY <1>2, <2>1, <3>1
  <2>6. CASE UNCHANGED fileVars
    BY <1>2, <2>1, <2>6 DEF fileVars, queueVars
  <2> QED
    BY <1>2, <2>3, <2>4, <2>5, <2>6 DEF FileNext
<1> QED
  BY <1>1, <1>2, PTL DEF FileSpec

\* The type invariant of the file reporter.
THEOREM FileTypeCorrect == FileSpec => []FileTypeOK
<1>1. FileInv => FileTypeOK
  BY DEF FileInv, FileTypeOK, QueueInv
<1> QED
  BY <1>1, FileInvariant, PTL

\* Every case dealt with is counted under exactly one status.
THEOREM FileCounted == FileSpec => []FileCountedOnce
<1>1. FileInv => FileCountedOnce
  BY DEF FileInv
<1> QED
  BY <1>1, FileInvariant, PTL

\* Report of the file reporter never blocks while it holds the mutex.
THEOREM FileReportNeverBlocks == FileSpec => []SenderNeverBlocks
BY FileIsQueue, NeverBlocks, PTL
=============================================================================
