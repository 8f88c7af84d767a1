-------------------------- MODULE KafkaSinkProofs --------------------------
(***************************************************************************)
(* Proofs about the Kafka sink, for every set of definitions and any       *)
(* number of messages and of producers: the driver and the monitors share  *)
(* the statistics without a lock.                                          *)
(***************************************************************************)
EXTENDS KafkaSink, FiniteSetTheorems, TLAPS

\* In the order of the calls; the i-th message is at least the message i.
Rising(s) ==
  /\ \A i, j \in 1..Len(s) : i < j => s[i] < s[j]
  /\ \A i \in 1..Len(s) : i =< s[i]

Held == batch \o items
InStage == {Held[i] : i \in 1..Len(Held)}
Taken == {m \in Messages : fate[m] # "new"}

Where == {"none", "spawned", "range", "taken", "write", "exited"}

\* A monitor that counts an event has its kind, and holds a value it read only then.
Monitors ==
  {r \in [at : Where, on : Producers, kind : Kinds \cup {"none"}, read : Nat] :
     /\ r.at \in {"taken", "write"} => r.kind \in Kinds
     /\ r.at # "write" => r.read = 0}

\* TypeOK in parts, without the bounds of the counters; err and open have a lemma of
\* their own.
ControlType == mode \in Modes /\ pc \in Places /\ call \in Calls /\ kp \in Producers
SequenceType == items \in Seq(Messages) /\ batch \in Seq(Messages) /\ handed \in Seq(Messages)
FateType == fate \in [Messages -> Fates] /\ announced \subseteq Messages
CounterType == stats \in [Counters -> Nat]
LibraryType == events \in [Producers -> Seq(Kinds)] /\ monitor \in [Producers -> Monitors]

TypeInv == ControlType /\ SequenceType /\ FateType /\ CounterType /\ LibraryType
FlagType == err \in BOOLEAN /\ open \in BOOLEAN

\* Which call is where, and what is being sent has left the buffer.
CallInv ==
  /\ pc = "send" => call \in {"sink", "flush", "reset", "close"}
  /\ pc \in {"await", "settle"} => call = "flush"
  /\ pc = "shut" => call \in {"reset", "close"}
  /\ pc = "renew" => call = "reset"
  /\ call = "reset" /\ pc \in {"send", "shut", "renew"} => kp < mode.resets
  /\ pc = "send" => items = <<>>
  /\ pc # "send" => batch = <<>>

\* The driver gives Sink the messages from the first on, and none is counted twice.
TakenInv == \E k \in 0..MaxMessages : Taken = 1..k /\ stats["queued"] =< k

\* What is held is exactly what is buffered, and comes after what was handed over.
HeldInv ==
  /\ Rising(Held)
  /\ \A i \in 1..Len(Held) : fate[Held[i]] = "buffered"
  /\ \A m \in Messages : fate[m] = "buffered" => \E i \in 1..Len(Held) : Held[i] = m

HandedInv ==
  /\ Rising(handed)
  /\ \A i \in 1..Len(handed) : fate[handed[i]] # "new"
  /\ \A i \in 1..Len(handed), j \in 1..Len(Held) : handed[i] < Held[j]
  /\ \A m \in InFlight : \E i \in 1..Len(handed) : handed[i] = m

-----------------------------------------------------------------------------
LEMMA TypeInit == Init => TypeInv /\ CallInv
<1> SUFFICES ASSUME Init PROVE TypeInv /\ CallInv
  OBVIOUS
<1>1. 0 \in Producers
  BY BoundsAssumption DEF Producers
<1>2. Idle \in Monitors /\ Spawned \in Monitors
  BY <1>1 DEF Idle, Spawned, Monitors, Where
<1>3. ControlType
  BY <1>1 DEF Init, ControlType, Places, Calls
<1>4. SequenceType
  BY DEF Init, SequenceType
<1>5. FateType
  BY DEF Init, FateType, Fates
<1>6. CounterType
  BY DEF Init, CounterType, Zero
<1>7. LibraryType
  <2>1. events \in [Producers -> Seq(Kinds)]
    BY DEF Init
  <2>2. monitor \in [Producers -> Monitors]
    BY <1>2 DEF Init
  <2> QED
    BY <2>1, <2>2 DEF LibraryType
<1>8. CallInv
  BY DEF Init, CallInv
<1> QED
  BY <1>3, <1>4, <1>5, <1>6, <1>7, <1>8 DEF TypeInv

LEMMA SequenceSteps ==
  ASSUME NEW S, NEW s \in Seq(S)
  PROVE  /\ <<>> \in Seq(S)
         /\ \A m \in S : Append(s, m) \in Seq(S)
         /\ s # <<>> => Head(s) \in S /\ Tail(s) \in Seq(S)
OBVIOUS

LEMMA ModeType ==
  ASSUME mode \in Modes
  PROVE  /\ mode.bufSize \in Nat /\ mode.bufSize > 0 /\ mode.messages \in Nat
         /\ mode.messages =< MaxMessages /\ mode.resets \in Nat /\ mode.resets =< MaxResets
BY ModesAssumption, BoundsAssumption

LEMMA ControlStep == TypeInv /\ CallInv /\ [Next]_vars => ControlType' /\ CallInv'
<1> SUFFICES ASSUME TypeInv, CallInv, [Next]_vars PROVE ControlType' /\ CallInv'
  OBVIOUS
<1> USE DEF TypeInv, ControlType, CallInv, Places, Calls
<1>1. CASE SinkRefuse
  BY <1>1 DEF SinkRefuse, queue, library
<1>2. ASSUME NEW m \in Messages, SinkProduce(m) PROVE ControlType' /\ CallInv'
  BY <1>2 DEF SinkProduce, library
<1>3. ASSUME NEW m \in Messages, DeliveryReport(m) PROVE ControlType' /\ CallInv'
  BY <1>3 DEF DeliveryReport, driver, queue
<1>4. CASE Flush \/ Close
  BY <1>4 DEF Flush, Close, FlushQueue, library
<1>5. CASE Reset
  BY <1>5 DEF Reset, FlushQueue, library
<1>6. CASE Clear
  BY <1>6 DEF Clear, queue, library
<1>7. CASE SendAsync \/ SendSynch
  <2>1. pc = "send" /\ UNCHANGED <<mode, pc, call, items, kp>>
    BY <1>7 DEF SendAsync, SendSynch, Sending, driver, library
  <2> QED
    BY <2>1
<1>8. CASE SendFails \/ SendRandomError
  <2>1. pc = "send" /\ UNCHANGED <<mode, pc, call, items, kp>>
    BY <1>8 DEF SendFails, SendRandomError, Sending, library
  <2> QED
    BY <2>1
<1>9. CASE SendEnd
  BY <1>9 DEF SendEnd, Return, queue, library
<1>10. CASE AwaitTimeout \/ AwaitDrained
  BY <1>10 DEF AwaitTimeout, AwaitDrained, queue, library
<1>11. CASE Settle
  BY <1>11 DEF Settle, Return, queue, library
<1>12. CASE Shut
  BY <1>12 DEF Shut, queue
<1>13. CASE Renew
  <2>1. kp < mode.resets /\ kp' = kp + 1
    BY <1>13 DEF Renew
  <2>2. kp' \in Producers
    BY <2>1, ModeType, BoundsAssumption DEF Producers
  <2> QED
    BY <1>13, <2>2 DEF Renew, Return, queue
<1>14. CASE RenewFails
  BY <1>14 DEF RenewFails, Return, queue, library
<1>15. ASSUME NEW p \in Producers, Monitor(p) PROVE ControlType' /\ CallInv'
  <2>1. UNCHANGED <<mode, pc, call, items, batch, kp>>
    BY <1>15 DEF Monitor, MonitorStart, MonitorTake, MonitorRead, MonitorWrite, MonitorExit, SetMonitor,
                 driver, queue
  <2> QED
    BY <2>1
<1>16. CASE UNCHANGED vars
  BY <1>16 DEF vars
<1> QED
  BY <1>1, <1>2, <1>3, <1>4, <1>5, <1>6, <1>7, <1>8, <1>9, <1>10, <1>11, <1>12, <1>13, <1>14, <1>15,
     <1>16 DEF Next, Inside

LEMMA SequenceStep == TypeInv /\ CallInv /\ [Next]_vars => SequenceType'
<1> SUFFICES ASSUME TypeInv, CallInv, [Next]_vars PROVE SequenceType'
  OBVIOUS
<1> USE DEF Next, SinkRefuse, SinkProduce, DeliveryReport, Flush, FlushQueue, Clear, Reset, Close, Hand,
       Inside, SendAsync, SendSynch, SendFails, SendRandomError, SendEnd, AwaitTimeout, AwaitDrained,
       Settle, Shut, Renew, RenewFails, Monitor, MonitorStart, MonitorTake, MonitorRead,
       MonitorWrite, MonitorExit, SetMonitor, vars, queue, messages, Sending
<1>1. items' = items \/ items' = <<>> \/ \E m \in Messages : items' = Append(items, m)
  OBVIOUS
<1>2. \/ batch' = batch \/ batch' = <<>> \/ batch' = items \/ \E m \in Messages : batch' = Append(items, m)
      \/ batch # <<>> /\ batch' = Tail(batch)
  OBVIOUS
<1>3. handed' = handed \/ (batch # <<>> /\ handed' = Append(handed, Head(batch)))
  OBVIOUS
<1>4. SequenceType
  BY DEF TypeInv
<1>5. items' \in Seq(Messages)
  BY ONLY <1>1, <1>4, SequenceSteps DEF SequenceType
<1>6. batch' \in Seq(Messages)
  BY ONLY <1>2, <1>4, SequenceSteps DEF SequenceType
<1>7. handed' \in Seq(Messages)
  BY ONLY <1>3, <1>4, SequenceSteps DEF SequenceType
<1> QED
  BY ONLY <1>5, <1>6, <1>7 DEF SequenceType

\* The three ends of produce2Topics.
LEMMA SendEnds ==
  ASSUME CallInv, SendEnd
  PROVE  /\ UNCHANGED <<err, call, batch, items>> /\ pc = "send" /\ batch = <<>>
         /\ \/ /\ pc' = "idle" /\ announced' = IF err THEN Lost ELSE announced
               /\ call = "sink" \/ (call = "flush" /\ err)
            \/ pc' = "await" /\ call = "flush" /\ ~err /\ UNCHANGED announced
            \/ pc' = "shut" /\ call \in {"close", "reset"} /\ UNCHANGED announced
<1>1. pc = "send" /\ batch = <<>> /\ call \in {"sink", "flush", "reset", "close"} /\ UNCHANGED queue
  BY DEF SendEnd, CallInv
<1>2. CASE call = "sink" \/ (call = "flush" /\ err)
  <2>1. Return(err)
    BY <1>2 DEF SendEnd
  <2> QED
    BY <1>1, <1>2, <2>1 DEF Return, queue
<1>3. CASE call = "flush" /\ ~err
  <2>1. pc' = "await" /\ UNCHANGED <<call, err, announced>>
    BY <1>3 DEF SendEnd
  <2> QED
    BY <1>1, <1>3, <2>1 DEF queue
<1>4. CASE call \in {"close", "reset"}
  <2>1. pc' = "shut" /\ UNCHANGED <<call, err, announced>>
    BY <1>4 DEF SendEnd
  <2> QED
    BY <1>1, <1>4, <2>1 DEF queue
<1> QED
  BY <1>1, <1>2, <1>3, <1>4

\* err and open stay booleans.
LEMMA Flags ==
  /\ Init => FlagType
  /\ CallInv /\ FlagType /\ [Next]_vars => FlagType'
<1>1. Init => FlagType
  BY DEF Init, FlagType
<1>2. ASSUME CallInv, FlagType, [Next]_vars PROVE FlagType'
  <2> USE DEF FlagType
  <2>1. \/ SinkRefuse \/ Flush \/ Reset \/ Close \/ Clear \/ SendFails \/ SendRandomError
        \/ AwaitTimeout \/ AwaitDrained \/ Renew \/ RenewFails \/ \E m \in Messages : SinkProduce(m)
        => UNCHANGED err \/ err' = TRUE \/ err' = FALSE
    BY DEF SinkRefuse, SinkProduce, Flush, FlushQueue, Clear, Reset, Close, SendFails, SendRandomError,
           AwaitTimeout, AwaitDrained, Renew, RenewFails, Return
  <2>2. SendEnd => UNCHANGED err
    BY <1>2, SendEnds
  <2>3. Settle => UNCHANGED err
    BY DEF Settle, Return
  <2>4. \/ SendAsync \/ SendSynch \/ Shut \/ UNCHANGED vars \/ \E m \in Messages : DeliveryReport(m)
        \/ \E p \in Producers : Monitor(p)
        => UNCHANGED err
    BY DEF SendAsync, SendSynch, Shut, vars, DeliveryReport, Monitor, MonitorStart, MonitorTake, MonitorRead,
           MonitorWrite, MonitorExit, SetMonitor, driver
  <2>5. UNCHANGED err \/ err' = TRUE \/ err' = FALSE
    BY <1>2, <2>1, <2>2, <2>3, <2>4 DEF Next, Inside
  <2>6. err' \in BOOLEAN
    BY <1>2, <2>5
  <2>7. open' \in {open, TRUE, FALSE}
    BY <1>2 DEF Next, SinkRefuse, SinkProduce, DeliveryReport, Flush, FlushQueue, Clear, Reset, Close,
       Inside, SendAsync, SendSynch, SendFails, SendRandomError, SendEnd, AwaitTimeout, AwaitDrained,
       Settle, Shut, Renew, RenewFails, Monitor, MonitorStart, MonitorTake, MonitorRead,
       MonitorWrite, MonitorExit, SetMonitor, vars, library
  <2> QED
    BY <1>2, <2>6, <2>7
<1> QED
  BY <1>1, <1>2
LEMMA FateStep == TypeInv /\ CallInv /\ [Next]_vars => FateType'
<1> SUFFICES ASSUME TypeInv, CallInv, [Next]_vars PROVE FateType'
  OBVIOUS
<1> USE DEF TypeInv, FateType
<1>1. \A f \in {"failed", "dropped"} : LostAs(f) \in Fates
  BY DEF LostAs, Fates
<1>2. ASSUME NEW f \in {"failed", "dropped"}, LoseBatch(f) PROVE fate' \in [Messages -> Fates]
  BY <1>1, <1>2 DEF LoseBatch
<1> DEFINE Updated ==
             \/ UNCHANGED fate
             \/ \E m \in Messages, f \in Fates : fate' = [fate EXCEPT ![m] = f]
             \/ \E f \in Fates : fate' = [fate EXCEPT ![Head(batch)] = f]
             \/ \E f \in {"failed", "dropped"} : LoseBatch(f)
             \/ fate' = [m \in Messages |-> IF m \in InFlight THEN "abandoned" ELSE fate[m]]
<1>3. Updated
  <2>1. ASSUME NEW m \in Messages, SinkProduce(m) \/ DeliveryReport(m) PROVE Updated
    BY <2>1 DEF SinkProduce, DeliveryReport, Fates
  <2>2. SendAsync \/ SendSynch \/ SendFails \/ SendRandomError \/ Shut => Updated
    BY DEF SendAsync, SendSynch, SendFails, SendRandomError, Shut, Hand, Fates
  <2>3. \/ SinkRefuse \/ Flush \/ Reset \/ Close \/ Clear \/ SendEnd \/ AwaitTimeout \/ AwaitDrained
        \/ Settle \/ Renew \/ RenewFails \/ UNCHANGED vars \/ \E p \in Producers : Monitor(p)
        => UNCHANGED fate
    BY DEF SinkRefuse, Flush, FlushQueue, Clear, Reset, Close, SendEnd, AwaitTimeout, AwaitDrained,
       Settle, Renew, RenewFails, Monitor, MonitorStart, MonitorTake, MonitorRead,
       MonitorWrite, MonitorExit, SetMonitor, vars, messages
  <2> QED
    BY <2>1, <2>2, <2>3 DEF Next, Inside
<1>4. fate' \in [Messages -> Fates]
  <2>1. "abandoned" \in Fates /\ fate \in [Messages -> Fates]
    BY DEF Fates
  <2>2. ASSUME NEW x, NEW f \in Fates, fate' = [fate EXCEPT ![x] = f] PROVE fate' \in [Messages -> Fates]
    BY ONLY <2>1, <2>2
  <2>3. CASE fate' = [m \in Messages |-> IF m \in InFlight THEN "abandoned" ELSE fate[m]]
    BY ONLY <2>1, <2>3
  <2> QED
    BY <1>2, <1>3, <2>1, <2>2, <2>3
<1>5. announced' = announced \/ announced' = Lost \/ announced' = Lost'
  <2>1. SendEnd => announced' = announced \/ announced' = Lost
    BY SendEnds
  <2>2. ASSUME NEW e, Return(e) PROVE announced' = announced \/ announced' = Lost
    BY <2>2 DEF Return
  <2>3. Settle \/ Renew \/ RenewFails => announced' = announced \/ announced' = Lost
    BY <2>2 DEF Settle, Renew, RenewFails
  <2> QED
    BY <2>1, <2>3 DEF Next, SinkRefuse, SinkProduce, DeliveryReport, Flush, FlushQueue, Clear, Reset,
       Close, Inside, SendAsync, SendSynch, SendFails, SendRandomError, AwaitTimeout, AwaitDrained,
       Shut, Monitor, MonitorStart, MonitorTake, MonitorRead, MonitorWrite, MonitorExit, SetMonitor, vars
<1>6. announced' \subseteq Messages
  BY <1>5 DEF Lost
<1> QED
  BY <1>4, <1>6

LEMMA MonitorTyped ==
  ASSUME LibraryType, NEW p \in Producers
  PROVE  /\ monitor[p].at \in Where /\ monitor[p].on \in Producers
         /\ monitor[p].kind \in Kinds \cup {"none"} /\ monitor[p].read \in Nat
         /\ monitor[p] = [at |-> monitor[p].at, on |-> monitor[p].on,
                          kind |-> monitor[p].kind, read |-> monitor[p].read]
         /\ monitor[p].at \in {"taken", "write"} => monitor[p].kind \in Kinds
         /\ monitor[p].at # "write" => monitor[p].read = 0
BY DEF LibraryType, Monitors

\* The record of a monitor after each of its steps.
LEMMA MonitorSteps ==
  ASSUME LibraryType, NEW p \in Producers, NEW q \in Producers, NEW k \in Kinds, NEW n \in Nat
  PROVE  /\ monitor[p].at = "spawned" => [monitor[p] EXCEPT !.at = "range", !.on = q] \in Monitors
         /\ monitor[p].at = "range" => [monitor[p] EXCEPT !.at = "taken", !.kind = k] \in Monitors
         /\ monitor[p].at = "taken" => [monitor[p] EXCEPT !.at = "write", !.read = n] \in Monitors
         /\ [monitor[p] EXCEPT !.at = "range", !.kind = "none", !.read = 0] \in Monitors
<1> DEFINE r == monitor[p]
<1>1. /\ r.at \in Where /\ r.on \in Producers /\ r.kind \in Kinds \cup {"none"} /\ r.read \in Nat
      /\ r = [at |-> r.at, on |-> r.on, kind |-> r.kind, read |-> r.read]
      /\ r.at \in {"taken", "write"} => r.kind \in Kinds
      /\ r.at # "write" => r.read = 0
  BY MonitorTyped
<1> HIDE DEF r
<1>2. r.at = "spawned" => [r EXCEPT !.at = "range", !.on = q] \in Monitors
  BY <1>1 DEF Monitors, Where
<1>3. r.at = "range" => [r EXCEPT !.at = "taken", !.kind = k] \in Monitors
  BY <1>1 DEF Monitors, Where
<1>4. r.at = "taken" => [r EXCEPT !.at = "write", !.read = n] \in Monitors
  BY <1>1 DEF Monitors, Where
<1>5. [r EXCEPT !.at = "range", !.kind = "none", !.read = 0] \in Monitors
  BY <1>1 DEF Monitors, Where
<1> QED
  BY <1>2, <1>3, <1>4, <1>5 DEF r

LEMMA CounterStep == TypeInv /\ [Next]_vars => CounterType'
<1> SUFFICES ASSUME TypeInv, [Next]_vars PROVE CounterType'
  OBVIOUS
<1>1. CounterType /\ LibraryType
  BY DEF TypeInv
<1>2. \/ stats' = stats \/ stats' = Zero
      \/ \E k \in Counters : stats' = Count(stats, k)
      \/ stats' = Count(Count(stats, "produced"), "accepted")
      \/ \E p \in Producers : stats' = [stats EXCEPT ![monitor[p].kind] = monitor[p].read + 1]
  BY DEF Next, SinkRefuse, SinkProduce, DeliveryReport, Flush, FlushQueue, Clear, Reset, Close, Counters,
       Inside, SendAsync, SendSynch, SendFails, SendRandomError, SendEnd, AwaitTimeout, AwaitDrained,
       Settle, Shut, Renew, RenewFails, Monitor, MonitorStart, MonitorTake, MonitorRead,
       MonitorWrite, MonitorExit, SetMonitor, vars
<1>3. CASE \E p \in Producers : stats' = [stats EXCEPT ![monitor[p].kind] = monitor[p].read + 1]
  <2>1. PICK p \in Producers : stats' = [stats EXCEPT ![monitor[p].kind] = monitor[p].read + 1]
    BY <1>3
  <2> DEFINE n == monitor[p].read + 1
             c == monitor[p].kind
  <2>2. n \in Nat
    <3>1. monitor[p].read \in Nat
      BY <1>1, MonitorTyped
    <3> QED
      BY ONLY <3>1
  <2>3. stats' = [stats EXCEPT ![c] = n]
    BY <2>1
  <2> HIDE DEF n, c
  <2>4. [stats EXCEPT ![c] = n] \in [Counters -> Nat]
    BY ONLY <1>1, <2>2 DEF CounterType
  <2> QED
    BY ONLY <2>3, <2>4 DEF CounterType
<1>4. CASE ~\E p \in Producers : stats' = [stats EXCEPT ![monitor[p].kind] = monitor[p].read + 1]
  <2>1. \A k \in Counters : Count(stats, k) \in [Counters -> Nat]
    BY <1>1 DEF CounterType, Count
  <2>2. Count(Count(stats, "produced"), "accepted") \in [Counters -> Nat]
    BY <1>1 DEF CounterType, Count, Counters
  <2>3. Zero \in [Counters -> Nat]
    BY DEF Zero
  <2> QED
    BY <1>1, <1>2, <1>4, <2>1, <2>2, <2>3 DEF CounterType
<1> QED
  BY <1>3, <1>4

LEMMA LibraryStep == TypeInv /\ CallInv /\ ControlType' /\ [Next]_vars => LibraryType'
<1> SUFFICES ASSUME TypeInv, CallInv, ControlType', [Next]_vars PROVE LibraryType'
  OBVIOUS
<1>1. LibraryType /\ CounterType /\ kp \in Producers /\ kp' \in Producers /\ 0 \in Producers
  BY BoundsAssumption DEF TypeInv, ControlType, Producers
<1>2. events' \in [Producers -> Seq(Kinds)]
  <2>1. \/ UNCHANGED events
        \/ \E k \in Kinds : events' = [events EXCEPT ![kp] = Append(@, k)]
        \/ \E p \in Producers : /\ events[monitor[p].on] # <<>>
                                /\ events' = [events EXCEPT ![monitor[p].on] = Tail(@)]
    BY DEF Next, SinkRefuse, SinkProduce, DeliveryReport, Flush, FlushQueue, Clear, Reset, Close,
       Inside, SendAsync, SendSynch, SendFails, SendRandomError, SendEnd, AwaitTimeout, AwaitDrained,
       Settle, Shut, Renew, RenewFails, Monitor, MonitorStart, MonitorTake, MonitorRead,
       MonitorWrite, MonitorExit, SetMonitor, vars, library
  <2>2. \A p \in Producers : events[p] \in Seq(Kinds)
    BY <1>1 DEF LibraryType
  <2>3. \A p \in Producers : monitor[p].on \in Producers
    BY <1>1, MonitorTyped
  <2>4. CASE \E k \in Kinds : events' = [events EXCEPT ![kp] = Append(@, k)]
    BY <1>1, <2>2, <2>4, SequenceSteps DEF LibraryType
  <2>5. ASSUME NEW p \in Producers, events[monitor[p].on] # <<>>,
               events' = [events EXCEPT ![monitor[p].on] = Tail(@)]
        PROVE  events' \in [Producers -> Seq(Kinds)]
    <3>1. Tail(events[monitor[p].on]) \in Seq(Kinds)
      BY <2>2, <2>3, <2>5, SequenceSteps
    <3> QED
      BY <1>1, <2>5, <3>1 DEF LibraryType
  <2> QED
    BY <1>1, <2>1, <2>4, <2>5 DEF LibraryType
<1>3. monitor' \in [Producers -> Monitors]
  <2>1. Idle \in Monitors /\ Spawned \in Monitors /\ [Idle EXCEPT !.at = "exited"] \in Monitors
    BY <1>1 DEF Idle, Spawned, Monitors, Where
  <2>2. ASSUME NEW p \in Producers, NEW r \in Monitors, monitor' = [monitor EXCEPT ![p] = r]
        PROVE  monitor' \in [Producers -> Monitors]
    BY <1>1, <2>2 DEF LibraryType
  <2>3. \A q \in Producers : monitor[q] \in Monitors
    BY <1>1 DEF LibraryType
  <2>4. ASSUME NEW p \in Producers, MonitorStart(p) PROVE monitor' \in [Producers -> Monitors]
    <3>1. [monitor[p] EXCEPT !.at = "range", !.on = kp] \in Monitors
      BY <1>1, <2>4, MonitorSteps DEF MonitorStart, Kinds
    <3> QED
      BY <2>2, <2>4, <3>1 DEF MonitorStart, SetMonitor
  <2>5. ASSUME NEW p \in Producers, MonitorTake(p) PROVE monitor' \in [Producers -> Monitors]
    <3>1. Head(events[monitor[p].on]) \in Kinds
      BY <1>1, <2>5, MonitorTyped, SequenceSteps DEF MonitorTake, LibraryType
    <3>2. [monitor[p] EXCEPT !.at = "taken", !.kind = Head(events[monitor[p].on])] \in Monitors
      BY <1>1, <2>5, <3>1, MonitorSteps DEF MonitorTake
    <3> QED
      BY <2>2, <2>5, <3>2 DEF MonitorTake, SetMonitor
  <2>6. ASSUME NEW p \in Producers, MonitorRead(p) PROVE monitor' \in [Producers -> Monitors]
    <3>1. stats[monitor[p].kind] \in Nat
      BY <1>1, <2>6, MonitorTyped DEF MonitorRead, CounterType, Counters, Kinds
    <3>2. [monitor[p] EXCEPT !.at = "write", !.read = stats[monitor[p].kind]] \in Monitors
      BY <1>1, <2>6, <3>1, MonitorSteps DEF MonitorRead, Kinds
    <3> QED
      BY <2>2, <2>6, <3>2 DEF MonitorRead, SetMonitor
  <2>7. ASSUME NEW p \in Producers, MonitorWrite(p) PROVE monitor' \in [Producers -> Monitors]
    <3>1. [monitor[p] EXCEPT !.at = "range", !.kind = "none", !.read = 0] \in Monitors
      BY <1>1, <2>7, MonitorSteps DEF Kinds
    <3> QED
      BY <2>2, <2>7, <3>1 DEF MonitorWrite, SetMonitor
  <2>8. ASSUME NEW p \in Producers, MonitorExit(p) PROVE monitor' \in [Producers -> Monitors]
    BY <2>1, <2>2, <2>8 DEF MonitorExit, SetMonitor
  <2>9. CASE Renew
    BY <1>1, <2>1, <2>2, <2>9 DEF Renew, LibraryType
  <2>10. UNCHANGED monitor \/ Renew \/ \E p \in Producers : Monitor(p)
    BY DEF Next, SinkRefuse, SinkProduce, DeliveryReport, Flush, FlushQueue, Clear, Reset, Close,
       Inside, SendAsync, SendSynch, SendFails, SendRandomError, SendEnd, AwaitTimeout, AwaitDrained,
       Settle, Shut, RenewFails, vars
  <2> QED
    BY <1>1, <2>4, <2>5, <2>6, <2>7, <2>8, <2>9, <2>10 DEF Monitor, LibraryType
<1> QED
  BY <1>2, <1>3 DEF LibraryType
-----------------------------------------------------------------------------
(***************************************************************************)
(* Five kinds of steps, as the order of the messages sees them.            *)
(***************************************************************************)
Kept == UNCHANGED <<fate, handed>> /\ Held' = Held

Accepted(m) ==
  /\ Fresh(m)
  /\ fate' = [fate EXCEPT ![m] = "buffered"]
  /\ Held' = Append(Held, m) /\ UNCHANGED handed

HandedOver ==
  /\ Held # <<>>
  /\ \E f \in {"inFlight", "delivered"} : fate' = [fate EXCEPT ![Head(Held)] = f]
  /\ handed' = Append(handed, Head(Held)) /\ Held' = Tail(Held)

GivenUp ==
  /\ Held # <<>> /\ Held' = <<>>
  /\ handed' = handed \/ handed' = Append(handed, Head(Held))
  /\ \A m \in Messages : /\ m \in InStage => fate'[m] \in {"failed", "dropped", "abandoned"}
                         /\ m \notin InStage => fate'[m] = fate[m]

Reported ==
  /\ UNCHANGED handed /\ Held' = Held
  /\ \A m \in Messages :
       fate'[m] = fate[m] \/ (m \in InFlight /\ fate'[m] \in {"delivered", "failed", "abandoned"})

StepKind ==
  \/ Kept \/ HandedOver \/ GivenUp \/ Reported
  \/ \E m \in Messages : SinkProduce(m) /\ Accepted(m)

LEMMA EmptyParts ==
  ASSUME NEW S, NEW s \in Seq(S) PROVE s \o <<>> = s /\ <<>> \o s = s
OBVIOUS

\* What is held is in the buffer between two calls, in the batch while it is sent.
LEMMA HeldIs ==
  ASSUME SequenceType
  PROVE  /\ batch = <<>> => Held = items
         /\ items = <<>> => Held = batch
         /\ Held \in Seq(Messages)
BY EmptyParts DEF SequenceType, Held

LEMMA StepKinds == TypeInv /\ SequenceType' /\ CallInv /\ [Next]_vars => StepKind
<1> SUFFICES ASSUME TypeInv, SequenceType', CallInv, [Next]_vars PROVE StepKind
  OBVIOUS
<1>1. SequenceType /\ FateType
  BY DEF TypeInv
<1>2. /\ batch = <<>> => Held = items
      /\ items = <<>> => Held = batch
      /\ batch' = <<>> => Held' = items'
      /\ items' = <<>> => Held' = batch'
  <2>1. /\ batch' = <<>> => Held' = items'
        /\ items' = <<>> => Held' = batch'
    BY <1>1, EmptyParts DEF SequenceType, Held
  <2> QED
    BY <1>1, <2>1, HeldIs
<1>3. /\ pc = "idle" => batch = <<>>
      /\ pc = "send" => items = <<>>
  BY DEF CallInv
<1>4. ASSUME NEW m \in Messages, SinkProduce(m) PROVE Accepted(m)
  <2>1. Held = items
    BY <1>2, <1>3, <1>4 DEF SinkProduce
  <2>2. Held' = Append(items, m)
    BY <1>2, <1>3, <1>4 DEF SinkProduce
  <2> QED
    BY <1>4, <2>1, <2>2 DEF SinkProduce, Accepted
<1>5. ASSUME NEW c, FlushQueue(c) PROVE Kept
  BY <1>2, <1>3, <1>5 DEF FlushQueue, Kept, messages
<1>6. CASE SendAsync \/ SendSynch
  <2>1. items' = items /\ items = <<>> /\ batch # <<>>
    BY <1>3, <1>6 DEF SendAsync, SendSynch, Sending
  <2>2. Held = batch /\ Held' = batch'
    BY <1>2, <2>1
  <2>3. Hand("inFlight") \/ Hand("delivered")
    BY <1>6 DEF SendAsync, SendSynch
  <2>4. HandedOver
    BY <2>1, <2>2, <2>3 DEF HandedOver, Hand
  <2> QED
    BY <2>4 DEF StepKind
<1>7. CASE SendFails \/ SendRandomError
  <2>1. items' = items /\ items = <<>> /\ batch # <<>> /\ batch' = <<>>
    BY <1>3, <1>7 DEF SendFails, SendRandomError, Sending
  <2>2. Held = batch /\ Held' = <<>>
    BY <1>2, <2>1
  <2>3. handed' = handed \/ handed' = Append(handed, Head(Held))
    BY <1>7, <2>2 DEF SendFails, SendRandomError
  <2>4. PICK f \in {"failed", "dropped"} : LoseBatch(f)
    BY <1>7 DEF SendFails, SendRandomError
  <2>5. \A m \in Messages : m \in InStage <=> \E i \in 1..Len(batch) : batch[i] = m
    BY <2>2 DEF InStage
  <2>6. \A m \in Messages : /\ m \in InStage => fate'[m] \in {"failed", "dropped", "abandoned"}
                            /\ m \notin InStage => fate'[m] = fate[m]
    BY <2>4, <2>5 DEF LoseBatch, LostAs
  <2>7. GivenUp
    <3>1. Held # <<>> /\ Held' = <<>>
      BY <2>1, <2>2
    <3> QED
      BY ONLY <2>3, <2>6, <3>1 DEF GivenUp
  <2> QED
    BY <2>7 DEF StepKind
<1>8. ASSUME NEW m \in Messages, DeliveryReport(m) PROVE Reported
  <2>1. Held' = Held /\ handed' = handed /\ m \in InFlight
    BY <1>8 DEF DeliveryReport, queue, Held
  <2>2. \E f \in {"delivered", "failed"} : fate' = [fate EXCEPT ![m] = f]
    BY <1>8 DEF DeliveryReport, Kinds
  <2> QED
    BY <1>1, <2>1, <2>2 DEF Reported, FateType
<1>9. CASE Shut
  <2>1. Held' = Held /\ handed' = handed
    BY <1>9 DEF Shut, queue, Held
  <2>2. \A m \in Messages : fate'[m] = IF m \in InFlight THEN "abandoned" ELSE fate[m]
    BY <1>9 DEF Shut
  <2> QED
    BY <2>1, <2>2 DEF Reported, StepKind
<1>10. ASSUME \/ SinkRefuse \/ Clear \/ SendEnd \/ AwaitTimeout \/ AwaitDrained \/ Settle \/ Renew
              \/ RenewFails \/ UNCHANGED vars \/ \E p \in Producers : Monitor(p)
       PROVE  Kept
  BY <1>10 DEF SinkRefuse, Clear, SendEnd, AwaitTimeout, AwaitDrained, Settle, Renew, RenewFails, vars,
               Monitor, MonitorStart, MonitorTake, MonitorRead, MonitorWrite, MonitorExit, SetMonitor,
               queue, messages, Kept, Held
<1> QED
  BY <1>4, <1>5, <1>6, <1>7, <1>8, <1>9, <1>10 DEF Next, Inside, Flush, Reset, Close, StepKind
-----------------------------------------------------------------------------
LEMMA Elements ==
  ASSUME NEW s \in Seq(Messages), NEW i \in 1..Len(s)
  PROVE  s[i] \in Messages /\ s[i] \in Nat /\ 1 =< s[i] /\ s[i] =< MaxMessages
<1>1. s[i] \in Messages
  OBVIOUS
<1> QED
  BY <1>1, BoundsAssumption DEF Messages

\* A rising sequence of messages is no longer than there are messages.
LEMMA RisingIsShort ==
  ASSUME NEW s \in Seq(Messages), Rising(s) PROVE Len(s) =< MaxMessages
<1>1. CASE Len(s) = 0
  BY <1>1, BoundsAssumption
<1>2. CASE Len(s) # 0
  <2>1. Len(s) \in 1..Len(s)
    BY <1>2
  <2> QED
    BY <2>1, Elements, BoundsAssumption DEF Rising
<1> QED
  BY <1>1, <1>2

\* A message beyond all those of a rising sequence continues it.
LEMMA RisingAppend ==
  ASSUME NEW s \in Seq(Messages), Rising(s), NEW m \in Messages, \A i \in 1..Len(s) : s[i] < m
  PROVE  Rising(Append(s, m))
<1>1. m \in Nat /\ 1 =< m
  BY BoundsAssumption DEF Messages
<1>2. Len(s) + 1 =< m
  <2>1. CASE Len(s) = 0
    BY <2>1, <1>1
  <2>2. CASE Len(s) # 0
    <3>1. Len(s) \in 1..Len(s)
      BY <2>2
    <3>2. s[Len(s)] \in Nat /\ Len(s) =< s[Len(s)] /\ s[Len(s)] < m
      BY <3>1, Elements DEF Rising
    <3> QED
      BY <3>2, <1>1
  <2> QED
    BY <2>1, <2>2
<1>3. /\ Len(Append(s, m)) = Len(s) + 1
      /\ \A i \in 1..Len(s) : Append(s, m)[i] = s[i]
      /\ Append(s, m)[Len(s) + 1] = m
  OBVIOUS
<1>4. \A i \in 1..Len(s) : s[i] \in Nat
  BY Elements
<1> QED
  BY <1>1, <1>2, <1>3, <1>4 DEF Rising

LEMMA RisingTail ==
  ASSUME NEW s \in Seq(Messages), Rising(s), s # <<>>
  PROVE  /\ Rising(Tail(s))
         /\ Len(Tail(s)) = Len(s) - 1
         /\ \A i \in 1..Len(Tail(s)) : Tail(s)[i] = s[i + 1] /\ s[1] < Tail(s)[i]
<1>1. Len(Tail(s)) = Len(s) - 1 /\ \A i \in 1..Len(Tail(s)) : Tail(s)[i] = s[i + 1]
  OBVIOUS
<1>2. \A i \in 1..Len(s) : s[i] \in Nat
  BY Elements
<1> QED
  BY <1>1, <1>2 DEF Rising

\* The sequence of what was handed over, with one more message.
LEMMA OneMore ==
  ASSUME NEW s \in Seq(Messages), NEW m \in Messages
  PROVE  /\ Len(Append(s, m)) = Len(s) + 1 /\ Append(s, m)[Len(s) + 1] = m
         /\ \A i \in 1..Len(s) : Append(s, m)[i] = s[i] /\ s[i] \in Messages
         /\ \A i \in 1..Len(Append(s, m)) : i \in 1..Len(s) \/ i = Len(s) + 1
         /\ Len(s) + 1 \in 1..Len(Append(s, m))
OBVIOUS

\* What is taken comes before the message Sink is given.
LEMMA FreshComesLast ==
  ASSUME TakenInv, NEW m \in Messages, Fresh(m)
  PROVE  /\ \A n \in Messages : fate[n] # "new" => n < m /\ n # m
         /\ Taken \cup {m} = 1..m /\ Taken = 1..(m - 1)
<1>1. PICK k \in 0..MaxMessages : Taken = 1..k
  BY DEF TakenInv
<1>2. m \in Nat /\ 1 =< m /\ m =< MaxMessages /\ k \in Nat
  BY BoundsAssumption DEF Messages
<1>3. m \notin 1..k
  BY <1>1 DEF Taken, Fresh
<1>4. k + 1 = m
  <2>1. CASE k + 1 < m
    <3>1. k + 1 \in Messages /\ k + 1 \notin 1..k
      BY ONLY <1>2, <2>1, BoundsAssumption DEF Messages
    <3>2. fate[k + 1] # "new"
      BY <2>1, <3>1 DEF Fresh
    <3> QED
      BY <1>1, <3>1, <3>2 DEF Taken
  <2> QED
    BY <1>2, <1>3, <2>1
<1>5. \A n \in Messages : fate[n] # "new" => n \in 1..k
  BY <1>1 DEF Taken
<1> QED
  BY <1>1, <1>2, <1>4, <1>5

OrderInv == HeldInv /\ HandedInv

LEMMA KeptKeepsOrder == OrderInv /\ Kept => OrderInv'
<1> SUFFICES ASSUME OrderInv, Kept PROVE OrderInv'
  OBVIOUS
<1>1. HeldInv'
  BY DEF OrderInv, Kept, HeldInv, Rising
<1>2. HandedInv'
  BY DEF OrderInv, Kept, HandedInv, Rising, InFlight
<1> QED
  BY <1>1, <1>2 DEF OrderInv

LEMMA ReportedKeepsOrder == TypeInv /\ OrderInv /\ Reported => OrderInv'
<1> SUFFICES ASSUME TypeInv, OrderInv, Reported PROVE OrderInv'
  OBVIOUS
<1>1. /\ \A m \in Messages : fate'[m] = "buffered" <=> fate[m] = "buffered"
      /\ \A m \in Messages : fate'[m] = "new" <=> fate[m] = "new"
      /\ InFlight' \subseteq InFlight
  BY DEF Reported, InFlight
<1>2. Held \in Seq(Messages) /\ handed \in Seq(Messages)
  BY HeldIs DEF TypeInv, SequenceType
<1>3. HeldInv'
  BY <1>1, <1>2, Elements DEF OrderInv, Reported, HeldInv, Rising
<1>4. HandedInv'
  BY <1>1, <1>2, Elements DEF OrderInv, Reported, HandedInv, Rising
<1> QED
  BY <1>3, <1>4 DEF OrderInv

LEMMA AcceptedKeepsOrder ==
  ASSUME TypeInv, TakenInv, OrderInv, NEW m \in Messages, Accepted(m) PROVE OrderInv'
<1>1. /\ Held \in Seq(Messages) /\ handed \in Seq(Messages)
      /\ Held' = Append(Held, m) /\ handed' = handed
      /\ \A n \in Messages : /\ n = m => fate'[n] = "buffered"
                             /\ n # m => fate'[n] = fate[n]
  BY HeldIs DEF TypeInv, SequenceType, FateType, Accepted
<1>2. \A n \in Messages : fate[n] # "new" => n < m /\ n # m
  BY FreshComesLast DEF Accepted
<1>3. /\ \A i \in 1..Len(Held) : Held[i] \in Messages /\ Held[i] < m /\ Held[i] # m
      /\ \A i \in 1..Len(handed) : handed[i] \in Messages /\ handed[i] < m /\ handed[i] # m
  BY <1>1, <1>2, Elements DEF OrderInv, HeldInv, HandedInv
<1>4. Rising(Held')
  BY <1>1, <1>3, RisingAppend DEF OrderInv, HeldInv
<1>5. \A i \in 1..Len(Held') : (i \in 1..Len(Held) /\ Held'[i] = Held[i]) \/ Held'[i] = m
  BY <1>1, OneMore
<1>6. \A i \in 1..Len(Held') : fate'[Held'[i]] = "buffered"
  BY <1>1, <1>3, <1>5 DEF OrderInv, HeldInv
<1>7. ASSUME NEW n \in Messages, fate'[n] = "buffered" PROVE \E i \in 1..Len(Held') : Held'[i] = n
  <2>1. CASE n = m
    BY <1>1, <2>1, OneMore
  <2>2. CASE n # m
    <3>1. PICK i \in 1..Len(Held) : Held[i] = n
      BY <1>1, <1>7, <2>2 DEF OrderInv, HeldInv
    <3> QED
      BY <1>1, <3>1, OneMore
  <2> QED
    BY <2>1, <2>2
<1>8. HeldInv'
  BY <1>4, <1>6, <1>7 DEF HeldInv
<1>9. HandedInv'
  <2>1. Rising(handed') /\ \A i \in 1..Len(handed') : fate'[handed'[i]] # "new"
    BY <1>1, <1>3 DEF OrderInv, HandedInv, Rising
  <2>2. \A i \in 1..Len(handed'), j \in 1..Len(Held') : handed'[i] < Held'[j]
    BY <1>1, <1>3, <1>5 DEF OrderInv, HandedInv
  <2>3. InFlight' \subseteq InFlight
    BY <1>1 DEF InFlight
  <2> QED
    BY <1>1, <2>1, <2>2, <2>3 DEF OrderInv, HandedInv
<1> QED
  BY <1>8, <1>9 DEF OrderInv

\* Handing over the first message held leaves what comes after it.
LEMMA FirstHanded ==
  ASSUME TypeInv, OrderInv, Held # <<>>
  PROVE  /\ Held \in Seq(Messages) /\ handed \in Seq(Messages)
         /\ 1 \in 1..Len(Held) /\ Head(Held) = Held[1] /\ Head(Held) \in Messages
         /\ fate[Head(Held)] = "buffered"
         /\ Rising(Append(handed, Head(Held)))
         /\ \A i \in 1..Len(handed) : handed[i] \in Messages /\ handed[i] # Head(Held)
<1>1. /\ Held \in Seq(Messages) /\ handed \in Seq(Messages)
      /\ 1 \in 1..Len(Held) /\ Head(Held) = Held[1] /\ Held[1] \in Messages
  BY HeldIs DEF TypeInv, SequenceType
<1>2. \A i \in 1..Len(handed) : handed[i] \in Messages /\ handed[i] < Held[1] /\ handed[i] # Held[1]
  BY <1>1, Elements DEF OrderInv, HandedInv
<1>3. Rising(Append(handed, Head(Held)))
  BY <1>1, <1>2, RisingAppend DEF OrderInv, HandedInv
<1> QED
  BY <1>1, <1>2, <1>3 DEF OrderInv, HeldInv

LEMMA HandedOverKeepsOrder == TypeInv /\ OrderInv /\ HandedOver => OrderInv'
<1> SUFFICES ASSUME TypeInv, OrderInv, HandedOver PROVE OrderInv'
  OBVIOUS
<1> DEFINE h == Head(Held)
<1>1. /\ Held \in Seq(Messages) /\ handed \in Seq(Messages) /\ Held # <<>>
      /\ 1 \in 1..Len(Held) /\ h = Held[1] /\ h \in Messages /\ fate[h] = "buffered"
      /\ Rising(Append(handed, h))
      /\ \A i \in 1..Len(handed) : handed[i] \in Messages /\ handed[i] # h
      /\ handed' = Append(handed, h) /\ Held' = Tail(Held)
  BY FirstHanded DEF HandedOver
<1>2. /\ fate'[h] \in {"inFlight", "delivered"}
      /\ \A n \in Messages : n # h => fate'[n] = fate[n]
  BY <1>1 DEF HandedOver, TypeInv, FateType
<1>3. /\ Rising(Held') /\ Len(Held') = Len(Held) - 1 /\ Len(Held) \in Nat
      /\ \A i \in 1..Len(Held') : Held'[i] = Held[i + 1] /\ h < Held'[i]
  <2>1. Rising(Held)
    BY DEF OrderInv, HeldInv
  <2>2. /\ Rising(Tail(Held)) /\ Len(Tail(Held)) = Len(Held) - 1
        /\ \A i \in 1..Len(Tail(Held)) : Tail(Held)[i] = Held[i + 1] /\ Held[1] < Tail(Held)[i]
    BY ONLY <1>1, <2>1, RisingTail
  <2>3. Len(Held) \in Nat
    BY ONLY <1>1
  <2>4. Held' = Tail(Held) /\ h = Held[1]
    BY ONLY <1>1
  <2> HIDE DEF h
  <2> QED
    BY ONLY <2>2, <2>3, <2>4
<1>4. \A i \in 1..Len(Held') : i + 1 \in 1..Len(Held) /\ Held'[i] \in Messages /\ Held'[i] # h
  <2>1. h \in Nat
    BY <1>1, BoundsAssumption DEF Messages
  <2> QED
    BY <1>1, <1>3, <2>1
<1> HIDE DEF h
<1>5. HeldInv'
  <2>1. \A i \in 1..Len(Held') : fate'[Held'[i]] = "buffered"
    BY <1>2, <1>3, <1>4 DEF OrderInv, HeldInv
  <2>2. ASSUME NEW n \in Messages, fate'[n] = "buffered" PROVE \E i \in 1..Len(Held') : Held'[i] = n
    <3>1. fate[n] = "buffered" /\ n # h
      BY <1>2, <2>2
    <3>2. PICK i \in 1..Len(Held) : Held[i] = n
      BY <3>1 DEF OrderInv, HeldInv
    <3>3. i - 1 \in 1..Len(Held') /\ (i - 1) + 1 = i
      BY <1>1, <1>3, <3>1, <3>2
    <3> QED
      BY <1>3, <3>2, <3>3
  <2> QED
    BY <1>3, <2>1, <2>2 DEF HeldInv
<1>6. HandedInv'
  <2>1. \A i \in 1..Len(handed') : (i \in 1..Len(handed) /\ handed'[i] = handed[i]) \/ handed'[i] = h
    BY <1>1, OneMore
  <2>2. \A i \in 1..Len(handed') : fate'[handed'[i]] # "new"
    BY <1>1, <1>2, <2>1 DEF OrderInv, HandedInv
  <2>3. ASSUME NEW i \in 1..Len(handed'), NEW j \in 1..Len(Held') PROVE handed'[i] < Held'[j]
    BY <1>3, <1>4, <2>1 DEF OrderInv, HandedInv
  <2>4. ASSUME NEW n \in InFlight' PROVE \E i \in 1..Len(handed') : handed'[i] = n
    <3>1. CASE n = h
      BY <1>1, <3>1, OneMore
    <3>2. CASE n # h
      <4>1. n \in InFlight
        BY <1>2, <2>4, <3>2 DEF InFlight
      <4>2. PICK i \in 1..Len(handed) : handed[i] = n
        BY <4>1 DEF OrderInv, HandedInv
      <4> QED
        BY <1>1, <4>2, OneMore
    <3> QED
      BY <3>1, <3>2
  <2> QED
    BY <1>1, <2>2, <2>3, <2>4 DEF HandedInv
<1> QED
  BY <1>5, <1>6 DEF OrderInv

LEMMA GivenUpKeepsOrder == TypeInv /\ OrderInv /\ GivenUp => OrderInv'
<1> SUFFICES ASSUME TypeInv, OrderInv, GivenUp PROVE OrderInv'
  OBVIOUS
<1> DEFINE h == Head(Held)
<1>1. /\ Held \in Seq(Messages) /\ handed \in Seq(Messages) /\ Held # <<>> /\ Held' = <<>>
      /\ h \in Messages /\ fate[h] = "buffered" /\ Rising(Append(handed, h))
      /\ \A i \in 1..Len(handed) : handed[i] \in Messages /\ handed[i] # h
      /\ handed' = handed \/ handed' = Append(handed, h)
  BY FirstHanded DEF GivenUp
<1>2. /\ \A n \in Messages : fate'[n] # "buffered" /\ (fate'[n] = "new" <=> fate[n] = "new")
      /\ InFlight' \subseteq InFlight
  <2>1. \A n \in Messages : n \in InStage <=> fate[n] = "buffered"
    BY DEF InStage, OrderInv, HeldInv
  <2> QED
    BY <2>1 DEF GivenUp, InFlight
<1> HIDE DEF h
<1>3. HeldInv'
  BY <1>1, <1>2 DEF HeldInv, Rising
<1>4. HandedInv'
  <2>1. Rising(handed')
    BY <1>1 DEF OrderInv, HandedInv
  <2>2. \A i \in 1..Len(handed') : (i \in 1..Len(handed) /\ handed'[i] = handed[i]) \/ handed'[i] = h
    BY <1>1, OneMore
  <2>3. \A i \in 1..Len(handed) : i \in 1..Len(handed') /\ handed'[i] = handed[i]
    BY <1>1, OneMore
  <2>4. \A i \in 1..Len(handed') : fate'[handed'[i]] # "new"
    BY <1>1, <1>2, <2>2 DEF OrderInv, HandedInv
  <2>5. \A n \in InFlight' : \E i \in 1..Len(handed') : handed'[i] = n
    BY <1>2, <2>3 DEF OrderInv, HandedInv
  <2> QED
    BY <1>1, <2>1, <2>4, <2>5 DEF HandedInv
<1> QED
  BY <1>3, <1>4 DEF OrderInv

LEMMA OrderStep == TypeInv /\ TypeInv' /\ CallInv /\ TakenInv /\ OrderInv /\ [Next]_vars => OrderInv'
BY StepKinds, KeptKeepsOrder, ReportedKeepsOrder, AcceptedKeepsOrder, HandedOverKeepsOrder, GivenUpKeepsOrder
   DEF StepKind, TypeInv

LEMMA TakenStep == TypeInv /\ TypeInv' /\ CallInv /\ TakenInv /\ OrderInv /\ [Next]_vars => TakenInv'
<1> SUFFICES ASSUME TypeInv, TypeInv', CallInv, TakenInv, OrderInv, [Next]_vars PROVE TakenInv'
  OBVIOUS
<1>1. PICK k \in 0..MaxMessages : Taken = 1..k /\ stats["queued"] =< k
  BY DEF TakenInv
<1>2. ASSUME NEW m \in Messages, SinkProduce(m) PROVE TakenInv'
  <2>1. Taken = 1..(m - 1) /\ Taken \cup {m} = 1..m
    BY <1>2, FreshComesLast DEF SinkProduce
  <2>2. Taken' = Taken \cup {m}
    BY <1>2 DEF SinkProduce, Taken, TypeInv, FateType
  <2>3. m \in 0..MaxMessages /\ m \in Nat /\ 1 =< m /\ k \in Nat
    BY BoundsAssumption DEF Messages
  <2>4. k = m - 1
    BY <1>1, <2>1, <2>3, FS_Interval
  <2>5. stats["queued"] \in Nat /\ stats'["queued"] = stats["queued"] + 1
    BY <1>2 DEF SinkProduce, Count, Counters, TypeInv, CounterType
  <2> QED
    BY <1>1, <2>1, <2>2, <2>3, <2>4, <2>5 DEF TakenInv
<1>3. ASSUME ~\E m \in Messages : SinkProduce(m) PROVE TakenInv'
  <2>1. stats'["queued"] = stats["queued"] \/ stats'["queued"] = 0
    <3>1. \/ stats' = stats \/ stats' = Zero
          \/ \E c \in Counters \ {"queued"} : stats' = Count(stats, c)
          \/ stats' = Count(Count(stats, "produced"), "accepted")
          \/ \E p \in Producers : /\ monitor[p].at = "write"
                                  /\ stats' = [stats EXCEPT ![monitor[p].kind] = monitor[p].read + 1]
      BY <1>3 DEF Next, SinkRefuse, DeliveryReport, Flush, FlushQueue, Clear, Reset, Close, Counters,
           Inside, SendAsync, SendSynch, SendFails, SendRandomError, SendEnd, AwaitTimeout, AwaitDrained,
           Settle, Shut, Renew, RenewFails, Monitor, MonitorStart, MonitorTake, MonitorRead,
           MonitorWrite, MonitorExit, SetMonitor, vars
    <3>2. \A p \in Producers : monitor[p].at = "write" => monitor[p].kind \in Kinds
      BY MonitorTyped DEF TypeInv
    <3>3. "queued" \notin Kinds /\ "queued" \in Counters
      BY DEF Kinds, Counters
    <3>4. CASE \E p \in Producers : /\ monitor[p].at = "write"
                                    /\ stats' = [stats EXCEPT ![monitor[p].kind] = monitor[p].read + 1]
      BY <3>2, <3>3, <3>4 DEF TypeInv, CounterType
    <3> QED
      BY <3>1, <3>3, <3>4 DEF TypeInv, CounterType, Count, Zero
  <2>2. Taken' = Taken
    <3>1. Kept \/ HandedOver \/ GivenUp \/ Reported
      BY <1>3, StepKinds DEF StepKind, TypeInv
    <3>2. \A m \in Messages : fate'[m] = "new" <=> fate[m] = "new"
      <4>1. CASE Kept \/ Reported
        BY <4>1 DEF Kept, Reported, InFlight
      <4>2. CASE HandedOver
        BY <4>2, FirstHanded DEF HandedOver, TypeInv, FateType
      <4>3. CASE GivenUp
        <5>1. \A m \in Messages : m \in InStage => fate[m] = "buffered"
          BY DEF InStage, OrderInv, HeldInv
        <5> QED
          BY <4>3, <5>1 DEF GivenUp
      <4> QED
        BY <3>1, <4>1, <4>2, <4>3
    <3> QED
      BY <3>2 DEF Taken
  <2> QED
    BY <1>1, <2>1, <2>2 DEF TakenInv
<1> QED
  BY <1>2, <1>3
-----------------------------------------------------------------------------
(***************************************************************************)
(* The statistics.  Whatever a monitor has read when another goroutine     *)
(* writes, a counter never exceeds the messages handed over whose outcome  *)
(* is known, less the outcomes of its kind that are still to be counted.   *)
(***************************************************************************)
\* The events of a kind in the channels e.
Marks(e, k) == {x \in Producers \X Nat : x[2] \in 1..Len(e[x[1]]) /\ e[x[1]][x[2]] = k}

\* The monitors about to count an event of a kind.
Counting(k) == {p \in Producers : monitor[p].at \in {"taken", "write"} /\ monitor[p].kind = k}

Resolved == Len(handed) - Cardinality(InFlight)
Uncounted(k) == Cardinality(Marks(events, k)) + Cardinality(Counting(k))

CountInv ==
  /\ \A k \in Kinds : IsFiniteSet(Marks(events, k)) /\ stats[k] + Uncounted(k) =< Resolved
  /\ \A p \in Producers, k \in Kinds :
       monitor[p].at = "write" /\ monitor[p].kind = k => monitor[p].read + Uncounted(k) =< Resolved
  /\ stats["accepted"] =< Len(handed)

Channels == [Producers -> Seq(Kinds)]

LEMMA MarksAppend ==
  ASSUME NEW e \in Channels, NEW q \in Producers, NEW c \in Kinds, NEW k, IsFiniteSet(Marks(e, k))
  PROVE  /\ IsFiniteSet(Marks([e EXCEPT ![q] = Append(@, c)], k))
         /\ Cardinality(Marks([e EXCEPT ![q] = Append(@, c)], k))
              = Cardinality(Marks(e, k)) + (IF k = c THEN 1 ELSE 0)
<1> DEFINE f == [e EXCEPT ![q] = Append(@, c)]
           n == Len(e[q]) + 1
           x == <<q, n>>
<1>1. /\ e[q] \in Seq(Kinds) /\ n \in Nat /\ Len(f[q]) = n /\ f[q][n] = c
      /\ \A i \in 1..Len(e[q]) : f[q][i] = e[q][i]
      /\ \A i \in 1..Len(f[q]) : i \in 1..Len(e[q]) \/ i = n
      /\ \A i \in 1..Len(e[q]) : i \in 1..Len(f[q]) /\ i # n
      /\ n \in 1..Len(f[q])
      /\ \A p \in Producers : p # q => f[p] = e[p]
  BY DEF Channels
<1>2. x \in Producers \X Nat /\ x[1] = q /\ x[2] = n
  BY <1>1
<1>3. x \notin Marks(e, k)
  BY <1>1, <1>2 DEF Marks
<1> HIDE DEF f, n
<1>4. ASSUME NEW y \in Producers \X Nat
      PROVE  y \in Marks(f, k) <=> y \in Marks(e, k) \/ (y = x /\ k = c)
  <2>1. CASE y[1] = q
    <3>1. y = x <=> y[2] = n
      BY <2>1
    <3> QED
      BY <1>1, <2>1, <3>1 DEF Marks
  <2>2. CASE y[1] # q
    BY <1>1, <1>2, <2>2 DEF Marks
  <2> QED
    BY <2>1, <2>2
<1>5. Marks(f, k) = IF k = c THEN Marks(e, k) \cup {x} ELSE Marks(e, k)
  <2>1. Marks(f, k) \subseteq Producers \X Nat /\ Marks(e, k) \subseteq Producers \X Nat
    BY DEF Marks
  <2> QED
    BY <1>2, <1>4, <2>1
<1>6. /\ IsFiniteSet(Marks(e, k) \cup {x})
      /\ Cardinality(Marks(e, k) \cup {x}) = Cardinality(Marks(e, k)) + 1
  BY <1>3, FS_AddElement
<1>7. Cardinality(Marks(e, k)) \in Nat
  BY FS_CardinalityType
<1> QED
  BY <1>5, <1>6, <1>7 DEF f

LEMMA MarksTail ==
  ASSUME NEW e \in Channels, NEW q \in Producers, e[q] # <<>>, NEW k, IsFiniteSet(Marks(e, k))
  PROVE  /\ IsFiniteSet(Marks([e EXCEPT ![q] = Tail(@)], k))
         /\ Cardinality(Marks(e, k))
              = Cardinality(Marks([e EXCEPT ![q] = Tail(@)], k)) + (IF k = Head(e[q]) THEN 1 ELSE 0)
<1> DEFINE f == [e EXCEPT ![q] = Tail(@)]
           x == <<q, 1>>
           S == Marks(e, k) \ {x}
           T == Marks(f, k)
           g == [y \in S |-> IF y[1] = q THEN <<q, y[2] - 1>> ELSE y]
<1>1. /\ e[q] \in Seq(Kinds) /\ Len(e[q]) \in Nat /\ Len(e[q]) >= 1 /\ e[q][1] = Head(e[q])
      /\ Len(f[q]) = Len(e[q]) - 1
      /\ \A i \in 1..Len(f[q]) : f[q][i] = e[q][i + 1]
      /\ \A p \in Producers : p # q => f[p] = e[p]
  BY DEF Channels
<1>2. x \in Producers \X Nat /\ x[1] = q /\ x[2] = 1
  OBVIOUS
<1> HIDE DEF f
<1>3. \A y \in Producers \X Nat : y = <<y[1], y[2]>> /\ y[1] \in Producers /\ y[2] \in Nat
  OBVIOUS
<1>4. \A y \in S : y[1] = q => y[2] \in 2..Len(e[q]) /\ y[2] - 1 \in 1..Len(f[q])
  BY <1>1, <1>2, <1>3 DEF Marks
<1>5. g \in Bijection(S, T)
  <2>1. g \in [S -> T]
    <3> SUFFICES ASSUME NEW y \in S PROVE g[y] \in T
      OBVIOUS
    <3>1. CASE y[1] = q
      <4>1. /\ y[2] - 1 \in 1..Len(f[q]) /\ y[2] - 1 \in Nat /\ (y[2] - 1) + 1 = y[2]
            /\ e[q][y[2]] = k
        BY <1>1, <1>3, <1>4, <3>1 DEF Marks
      <4>2. f[q][y[2] - 1] = k
        BY <1>1, <4>1
      <4>3. g[y] = <<q, y[2] - 1>>
        BY <3>1
      <4> DEFINE z == <<q, y[2] - 1>>
      <4>4. z \in Producers \X Nat /\ z[1] = q /\ z[2] = y[2] - 1
        BY <4>1
      <4> HIDE DEF z
      <4>5. z \in T
        BY <4>1, <4>2, <4>4 DEF Marks
      <4> QED
        BY <4>3, <4>5 DEF z
    <3>2. CASE y[1] # q
      BY <1>1, <3>2 DEF Marks
    <3> QED
      BY <3>1, <3>2
  <2>2. \A y, z \in S : g[y] = g[z] => y = z
    <3> SUFFICES ASSUME NEW y \in S, NEW z \in S, g[y] = g[z] PROVE y = z
      OBVIOUS
    <3>1. y = <<y[1], y[2]>> /\ z = <<z[1], z[2]>> /\ y[2] \in Nat /\ z[2] \in Nat
      BY <1>3 DEF Marks
    <3>2. CASE y[1] = q /\ z[1] = q
      <4>1. y[2] - 1 = z[2] - 1
        BY <3>2
      <4> QED
        BY <3>1, <3>2, <4>1
    <3>3. CASE y[1] # q \/ z[1] # q
      BY <3>1, <3>3
    <3> QED
      BY <3>2, <3>3
  <2>3. \A t \in T : \E y \in S : g[y] = t
    <3> SUFFICES ASSUME NEW t \in T PROVE \E y \in S : g[y] = t
      OBVIOUS
    <3>1. t = <<t[1], t[2]>> /\ t[1] \in Producers /\ t[2] \in Nat /\ t[2] \in 1..Len(f[t[1]]) /\ f[t[1]][t[2]] = k
      BY <1>3 DEF Marks
    <3>2. CASE t[1] = q
      <4> DEFINE y == <<q, t[2] + 1>>
      <4>1. t[2] + 1 \in 1..Len(e[q]) /\ e[q][t[2] + 1] = k /\ t[2] + 1 # 1 /\ (t[2] + 1) - 1 = t[2]
        BY <1>1, <3>1, <3>2
      <4>2. y \in S
        BY <3>1, <4>1 DEF Marks
      <4>3. g[y] = t
        BY <3>1, <3>2, <4>1, <4>2
      <4> QED
        BY <4>2, <4>3
    <3>3. CASE t[1] # q
      <4>1. t \in S
        BY <1>1, <1>2, <3>1, <3>3 DEF Marks
      <4> QED
        BY <3>3, <4>1
    <3> QED
      BY <3>2, <3>3
  <2> QED
    BY <2>1, <2>2, <2>3 DEF Bijection, Injection, IsInjective, Surjection
<1>6. x \in Marks(e, k) <=> k = Head(e[q])
  BY <1>1, <1>2 DEF Marks
<1> HIDE DEF S, T, g, x
<1>7. IsFiniteSet(S) /\ Cardinality(S) = Cardinality(Marks(e, k)) - (IF k = Head(e[q]) THEN 1 ELSE 0)
  <2>1. Cardinality(Marks(e, k)) \in Nat
    BY FS_CardinalityType
  <2>2. IsFiniteSet(S) /\ Cardinality(S) = IF x \in Marks(e, k) THEN Cardinality(Marks(e, k)) - 1
                                                                ELSE Cardinality(Marks(e, k))
    BY FS_RemoveElement DEF S
  <2> QED
    BY <1>6, <2>1, <2>2
<1>8. IsFiniteSet(T) /\ Cardinality(T) = Cardinality(S)
  BY <1>5, <1>7, FS_Bijection DEF ExistsBijection
<1>9. Cardinality(Marks(e, k)) \in Nat
  BY FS_CardinalityType
<1> QED
  BY <1>7, <1>8, <1>9 DEF T, f
LEMMA CountsFinite ==
  /\ IsFiniteSet(InFlight) /\ Cardinality(InFlight) \in Nat /\ Cardinality(InFlight') \in Nat
  /\ \A k : IsFiniteSet(Counting(k)) /\ Cardinality(Counting(k)) \in Nat
  /\ \A k : IsFiniteSet(Counting(k)') /\ Cardinality(Counting(k)') \in Nat
<1>1. IsFiniteSet(InFlight) /\ IsFiniteSet(InFlight')
  <2>1. IsFiniteSet(Messages) /\ InFlight \in SUBSET Messages /\ InFlight' \in SUBSET Messages
    BY FS_Interval, BoundsAssumption DEF Messages, InFlight
  <2> QED
    BY <2>1, FS_Subset
<1>2. ASSUME NEW k PROVE IsFiniteSet(Counting(k)) /\ IsFiniteSet(Counting(k)')
  <2>1. /\ IsFiniteSet(Producers) /\ Counting(k) \in SUBSET Producers
        /\ Counting(k)' \in SUBSET Producers
    BY FS_Interval, BoundsAssumption DEF Producers, Counting
  <2> QED
    BY <2>1, FS_Subset
<1> QED
  BY <1>1, <1>2, FS_CardinalityType

LEMMA Differences ==
  ASSUME NEW a \in Int, NEW b \in Int, NEW c \in Int, NEW d \in Int, NEW n \in Int,
         a + n + d =< c + b
  PROVE  (a - b) + n =< c - d /\ a - b \in Int /\ c - d \in Int
OBVIOUS

\* The messages handed over whose outcome is known grow by n.
LEMMA ResolvedBy ==
  ASSUME TypeInv, TypeInv', NEW n \in Int,
         Len(handed) + n + Cardinality(InFlight') =< Len(handed') + Cardinality(InFlight)
  PROVE  Resolved + n =< Resolved' /\ Resolved \in Int /\ Resolved' \in Int
<1>1. /\ Len(handed) \in Int /\ Len(handed') \in Int
      /\ Cardinality(InFlight) \in Int /\ Cardinality(InFlight') \in Int
  BY CountsFinite DEF TypeInv, SequenceType
<1> QED
  BY <1>1, Differences DEF Resolved

LEMMA ResolvedAsync ==
  ASSUME TypeInv, TypeInv', SendAsync
  PROVE  /\ Resolved + 0 =< Resolved' /\ Resolved \in Int /\ Resolved' \in Int
         /\ Len(handed') = Len(handed) + 1
<1> DEFINE h == Head(batch)
<1>1. /\ h \in Messages /\ fate' = [fate EXCEPT ![h] = "inFlight"] /\ handed' = Append(handed, h)
      /\ fate \in [Messages -> Fates] /\ handed \in Seq(Messages)
  BY DEF SendAsync, Sending, Hand, TypeInv, SequenceType, FateType
<1> HIDE DEF h
<1>2. InFlight' = InFlight \cup {h}
  BY <1>1 DEF InFlight
<1>3. Cardinality(InFlight \cup {h}) =< Cardinality(InFlight) + 1
  <2>1. CASE h \in InFlight
    <3>1. InFlight \cup {h} = InFlight
      BY <2>1
    <3> QED
      BY <3>1, CountsFinite
  <2>2. CASE h \notin InFlight
    <3>1. Cardinality(InFlight \cup {h}) = Cardinality(InFlight) + 1
      BY <2>2, CountsFinite, FS_AddElement
    <3> QED
      BY <3>1, CountsFinite
  <2> QED
    BY <2>1, <2>2
<1>4. Cardinality(InFlight') =< Cardinality(InFlight) + 1
  BY <1>2, <1>3
<1>5. Len(handed') = Len(handed) + 1 /\ Len(handed) \in Nat
  BY <1>1
<1>6. Len(handed) + 0 + Cardinality(InFlight') =< Len(handed') + Cardinality(InFlight)
  BY <1>4, <1>5, CountsFinite
<1> QED
  BY <1>5, <1>6, ResolvedBy

\* The other steps hand nothing over and put nothing in flight.
Elsewhere ==
  \/ SinkRefuse \/ Flush \/ Reset \/ Close \/ Clear \/ SendRandomError \/ SendEnd \/ AwaitTimeout
  \/ AwaitDrained \/ Settle \/ Shut \/ Renew \/ RenewFails \/ UNCHANGED vars
  \/ \E m \in Messages : SinkProduce(m)
  \/ \E p \in Producers : Monitor(p)

LEMMA FlightShrinks ==
  ASSUME TypeInv, SendSynch \/ SendFails \/ Elsewhere
  PROVE  InFlight' \subseteq InFlight
<1>1. CASE SendSynch
  BY <1>1 DEF SendSynch, Hand, InFlight, TypeInv, FateType
<1>2. CASE SendFails \/ SendRandomError
  BY <1>2 DEF SendFails, SendRandomError, LoseBatch, LostAs, InFlight
<1>3. CASE Shut
  BY <1>3 DEF Shut, InFlight
<1>4. ASSUME NEW m \in Messages, SinkProduce(m) PROVE InFlight' \subseteq InFlight
  BY <1>4 DEF SinkProduce, InFlight, TypeInv, FateType
<1>5. \/ SinkRefuse \/ Flush \/ Reset \/ Close \/ Clear \/ SendEnd \/ AwaitTimeout \/ AwaitDrained
      \/ Settle \/ Renew \/ RenewFails \/ UNCHANGED vars \/ \E p \in Producers : Monitor(p)
      => UNCHANGED fate
  BY DEF SinkRefuse, Flush, FlushQueue, Clear, Reset, Close, SendEnd, AwaitTimeout, AwaitDrained,
         Settle, Renew, RenewFails, Monitor, MonitorStart, MonitorTake, MonitorRead,
         MonitorWrite, MonitorExit, SetMonitor, vars, messages
<1>6. UNCHANGED fate => InFlight' \subseteq InFlight
  BY DEF InFlight
<1> QED
  BY <1>1, <1>2, <1>3, <1>4, <1>5, <1>6 DEF Elsewhere

LEMMA ResolvedSent ==
  ASSUME TypeInv, TypeInv', SendSynch \/ SendFails
  PROVE  /\ Resolved + 1 =< Resolved' /\ Resolved \in Int /\ Resolved' \in Int
         /\ Len(handed') = Len(handed) + 1
<1>1. Len(handed') = Len(handed) + 1 /\ Len(handed) \in Nat
  BY DEF SendSynch, SendFails, Hand, TypeInv, SequenceType
<1>2. InFlight' \subseteq InFlight
  BY FlightShrinks
<1>3. Cardinality(InFlight') =< Cardinality(InFlight)
  BY <1>2, CountsFinite, FS_Subset
<1>4. Len(handed) + 1 + Cardinality(InFlight') =< Len(handed') + Cardinality(InFlight)
  BY <1>1, <1>3, CountsFinite
<1> QED
  BY <1>1, <1>4, ResolvedBy

LEMMA ResolvedReported ==
  ASSUME TypeInv, TypeInv', NEW m \in Messages, DeliveryReport(m)
  PROVE  Resolved + 1 =< Resolved' /\ Resolved \in Int /\ Resolved' \in Int
<1>1. m \in InFlight /\ InFlight' = InFlight \ {m} /\ handed' = handed
  BY DEF DeliveryReport, InFlight, Kinds, TypeInv, FateType
<1>2. Cardinality(InFlight \ {m}) = Cardinality(InFlight) - 1
  BY <1>1, CountsFinite, FS_RemoveElement
<1>3. Cardinality(InFlight') = Cardinality(InFlight) - 1
  BY <1>1, <1>2
<1>4. Len(handed') = Len(handed) /\ Len(handed) \in Nat
  BY <1>1 DEF TypeInv, SequenceType
<1>5. Len(handed) + 1 + Cardinality(InFlight') =< Len(handed') + Cardinality(InFlight)
  BY <1>3, <1>4, CountsFinite
<1> QED
  BY <1>5, ResolvedBy

LEMMA ResolvedElsewhere ==
  ASSUME TypeInv, TypeInv', Elsewhere
  PROVE  /\ Resolved + 0 =< Resolved' /\ Resolved \in Int /\ Resolved' \in Int
         /\ handed' = handed
<1>1. handed' = handed
  BY DEF Elsewhere, SinkRefuse, SinkProduce, Flush, FlushQueue, Clear, Reset, Close, SendRandomError,
         SendEnd, AwaitTimeout, AwaitDrained, Settle, Shut, Renew, RenewFails, Monitor, MonitorStart,
         MonitorTake, MonitorRead, MonitorWrite, MonitorExit, SetMonitor, vars, messages
<1>2. InFlight' \subseteq InFlight
  BY FlightShrinks
<1>3. Cardinality(InFlight') =< Cardinality(InFlight)
  BY <1>2, CountsFinite, FS_Subset
<1>4. Len(handed') = Len(handed) /\ Len(handed) \in Nat
  BY <1>1 DEF TypeInv, SequenceType
<1>5. Len(handed) + 0 + Cardinality(InFlight') =< Len(handed') + Cardinality(InFlight)
  BY <1>3, <1>4, CountsFinite
<1> QED
  BY <1>1, <1>5, ResolvedBy

\* The events still to be counted: what each step does to them.
UncountedType ==
  \A k \in Kinds : IsFiniteSet(Marks(events, k)) /\ Cardinality(Marks(events, k)) \in Nat

LEMMA UncountedIs ==
  ASSUME UncountedType, UncountedType'
  PROVE  \A k \in Kinds : Uncounted(k) \in Nat /\ Uncounted(k)' \in Nat
<1> SUFFICES ASSUME NEW k \in Kinds PROVE Uncounted(k) \in Nat /\ Uncounted(k)' \in Nat
  OBVIOUS
<1>1. /\ Cardinality(Marks(events, k)) \in Nat /\ Cardinality(Marks(events', k)) \in Nat
      /\ Cardinality(Counting(k)) \in Nat /\ Cardinality(Counting(k)') \in Nat
  BY CountsFinite DEF UncountedType
<1> QED
  BY <1>1 DEF Uncounted

\* CountInv is kept by a step after which n more outcomes are known, and no kind has
\* more than n more, counted or not.
LEMMA CountCarries ==
  ASSUME TypeInv, CountInv, NEW n \in Nat, UncountedType, UncountedType',
         CounterType', LibraryType',
         Resolved + n =< Resolved', Resolved \in Int, Resolved' \in Int,
         \A k \in Kinds : /\ Uncounted(k)' =< Uncounted(k) + n
                          /\ stats'[k] + Uncounted(k)' =< stats[k] + Uncounted(k) + n,
         \A p \in Producers : monitor'[p].at = "write" =>
           /\ monitor'[p].kind \in Kinds
           /\ \/ /\ monitor[p].at = "write" /\ monitor[p].kind = monitor'[p].kind
                 /\ monitor'[p].read = monitor[p].read
              \/ monitor'[p].read = stats[monitor'[p].kind],
         stats'["accepted"] =< Len(handed')
  PROVE  CountInv'
<1>1. ASSUME NEW k \in Kinds
      PROVE  IsFiniteSet(Marks(events, k))' /\ stats'[k] + Uncounted(k)' =< Resolved'
  <2> DEFINE s == stats[k]
             t == stats'[k]
             u == Uncounted(k)
             v == Uncounted(k)'
             r == Resolved
             q == Resolved'
  <2>1. s \in Nat /\ t \in Nat /\ u \in Nat /\ v \in Nat
    BY UncountedIs DEF TypeInv, CounterType, Counters, Kinds
  <2>2. s + u =< r /\ t + v =< s + u + n /\ r + n =< q
    BY DEF CountInv
  <2>3. r \in Int /\ q \in Int
    OBVIOUS
  <2> HIDE DEF s, t, u, v, r, q
  <2>4. t + v =< q
    BY ONLY <2>1, <2>2, <2>3, n \in Nat
  <2> QED
    BY <2>4 DEF t, v, q, UncountedType
<1>2. ASSUME NEW p \in Producers, NEW k \in Kinds, monitor'[p].at = "write", monitor'[p].kind = k
      PROVE  monitor'[p].read + Uncounted(k)' =< Resolved'
  <2> DEFINE s == monitor'[p].read
             u == Uncounted(k)
             v == Uncounted(k)'
             r == Resolved
             q == Resolved'
  <2>2. s \in Nat /\ u \in Nat /\ v \in Nat
    <3>1. s \in Nat
      BY DEF LibraryType, Monitors
    <3> QED
      BY <3>1, UncountedIs
  <2>3. s + u =< r
    <3>1. CASE s = stats[k]
      <4>1. stats[k] + Uncounted(k) =< Resolved
        BY DEF CountInv
      <4> QED
        BY <3>1, <4>1
    <3>2. CASE monitor[p].at = "write" /\ monitor[p].kind = k /\ s = monitor[p].read
      <4>1. monitor[p].read + Uncounted(k) =< Resolved
        BY <3>2 DEF CountInv
      <4> QED
        BY <3>2, <4>1
    <3> QED
      BY <1>2, <3>1, <3>2
  <2>4. v =< u + n /\ r + n =< q /\ r \in Int /\ q \in Int
    OBVIOUS
  <2> HIDE DEF s, u, v, r, q
  <2>5. s + v =< q
    BY ONLY <2>2, <2>3, <2>4, n \in Nat
  <2> QED
    BY <2>5 DEF s, v, q
<1> QED
  BY <1>1, <1>2 DEF CountInv

LEMMA SameChannels ==
  ASSUME UncountedType, UNCHANGED events, NEW k \in Kinds, Counting(k)' \subseteq Counting(k)
  PROVE  /\ IsFiniteSet(Marks(events, k))' /\ Cardinality(Marks(events, k))' \in Nat
         /\ Uncounted(k)' =< Uncounted(k)
<1>1. Marks(events, k)' = Marks(events, k)
  BY DEF Marks
<1>2. Cardinality(Counting(k)') =< Cardinality(Counting(k))
  BY CountsFinite, FS_Subset
<1>3. Cardinality(Marks(events, k))' = Cardinality(Marks(events, k)) /\ Cardinality(Marks(events, k)) \in Nat
  BY <1>1 DEF UncountedType
<1>4. IsFiniteSet(Marks(events, k))'
  BY <1>1 DEF UncountedType
<1>5. Uncounted(k)' = Cardinality(Marks(events, k))' + Cardinality(Counting(k)')
  BY DEF Uncounted
<1> QED
  BY <1>2, <1>3, <1>4, <1>5, CountsFinite DEF Uncounted

\* What the steps outside the monitors and the producer leave of the counters.
LEMMA CountersElsewhere ==
  ASSUME TypeInv, Elsewhere, ~\E p \in Producers : Monitor(p)
  PROVE  /\ \A k \in Kinds : stats'[k] =< stats[k]
         /\ stats'["accepted"] =< stats["accepted"]
         /\ UNCHANGED events
<1>1. UNCHANGED stats \/ stats' = Zero \/ stats' = Count(stats, "queued")
  BY DEF Elsewhere, SinkRefuse, SinkProduce, Flush, FlushQueue, Clear, Reset, Close, SendRandomError,
         SendEnd, AwaitTimeout, AwaitDrained, Settle, Shut, Renew, RenewFails, vars
<1>2. UNCHANGED events
  BY DEF Elsewhere, SinkRefuse, SinkProduce, Flush, FlushQueue, Clear, Reset, Close, SendRandomError,
         SendEnd, AwaitTimeout, AwaitDrained, Settle, Shut, Renew, RenewFails, vars, library
<1>3. \A k \in {"produced", "failed", "accepted"} : stats[k] \in Nat /\ stats'[k] \in {0, stats[k]}
  BY <1>1 DEF TypeInv, CounterType, Counters, Zero, Count
<1> QED
  BY <1>2, <1>3 DEF Kinds

\* A producer that is made has a monitor that counts nothing yet.
LEMMA MonitorsElsewhere ==
  ASSUME TypeInv, Elsewhere, ~\E p \in Producers : Monitor(p)
  PROVE  \A p \in Producers : monitor'[p] = monitor[p] \/ monitor'[p] = Spawned
<1>1. CASE Renew
  BY <1>1 DEF Renew, TypeInv, LibraryType
<1>2. CASE ~Renew
  <2>1. UNCHANGED monitor
    BY <1>2 DEF Elsewhere, SinkRefuse, SinkProduce, Flush, FlushQueue, Clear, Reset, Close,
                SendRandomError, SendEnd, AwaitTimeout, AwaitDrained, Settle, Shut, RenewFails, vars
  <2> QED
    BY <2>1
<1> QED
  BY <1>1, <1>2

LEMMA CountElsewhere ==
  ASSUME TypeInv, TypeInv', CountInv, UncountedType, Elsewhere, ~\E p \in Producers : Monitor(p)
  PROVE  CountInv' /\ UncountedType'
<1>1. \A k \in Kinds : Counting(k)' \subseteq Counting(k)
  BY MonitorsElsewhere DEF Counting, Spawned, Idle
<1>2. \A k \in Kinds : /\ IsFiniteSet(Marks(events, k))' /\ Cardinality(Marks(events, k))' \in Nat
                       /\ Uncounted(k)' =< Uncounted(k)
  BY <1>1, CountersElsewhere, SameChannels
<1>3. UncountedType'
  BY <1>2 DEF UncountedType
<1>4. ASSUME NEW k \in Kinds
      PROVE  /\ Uncounted(k)' =< Uncounted(k) + 0
             /\ stats'[k] + Uncounted(k)' =< stats[k] + Uncounted(k) + 0
  <2> DEFINE a == stats[k]
             b == stats'[k]
             c == Uncounted(k)
             d == Uncounted(k)'
  <2>1. a \in Nat /\ b \in Nat /\ c \in Nat /\ d \in Nat /\ b =< a /\ d =< c
    BY <1>2, <1>3, UncountedIs, CountersElsewhere DEF TypeInv, CounterType, Counters, Kinds
  <2> HIDE DEF a, b, c, d
  <2>2. d =< c + 0 /\ b + d =< a + c + 0
    BY ONLY <2>1
  <2> QED
    BY <2>2 DEF a, b, c, d
<1>5. \A p \in Producers : monitor'[p].at = "write" =>
        /\ monitor'[p].kind \in Kinds
        /\ \/ /\ monitor[p].at = "write" /\ monitor[p].kind = monitor'[p].kind
              /\ monitor'[p].read = monitor[p].read
           \/ monitor'[p].read = stats[monitor'[p].kind]
  BY MonitorsElsewhere, MonitorTyped DEF Spawned, Idle, TypeInv
<1>6. stats'["accepted"] =< Len(handed')
  <2>1. /\ stats'["accepted"] =< stats["accepted"] /\ stats["accepted"] =< Len(handed)
        /\ handed' = handed
    BY CountersElsewhere, ResolvedElsewhere DEF CountInv
  <2>2. stats'["accepted"] \in Nat /\ stats["accepted"] \in Nat /\ Len(handed) \in Nat
    BY DEF TypeInv, CounterType, Counters, SequenceType
  <2> QED
    BY <2>1, <2>2
<1>7. CounterType' /\ LibraryType'
  BY DEF TypeInv
<1>8. Resolved + 0 =< Resolved' /\ Resolved \in Int /\ Resolved' \in Int
  BY ResolvedElsewhere
<1>9. CountInv'
  BY <1>3, <1>4, <1>5, <1>6, <1>7, <1>8, CountCarries
<1> QED
  BY <1>3, <1>9

\* Handing a message over adds at most one to a counter, and then its outcome is known.
LEMMA CountSends ==
  ASSUME TypeInv, TypeInv', CountInv, UncountedType, SendAsync \/ SendSynch \/ SendFails
  PROVE  CountInv' /\ UncountedType'
<1>1. UNCHANGED <<events, monitor>>
  BY DEF SendAsync, SendSynch, SendFails, library
<1>2. \A k \in Kinds : /\ IsFiniteSet(Marks(events, k))' /\ Cardinality(Marks(events, k))' \in Nat
                       /\ Uncounted(k)' =< Uncounted(k)
  <2>1. \A k \in Kinds : Counting(k)' \subseteq Counting(k)
    BY <1>1 DEF Counting
  <2> QED
    BY <1>1, <2>1, SameChannels
<1>3. UncountedType'
  BY <1>2 DEF UncountedType
<1>4. ASSUME NEW n \in Nat,
             \A k \in Kinds : stats'[k] =< stats[k] + n,
             Resolved + n =< Resolved', Resolved \in Int, Resolved' \in Int
      PROVE  CountInv'
  <2>1. ASSUME NEW k \in Kinds
        PROVE  /\ Uncounted(k)' =< Uncounted(k) + n
               /\ stats'[k] + Uncounted(k)' =< stats[k] + Uncounted(k) + n
    <3> DEFINE a == stats[k]
               b == stats'[k]
               c == Uncounted(k)
               d == Uncounted(k)'
    <3>1. a \in Nat /\ b \in Nat /\ c \in Nat /\ d \in Nat /\ b =< a + n /\ d =< c
      BY <1>2, <1>3, <1>4, UncountedIs DEF TypeInv, CounterType, Counters, Kinds
    <3> HIDE DEF a, b, c, d
    <3>2. d =< c + n /\ b + d =< a + c + n
      BY ONLY <3>1, n \in Nat
    <3> QED
      BY <3>2 DEF a, b, c, d
  <2>2. \A p \in Producers : monitor'[p].at = "write" =>
          /\ monitor'[p].kind \in Kinds
          /\ \/ /\ monitor[p].at = "write" /\ monitor[p].kind = monitor'[p].kind
                /\ monitor'[p].read = monitor[p].read
             \/ monitor'[p].read = stats[monitor'[p].kind]
    BY <1>1, MonitorTyped DEF TypeInv
  <2>3. stats'["accepted"] =< Len(handed')
    <3>1. stats["accepted"] =< Len(handed) /\ stats["accepted"] \in Nat /\ Len(handed) \in Nat
      BY DEF CountInv, TypeInv, CounterType, Counters, SequenceType
    <3>2. Len(handed') = Len(handed) + 1
      BY ResolvedAsync, ResolvedSent
    <3>3. stats'["accepted"] = stats["accepted"] \/ stats'["accepted"] = stats["accepted"] + 1
      BY DEF SendAsync, SendSynch, SendFails, Count, TypeInv, CounterType, Counters
    <3> QED
      BY <3>1, <3>2, <3>3
  <2>4. CounterType' /\ LibraryType'
    BY DEF TypeInv
  <2> QED
    BY <1>3, <1>4, <2>1, <2>2, <2>3, <2>4, CountCarries
<1>5. CASE SendAsync
  <2>1. \A k \in Kinds : stats'[k] = stats[k] /\ stats[k] \in Nat
    BY <1>5 DEF SendAsync, Count, Kinds, TypeInv, CounterType, Counters
  <2>2. \A k \in Kinds : stats'[k] =< stats[k] + 0
    BY <2>1
  <2> QED
    BY <1>3, <1>4, <1>5, <2>2, ResolvedAsync
<1>6. CASE SendSynch \/ SendFails
  <2>1. \A k \in Kinds : stats'[k] \in {stats[k], stats[k] + 1} /\ stats[k] \in Nat
    BY <1>6 DEF SendSynch, SendFails, Count, Kinds, TypeInv, CounterType, Counters
  <2>2. \A k \in Kinds : stats'[k] =< stats[k] + 1
    BY <2>1
  <2> QED
    BY <1>3, <1>4, <1>6, <2>2, ResolvedSent
<1> QED
  BY <1>5, <1>6

\* The outcome of a message in flight becomes known, and is to be counted.
LEMMA CountReported ==
  ASSUME TypeInv, TypeInv', CountInv, UncountedType, NEW m \in Messages, DeliveryReport(m)
  PROVE  CountInv' /\ UncountedType'
<1>1. /\ UNCHANGED <<stats, monitor>> /\ handed' = handed
      /\ \E c \in Kinds : events' = [events EXCEPT ![kp] = Append(@, c)]
  BY DEF DeliveryReport
<1>2. PICK c \in Kinds : events' = [events EXCEPT ![kp] = Append(@, c)]
  BY <1>1
<1>3. events \in Channels /\ kp \in Producers
  BY DEF TypeInv, LibraryType, ControlType, Channels
<1>4. ASSUME NEW k \in Kinds
      PROVE  /\ IsFiniteSet(Marks(events, k)')
             /\ Cardinality(Marks(events, k)') = Cardinality(Marks(events, k)) + (IF k = c THEN 1 ELSE 0)
  <2> DEFINE f == [events EXCEPT ![kp] = Append(@, c)]
  <2>1. /\ IsFiniteSet(Marks(f, k))
        /\ Cardinality(Marks(f, k)) = Cardinality(Marks(events, k)) + (IF k = c THEN 1 ELSE 0)
    BY <1>3, MarksAppend DEF UncountedType
  <2>2. Marks(events, k)' = Marks(f, k)
    BY <1>2 DEF Marks
  <2> HIDE DEF f
  <2> QED
    BY <2>1, <2>2
<1>5. UncountedType'
  <2>1. \A k \in Kinds : Cardinality(Marks(events, k)') \in Nat
    BY <1>4, FS_CardinalityType
  <2> QED
    BY <1>4, <2>1 DEF UncountedType
<1>6. ASSUME NEW k \in Kinds
      PROVE  /\ Uncounted(k)' =< Uncounted(k) + 1
             /\ stats'[k] + Uncounted(k)' =< stats[k] + Uncounted(k) + 1
  <2> DEFINE a == stats[k]
             c1 == Cardinality(Marks(events, k))
             d1 == Cardinality(Marks(events, k)')
             c2 == Cardinality(Counting(k))
  <2>1. Counting(k)' = Counting(k)
    BY <1>1 DEF Counting
  <2>2. Uncounted(k) = c1 + c2 /\ Uncounted(k)' = d1 + c2
    BY <2>1 DEF Uncounted
  <2>3. a \in Nat /\ c1 \in Nat /\ d1 \in Nat /\ c2 \in Nat /\ stats'[k] = a
    BY <1>1, <1>5, CountsFinite DEF UncountedType, TypeInv, CounterType, Counters, Kinds
  <2>4. d1 = c1 + (IF k = c THEN 1 ELSE 0)
    BY <1>4
  <2> HIDE DEF a, c1, d1, c2
  <2>5. d1 =< c1 + 1
    BY ONLY <2>3, <2>4
  <2>6. d1 + c2 =< c1 + c2 + 1 /\ a + (d1 + c2) =< a + (c1 + c2) + 1
    BY ONLY <2>3, <2>5
  <2> QED
    BY <2>2, <2>3, <2>6 DEF a
<1>7. \A p \in Producers : monitor'[p].at = "write" =>
        /\ monitor'[p].kind \in Kinds
        /\ \/ /\ monitor[p].at = "write" /\ monitor[p].kind = monitor'[p].kind
              /\ monitor'[p].read = monitor[p].read
           \/ monitor'[p].read = stats[monitor'[p].kind]
  BY <1>1, MonitorTyped DEF TypeInv
<1>8. stats'["accepted"] =< Len(handed')
  BY <1>1 DEF CountInv
<1>9. CounterType' /\ LibraryType'
  BY DEF TypeInv
<1>10. Resolved + 1 =< Resolved' /\ Resolved \in Int /\ Resolved' \in Int
  BY ResolvedReported
<1>11. CountInv'
  BY <1>5, <1>6, <1>7, <1>8, <1>9, <1>10, CountCarries
<1> QED
  BY <1>5, <1>11

\* A monitor that starts, reads a counter or ends counts no other event.
LEMMA CountSteady ==
  ASSUME TypeInv, TypeInv', CountInv, UncountedType, NEW p \in Producers,
         MonitorStart(p) \/ MonitorRead(p) \/ MonitorExit(p)
  PROVE  CountInv' /\ UncountedType'
<1>1. /\ UNCHANGED <<stats, events, handed>>
      /\ \A q \in Producers : q # p => monitor'[q] = monitor[q]
      /\ \/ monitor'[p].at \in {"range", "exited"}
         \/ /\ monitor[p].at = "taken" /\ monitor'[p].at = "write"
            /\ monitor'[p].kind = monitor[p].kind
            /\ monitor'[p].read = stats[monitor[p].kind]
  <2>1. CASE MonitorStart(p)
    BY <2>1, MonitorTyped DEF MonitorStart, SetMonitor, messages, TypeInv, LibraryType
  <2>2. CASE MonitorRead(p)
    <3>1. UNCHANGED <<stats, events, handed>> /\ monitor[p].at = "taken"
      BY <2>2 DEF MonitorRead, SetMonitor, messages
    <3>2. monitor' = [monitor EXCEPT ![p] = [monitor[p] EXCEPT !.at = "write", !.read = stats[monitor[p].kind]]]
      BY <2>2 DEF MonitorRead, SetMonitor
    <3>3. /\ monitor'[p] = [monitor[p] EXCEPT !.at = "write", !.read = stats[monitor[p].kind]]
          /\ \A q \in Producers : q # p => monitor'[q] = monitor[q]
      BY <3>2 DEF TypeInv, LibraryType
    <3>4. monitor[p] = [at |-> monitor[p].at, on |-> monitor[p].on,
                        kind |-> monitor[p].kind, read |-> monitor[p].read]
      BY MonitorTyped DEF TypeInv
    <3> DEFINE r == monitor[p]
               n == stats[r.kind]
    <3>5. /\ r = [at |-> r.at, on |-> r.on, kind |-> r.kind, read |-> r.read]
          /\ monitor'[p] = [r EXCEPT !.at = "write", !.read = n]
      BY <3>3, <3>4
    <3> HIDE DEF r, n
    <3>6. /\ [r EXCEPT !.at = "write", !.read = n].at = "write"
          /\ [r EXCEPT !.at = "write", !.read = n].kind = r.kind
          /\ [r EXCEPT !.at = "write", !.read = n].read = n
      BY ONLY <3>5
    <3>7. monitor'[p].at = "write" /\ monitor'[p].kind = r.kind /\ monitor'[p].read = n
      BY ONLY <3>5, <3>6
    <3> QED
      BY <3>1, <3>3, <3>7 DEF r, n
  <2>3. CASE MonitorExit(p)
    BY <2>3 DEF MonitorExit, SetMonitor, messages, TypeInv, LibraryType, Idle
  <2> QED
    BY <2>1, <2>2, <2>3
<1>2. \A k \in Kinds : Counting(k)' \subseteq Counting(k)
  BY <1>1 DEF Counting
<1>3. \A k \in Kinds : /\ IsFiniteSet(Marks(events, k))' /\ Cardinality(Marks(events, k))' \in Nat
                       /\ Uncounted(k)' =< Uncounted(k)
  BY <1>1, <1>2, SameChannels
<1>4. UncountedType'
  BY <1>3 DEF UncountedType
<1>5. ASSUME NEW k \in Kinds
      PROVE  /\ Uncounted(k)' =< Uncounted(k) + 0
             /\ stats'[k] + Uncounted(k)' =< stats[k] + Uncounted(k) + 0
  <2> DEFINE a == stats[k]
             c == Uncounted(k)
             d == Uncounted(k)'
  <2>1. a \in Nat /\ stats'[k] = a /\ c \in Nat /\ d \in Nat /\ d =< c
    BY <1>1, <1>3, <1>4, UncountedIs DEF TypeInv, CounterType, Counters, Kinds
  <2> HIDE DEF a, c, d
  <2>2. d =< c + 0 /\ a + d =< a + c + 0
    BY ONLY <2>1
  <2> QED
    BY <2>1, <2>2 DEF a, c, d
<1>6. \A q \in Producers : monitor'[q].at = "write" =>
        /\ monitor'[q].kind \in Kinds
        /\ \/ /\ monitor[q].at = "write" /\ monitor[q].kind = monitor'[q].kind
              /\ monitor'[q].read = monitor[q].read
           \/ monitor'[q].read = stats[monitor'[q].kind]
  BY <1>1, MonitorTyped DEF TypeInv
<1>7. stats'["accepted"] =< Len(handed')
  BY <1>1 DEF CountInv
<1>8. CounterType' /\ LibraryType'
  BY DEF TypeInv
<1>9. Resolved + 0 =< Resolved' /\ Resolved \in Int /\ Resolved' \in Int
  BY ResolvedElsewhere DEF Elsewhere, Monitor
<1>10. CountInv'
  BY <1>4, <1>5, <1>6, <1>7, <1>8, <1>9, CountCarries
<1> QED
  BY <1>4, <1>10

\* An event that is taken leaves the channel and is still to be counted.
LEMMA CountTaken ==
  ASSUME TypeInv, TypeInv', CountInv, UncountedType, NEW p \in Producers, MonitorTake(p)
  PROVE  CountInv' /\ UncountedType'
<1> DEFINE o == monitor[p].on
           c == Head(events[o])
<1>1. events \in Channels /\ o \in Producers /\ monitor[p].at = "range"
  BY MonitorTyped DEF TypeInv, LibraryType, Channels, MonitorTake
<1>2. /\ UNCHANGED <<stats, handed>> /\ events[o] # <<>>
      /\ events' = [events EXCEPT ![o] = Tail(@)]
  BY DEF MonitorTake, SetMonitor, messages
<1>3. /\ monitor'[p].at = "taken" /\ monitor'[p].kind = c
      /\ \A q \in Producers : q # p => monitor'[q] = monitor[q]
  <2> DEFINE r == monitor[p]
  <2>1. monitor' = [monitor EXCEPT ![p] = [r EXCEPT !.at = "taken", !.kind = c]]
    BY DEF MonitorTake, SetMonitor
  <2>2. /\ monitor'[p] = [r EXCEPT !.at = "taken", !.kind = c]
        /\ \A q \in Producers : q # p => monitor'[q] = monitor[q]
    BY <2>1 DEF TypeInv, LibraryType
  <2>3. r = [at |-> r.at, on |-> r.on, kind |-> r.kind, read |-> r.read]
    BY MonitorTyped DEF TypeInv
  <2> HIDE DEF r, c, o
  <2>4. /\ [r EXCEPT !.at = "taken", !.kind = c].at = "taken"
        /\ [r EXCEPT !.at = "taken", !.kind = c].kind = c
    BY ONLY <2>3
  <2> QED
    BY ONLY <2>2, <2>4
<1>4. c \in Kinds
  BY <1>1, <1>2 DEF Channels
<1> HIDE DEF o, c
<1>5. ASSUME NEW k \in Kinds
      PROVE  /\ IsFiniteSet(Marks(events, k)')
             /\ Cardinality(Marks(events, k)) = Cardinality(Marks(events, k)') + (IF k = c THEN 1 ELSE 0)
  <2> DEFINE f == [events EXCEPT ![o] = Tail(@)]
  <2>1. /\ IsFiniteSet(Marks(f, k))
        /\ Cardinality(Marks(events, k)) = Cardinality(Marks(f, k)) + (IF k = Head(events[o]) THEN 1 ELSE 0)
    <3>1. IsFiniteSet(Marks(events, k))
      BY DEF UncountedType
    <3>2. events \in Channels /\ o \in Producers /\ events[o] # <<>>
      BY <1>1, <1>2
    <3>3. ASSUME NEW e \in Channels, NEW q \in Producers, e[q] # <<>>, IsFiniteSet(Marks(e, k))
          PROVE  /\ IsFiniteSet(Marks([e EXCEPT ![q] = Tail(@)], k))
                 /\ Cardinality(Marks(e, k)) = Cardinality(Marks([e EXCEPT ![q] = Tail(@)], k))
                                                 + (IF k = Head(e[q]) THEN 1 ELSE 0)
      BY ONLY <3>3, MarksTail
    <3> QED
      BY ONLY <3>1, <3>2, <3>3
  <2>2. Marks(events, k)' = Marks(f, k)
    BY <1>2 DEF Marks
  <2> HIDE DEF f
  <2> QED
    BY <2>1, <2>2 DEF c
<1>6. UncountedType'
  <2>1. \A k \in Kinds : Cardinality(Marks(events, k)') \in Nat
    BY <1>5, FS_CardinalityType
  <2> QED
    BY <1>5, <2>1 DEF UncountedType
<1>7. ASSUME NEW k \in Kinds
      PROVE  Cardinality(Counting(k)') = Cardinality(Counting(k)) + (IF k = c THEN 1 ELSE 0)
  <2>1. p \notin Counting(k)
    BY <1>1 DEF Counting
  <2>2. Counting(k)' = IF k = c THEN Counting(k) \cup {p} ELSE Counting(k)
    BY <1>3, <2>1 DEF Counting
  <2>3. Cardinality(Counting(k) \cup {p}) = Cardinality(Counting(k)) + 1
    BY <2>1, CountsFinite, FS_AddElement
  <2> QED
    BY <2>2, <2>3, CountsFinite
<1>8. ASSUME NEW k \in Kinds
      PROVE  /\ Uncounted(k)' =< Uncounted(k) + 0
             /\ stats'[k] + Uncounted(k)' =< stats[k] + Uncounted(k) + 0
  <2> DEFINE a == stats[k]
             c1 == Cardinality(Marks(events, k))
             d1 == Cardinality(Marks(events, k)')
             c2 == Cardinality(Counting(k))
             d2 == Cardinality(Counting(k)')
             e == IF k = c THEN 1 ELSE 0
  <2>1. Uncounted(k) = c1 + c2 /\ Uncounted(k)' = d1 + d2
    BY DEF Uncounted
  <2>2. /\ a \in Nat /\ c1 \in Nat /\ d1 \in Nat /\ c2 \in Nat /\ d2 \in Nat /\ e \in Nat
        /\ stats'[k] = a
    BY <1>2, <1>6, CountsFinite DEF UncountedType, TypeInv, CounterType, Counters, Kinds
  <2>3. c1 = d1 + e /\ d2 = c2 + e
    BY <1>5, <1>7
  <2> HIDE DEF a, c1, d1, c2, d2, e
  <2>4. d1 + d2 =< c1 + c2 + 0 /\ a + (d1 + d2) =< a + (c1 + c2) + 0
    BY ONLY <2>2, <2>3
  <2> QED
    BY <2>1, <2>2, <2>4 DEF a
<1>9. \A q \in Producers : monitor'[q].at = "write" =>
        /\ monitor'[q].kind \in Kinds
        /\ \/ /\ monitor[q].at = "write" /\ monitor[q].kind = monitor'[q].kind
              /\ monitor'[q].read = monitor[q].read
           \/ monitor'[q].read = stats[monitor'[q].kind]
  BY <1>3, MonitorTyped DEF TypeInv
<1>10. stats'["accepted"] =< Len(handed')
  BY <1>2 DEF CountInv
<1>11. CounterType' /\ LibraryType'
  BY DEF TypeInv
<1>12. Resolved + 0 =< Resolved' /\ Resolved \in Int /\ Resolved' \in Int
  BY ResolvedElsewhere DEF Elsewhere, Monitor
<1>13. CountInv'
  BY <1>6, <1>8, <1>9, <1>10, <1>11, <1>12, CountCarries
<1> QED
  BY <1>6, <1>13

\* What is written is one more than what was read, and one event less is to be counted.
LEMMA CountWritten ==
  ASSUME TypeInv, TypeInv', CountInv, UncountedType, NEW p \in Producers, MonitorWrite(p)
  PROVE  CountInv' /\ UncountedType'
<1>1. PICK c \in Kinds, r \in Nat : monitor[p].kind = c /\ monitor[p].read = r
  BY MonitorTyped DEF TypeInv, MonitorWrite
<1>2. /\ UNCHANGED <<events, handed>> /\ stats' = [stats EXCEPT ![c] = r + 1]
      /\ monitor[p].at = "write"
  BY <1>1 DEF MonitorWrite, SetMonitor, messages
<1>3. /\ monitor'[p].at = "range"
      /\ \A q \in Producers : q # p => monitor'[q] = monitor[q]
  BY MonitorTyped DEF MonitorWrite, SetMonitor, TypeInv, LibraryType
<1>4. ASSUME NEW k \in Kinds
      PROVE  Counting(k)' = IF k = c THEN Counting(k) \ {p} ELSE Counting(k)
  BY <1>1, <1>2, <1>3 DEF Counting
<1>5. \A k \in Kinds : /\ IsFiniteSet(Marks(events, k))' /\ Cardinality(Marks(events, k))' \in Nat
                       /\ Uncounted(k)' =< Uncounted(k)
  BY <1>2, <1>4, SameChannels
<1>6. UncountedType'
  BY <1>5 DEF UncountedType
<1>7. Uncounted(c)' + 1 = Uncounted(c)
  <2> DEFINE m == Cardinality(Marks(events, c))
             a == Cardinality(Counting(c))
             b == Cardinality(Counting(c)')
  <2>1. Cardinality(Marks(events, c)') = m
    <3>1. Marks(events, c)' = Marks(events, c)
      BY <1>2 DEF Marks
    <3> QED
      BY <3>1
  <2>2. b = a - 1
    <3>1. p \in Counting(c) /\ Counting(c)' = Counting(c) \ {p}
      BY <1>1, <1>2, <1>4 DEF Counting
    <3>2. Cardinality(Counting(c) \ {p}) = a - 1
      BY <3>1, CountsFinite, FS_RemoveElement
    <3> QED
      BY <3>1, <3>2
  <2>3. Uncounted(c) = m + a /\ Uncounted(c)' = m + b
    BY <2>1 DEF Uncounted
  <2>4. m \in Nat /\ a \in Nat /\ b \in Nat
    BY CountsFinite DEF UncountedType
  <2> HIDE DEF m, a, b
  <2> QED
    BY ONLY <2>2, <2>3, <2>4
<1>8. /\ stats'[c] = r + 1
      /\ \A k \in Kinds : k # c => stats'[k] = stats[k]
      /\ \A k \in Kinds : stats[k] \in Nat
      /\ stats'["accepted"] = stats["accepted"]
  BY <1>2 DEF TypeInv, CounterType, Counters, Kinds
<1>9. Resolved + 0 =< Resolved' /\ Resolved \in Int /\ Resolved' \in Int
  BY ResolvedElsewhere DEF Elsewhere, Monitor
<1>10. ASSUME NEW k \in Kinds PROVE stats'[k] + Uncounted(k)' =< Resolved'
  <2> DEFINE u == Uncounted(k)
             v == Uncounted(k)'
             s == stats'[k]
             t == stats[k]
             x == Resolved
             y == Resolved'
  <2>1. /\ u \in Nat /\ v \in Nat /\ t \in Nat /\ x \in Int /\ y \in Int /\ r \in Nat
        /\ v =< u /\ x + 0 =< y /\ t + u =< x
    BY <1>5, <1>6, <1>8, <1>9, UncountedIs DEF CountInv
  <2>2. CASE k = c
    <3>1. s = r + 1 /\ v + 1 = u /\ r + u =< x
      BY <1>1, <1>2, <1>7, <1>8, <2>2 DEF CountInv
    <3> HIDE DEF u, v, s, t, x, y
    <3>2. s + v =< y
      BY ONLY <2>1, <3>1
    <3> QED
      BY <3>2 DEF s, v, y
  <2>3. CASE k # c
    <3>1. s = t
      BY <1>8, <2>3
    <3> HIDE DEF u, v, s, t, x, y
    <3>2. s + v =< y
      BY ONLY <2>1, <3>1
    <3> QED
      BY <3>2 DEF s, v, y
  <2> QED
    BY <2>2, <2>3
<1>11. ASSUME NEW q \in Producers, NEW k \in Kinds, monitor'[q].at = "write", monitor'[q].kind = k
       PROVE  monitor'[q].read + Uncounted(k)' =< Resolved'
  <2> DEFINE u == Uncounted(k)
             v == Uncounted(k)'
             s == monitor'[q].read
             x == Resolved
             y == Resolved'
  <2>1. q # p /\ monitor'[q] = monitor[q]
    BY <1>3, <1>11
  <2>2. s + u =< x /\ s \in Nat
    BY <1>11, <2>1, MonitorTyped DEF CountInv, TypeInv
  <2>3. u \in Nat /\ v \in Nat /\ x \in Int /\ y \in Int /\ v =< u /\ x + 0 =< y
    BY <1>5, <1>6, <1>9, UncountedIs
  <2> HIDE DEF u, v, s, x, y
  <2>4. s + v =< y
    BY ONLY <2>2, <2>3
  <2> QED
    BY <2>4 DEF s, v, y
<1>12. stats'["accepted"] =< Len(handed')
  BY <1>2, <1>8 DEF CountInv
<1>13. CountInv'
  BY <1>5, <1>10, <1>11, <1>12 DEF CountInv
<1> QED
  BY <1>6, <1>13

LEMMA CountStep ==
  TypeInv /\ TypeInv' /\ CountInv /\ UncountedType /\ [Next]_vars => CountInv' /\ UncountedType'
<1> SUFFICES ASSUME TypeInv, TypeInv', CountInv, UncountedType, [Next]_vars
             PROVE  CountInv' /\ UncountedType'
  OBVIOUS
<1>1. CASE SendAsync \/ SendSynch \/ SendFails
  BY <1>1, CountSends
<1>2. CASE \E m \in Messages : DeliveryReport(m)
  BY <1>2, CountReported
<1>3. CASE \E p \in Producers : Monitor(p)
  BY <1>3, CountSteady, CountTaken, CountWritten DEF Monitor
<1>4. CASE ~\E p \in Producers : Monitor(p)
  <2>1. Elsewhere \/ SendAsync \/ SendSynch \/ SendFails \/ \E m \in Messages : DeliveryReport(m)
    BY DEF Next, Inside, Elsewhere
  <2> QED
    BY <1>1, <1>2, <1>4, <2>1, CountElsewhere
<1> QED
  BY <1>3, <1>4
-----------------------------------------------------------------------------
(***************************************************************************)
(* With synchronous delivery nothing is in flight and no monitor runs: a   *)
(* failure that is counted leaves nothing to send, and a loss is announced *)
(* before the call that met it returns.                                    *)
(***************************************************************************)
Quiet == InFlight = {} /\ \A p \in Producers : monitor[p].at = "none"
Stopped == stats["failed"] > 0 => Held = <<>>
Failing == pc = "send" /\ err = TRUE /\ call \in {"sink", "flush"}
Announced == Lost \subseteq announced \/ Failing

SynchInv == mode.synch => Quiet /\ Stopped /\ Announced

LEMMA ModeKept == [Next]_vars => mode' = mode
BY DEF Next, SinkRefuse, SinkProduce, DeliveryReport, Flush, FlushQueue, Clear, Reset, Close, Inside,
       SendAsync, SendSynch, SendFails, SendRandomError, SendEnd, AwaitTimeout, AwaitDrained, Settle, Shut,
       Renew, RenewFails, Monitor, MonitorStart, MonitorTake, MonitorRead, MonitorWrite, MonitorExit,
       SetMonitor, vars

\* With synchronous delivery the steps of the producer and of the monitors do not happen.
LEMMA SynchSteps ==
  ASSUME TypeInv, mode.synch, Quiet, [Next]_vars
  PROVE  /\ SendSynch \/ SendFails \/ Elsewhere
         /\ ~\E p \in Producers : Monitor(p)
<1>1. \A p \in Producers : ~Monitor(p)
  BY DEF Quiet, Monitor, MonitorStart, MonitorTake, MonitorRead, MonitorWrite, MonitorExit
<1>2. ~SendAsync /\ \A m \in Messages : ~DeliveryReport(m)
  BY DEF Quiet, SendAsync, DeliveryReport
<1> QED
  BY <1>1, <1>2 DEF Next, Inside, Elsewhere

LEMMA QuietStep ==
  ASSUME TypeInv, mode.synch, Quiet, [Next]_vars PROVE Quiet'
<1>1. InFlight' = {}
  BY FlightShrinks, SynchSteps DEF Quiet
<1>2. UNCHANGED monitor
  <2>1. Renew => UNCHANGED monitor
    BY DEF Renew
  <2> QED
    BY <2>1, SynchSteps
       DEF Elsewhere, SinkRefuse, SinkProduce, Flush, FlushQueue, Clear, Reset, Close, SendSynch, SendFails,
           SendRandomError, SendEnd, AwaitTimeout, AwaitDrained, Settle, Shut, RenewFails, vars
<1> QED
  BY <1>1, <1>2 DEF Quiet

LEMMA StoppedStep ==
  ASSUME TypeInv, TypeInv', CallInv, mode.synch, Quiet, Stopped, [Next]_vars PROVE Stopped'
<1>1. CASE stats["failed"] > 0
  <2>1. Held = <<>>
    BY <1>1 DEF Stopped
  <2>2. \A m \in Messages : ~SinkProduce(m)
    BY <1>1 DEF SinkProduce
  <2>3. Held' = Held \/ Held' = <<>>
    BY <2>1, <2>2, StepKinds DEF StepKind, Kept, HandedOver, GivenUp, Reported, TypeInv
  <2> QED
    BY <2>1, <2>3 DEF Stopped
<1>2. CASE ~(stats["failed"] > 0)
  <2>1. stats["failed"] = 0
    BY <1>2 DEF TypeInv, CounterType, Counters
  <2>2. CASE SendFails
    <3>1. items = <<>> /\ batch' = <<>> /\ items' = items
      BY <2>2 DEF SendFails, Sending, CallInv
    <3>2. Held' = <<>>
      BY <3>1 DEF Held
    <3> QED
      BY <3>2 DEF Stopped
  <2>3. CASE SendSynch
    BY <2>1, <2>3 DEF SendSynch, Stopped, Count, TypeInv, CounterType, Counters
  <2>4. CASE Elsewhere
    <3>1. stats'["failed"] =< stats["failed"]
      BY <2>4, SynchSteps, CountersElsewhere DEF Kinds
    <3>2. stats'["failed"] \in Nat
      BY DEF TypeInv, CounterType, Counters
    <3> QED
      BY <2>1, <3>1, <3>2 DEF Stopped
  <2> QED
    BY <2>2, <2>3, <2>4, SynchSteps
<1> QED
  BY <1>1, <1>2

LEMMA LossStep ==
  ASSUME TypeInv, CallInv, mode.synch, Quiet, Announced, [Next]_vars PROVE Announced'
<1>1. ASSUME SendFails \/ SendRandomError PROVE Announced'
  <2>1. pc = "send" /\ UNCHANGED <<pc, call, announced>> /\ err' = TRUE
    BY <1>1 DEF SendFails, SendRandomError, Sending
  <2>2. CASE call \in {"sink", "flush"}
    BY <2>1, <2>2 DEF Announced, Failing
  <2>3. CASE call \in {"close", "reset"}
    <3>1. Lost \subseteq announced
      BY <2>3 DEF Announced, Failing
    <3>2. \A f \in {"failed", "dropped"} : LostAs(f) = "abandoned"
      BY <2>3 DEF LostAs
    <3>3. \A m \in Messages : fate'[m] = fate[m] \/ fate'[m] = "abandoned"
      BY <1>1, <3>2 DEF SendFails, SendRandomError, LoseBatch
    <3>4. Lost' \subseteq Lost
      BY <3>3 DEF Lost
    <3> QED
      BY <2>1, <3>1, <3>4 DEF Announced
  <2> QED
    BY <2>1, <2>2, <2>3 DEF CallInv
<1>2. CASE SendSynch
  <2>1. UNCHANGED <<pc, call, err, announced>>
    BY <1>2 DEF SendSynch, driver
  <2>2. Lost' \subseteq Lost
    BY <1>2 DEF SendSynch, Hand, Lost, TypeInv, FateType
  <2> QED
    BY <2>1, <2>2 DEF Announced, Failing
<1>3. CASE SendEnd
  <2>1. UNCHANGED fate
    BY <1>3 DEF SendEnd, messages
  <2>2. Lost' = Lost
    BY <2>1 DEF Lost
  <2>3. /\ pc' # "send"
        /\ \/ announced' = IF err THEN Lost ELSE announced
           \/ (~err \/ call \in {"close", "reset"}) /\ UNCHANGED announced
    BY <1>3, SendEnds
  <2>4. CASE Lost \subseteq announced
    BY <2>2, <2>3, <2>4 DEF Announced
  <2>5. CASE Failing
    <3>1. err = TRUE /\ call \notin {"close", "reset"}
      BY <2>5 DEF Failing
    <3> QED
      BY <2>2, <2>3, <3>1 DEF Announced
  <2> QED
    BY <2>4, <2>5 DEF Announced
<1>4. ASSUME Elsewhere, ~SendRandomError, ~SendEnd, ~(UNCHANGED vars) PROVE Announced'
  <2>1. pc # "send"
    BY <1>4, SynchSteps DEF Elsewhere, SinkRefuse, SinkProduce, Flush, FlushQueue, Clear, Reset, Close, AwaitTimeout,
       AwaitDrained, Settle, Shut, Renew, RenewFails
  <2>2. Lost \subseteq announced
    BY <2>1 DEF Announced, Failing
  <2>3. Lost' \subseteq Lost
    <3>1. \/ UNCHANGED fate
          \/ \E m \in Messages : fate' = [fate EXCEPT ![m] = "buffered"]
          \/ fate' = [m \in Messages |-> IF m \in InFlight THEN "abandoned" ELSE fate[m]]
      BY <1>4, SynchSteps DEF Elsewhere, SinkRefuse, SinkProduce, Flush, FlushQueue, Clear, Reset, Close,
         AwaitTimeout, AwaitDrained, Settle, Shut, Renew, RenewFails, messages
    <3> QED
      BY <3>1 DEF Lost, TypeInv, FateType
  <2>4. announced' = announced \/ announced' = Lost
    <3>1. \A e : Return(e) => announced' = announced \/ announced' = Lost
      BY DEF Return
    <3> QED
      BY <1>4, <3>1, SynchSteps DEF Elsewhere, SinkRefuse, SinkProduce, Flush, FlushQueue, Clear, Reset, Close,
         AwaitTimeout, AwaitDrained, Settle, Shut, Renew, RenewFails
  <2> QED
    BY <2>2, <2>3, <2>4 DEF Announced
<1>5. CASE UNCHANGED vars
  BY <1>5 DEF vars, Announced, Failing, Lost
<1> QED
  BY <1>1, <1>2, <1>3, <1>4, <1>5, SynchSteps

LEMMA SynchStep ==
  TypeInv /\ TypeInv' /\ CallInv /\ SynchInv /\ [Next]_vars => SynchInv'
BY ModeKept, QuietStep, StoppedStep, LossStep DEF SynchInv

\* Flush has emptied the buffer before it waits, and returns no error only when
\* nothing was in flight once it had waited; nothing is sent until the next call.
FlushInv ==
  /\ pc \in {"await", "settle"} \/ (pc = "idle" /\ call = "flush" /\ ~err) => items = <<>>
  /\ pc = "settle" \/ (pc = "idle" /\ call = "flush") => err \/ InFlight = {}

LEMMA FlushStep == TypeInv /\ CallInv /\ FlagType /\ FlushInv /\ [Next]_vars => FlushInv'
<1> SUFFICES ASSUME TypeInv, CallInv, FlagType, FlushInv, [Next]_vars PROVE FlushInv'
  OBVIOUS
<1>1. CASE SinkRefuse \/ Clear \/ \E m \in Messages : SinkProduce(m)
  <2>1. call' \in {"none", "sink"} /\ (pc' = "idle" \/ pc' = "send")
    BY <1>1 DEF SinkRefuse, SinkProduce, Clear
  <2> QED
    BY <2>1 DEF FlushInv
<1>2. CASE Flush \/ Reset \/ Close \/ SendAsync \/ SendSynch \/ SendFails \/ SendRandomError
  <2>1. pc' = "send"
    BY <1>2 DEF Flush, Reset, Close, FlushQueue, SendAsync, SendSynch, SendFails, SendRandomError,
                Sending, driver
  <2> QED
    BY <2>1 DEF FlushInv
<1>3. CASE SendEnd
  <2>1. items' = <<>> /\ err' = err /\ call' = call
    BY <1>3, SendEnds DEF CallInv
  <2>2. \/ pc' = "idle" /\ (call = "sink" \/ (call = "flush" /\ err))
        \/ pc' \in {"await", "shut"}
    BY <1>3, SendEnds
  <2> QED
    BY <2>1, <2>2 DEF FlushInv
<1>4. CASE AwaitTimeout
  <2>1. pc = "await" /\ pc' = "settle" /\ err' = TRUE /\ items' = items
    BY <1>4 DEF AwaitTimeout, queue
  <2> QED
    BY <2>1 DEF FlushInv
<1>5. CASE AwaitDrained
  <2>1. pc = "await" /\ pc' = "settle" /\ items' = items /\ InFlight' = {}
    BY <1>5 DEF AwaitDrained, Outstanding, queue, messages, InFlight
  <2> QED
    BY <2>1 DEF FlushInv
<1>6. CASE Settle
  <2>1. pc = "settle" /\ pc' = "idle" /\ err' = err /\ items' = items /\ InFlight' = InFlight
    BY <1>6 DEF Settle, Return, queue, messages, InFlight
  <2> QED
    BY <2>1 DEF FlushInv
<1>7. CASE Shut \/ Renew \/ RenewFails
  <2>1. call' \in {"reset", "close"} /\ pc' \in {"idle", "renew", "closed"}
    BY <1>7 DEF Shut, Renew, RenewFails, Return, CallInv
  <2> QED
    BY <2>1 DEF FlushInv
<1>8. CASE UNCHANGED vars \/ (\E p \in Producers : Monitor(p)) \/ \E m \in Messages : DeliveryReport(m)
  <2>1. UNCHANGED <<pc, call, err, items>>
    BY <1>8 DEF Monitor, MonitorStart, MonitorTake, MonitorRead, MonitorWrite, MonitorExit, SetMonitor,
                DeliveryReport, vars, driver, queue
  <2>2. InFlight' \subseteq InFlight
    <3>1. ASSUME NEW m \in Messages, DeliveryReport(m) PROVE InFlight' \subseteq InFlight
      BY <3>1 DEF DeliveryReport, InFlight, Kinds, TypeInv, FateType
    <3> QED
      BY <1>8, <3>1, FlightShrinks DEF Elsewhere
  <2> QED
    BY <2>1, <2>2 DEF FlushInv
<1> QED
  BY <1>1, <1>2, <1>3, <1>4, <1>5, <1>6, <1>7, <1>8 DEF Next, Inside

-----------------------------------------------------------------------------
SinkInv ==
  /\ TypeInv /\ FlagType /\ CallInv /\ TakenInv /\ OrderInv
  /\ UncountedType /\ CountInv /\ SynchInv /\ FlushInv

LEMMA SinkInit == Init => SinkInv
<1> SUFFICES ASSUME Init PROVE SinkInv
  OBVIOUS
<1>1. TypeInv /\ CallInv /\ FlagType
  BY TypeInit, Flags
<1>2. \A m \in Messages : fate[m] = "new"
  BY DEF Init
<1>3. Held = <<>> /\ handed = <<>> /\ InFlight = {} /\ Lost = {} /\ Taken = {}
  BY <1>2 DEF Init, Held, InFlight, Lost, Taken
<1>4. stats = Zero /\ \A k \in Counters : stats[k] = 0
  BY DEF Init, Zero
<1>5. TakenInv
  <2>1. 1..0 = {} /\ 0 \in 0..MaxMessages
    BY BoundsAssumption
  <2> QED
    BY <1>3, <1>4, <2>1 DEF TakenInv, Counters
<1>6. OrderInv
  BY <1>2, <1>3 DEF OrderInv, HeldInv, HandedInv, Rising
<1>7. \A p \in Producers : monitor[p].at \in {"none", "spawned"}
  BY DEF Init, Idle, Spawned
<1>8. \A k \in Kinds : Marks(events, k) = {} /\ Counting(k) = {}
  BY <1>7 DEF Init, Marks, Counting
<1>9. IsFiniteSet({}) /\ Cardinality({}) = 0
  BY FS_EmptySet
<1>10. UncountedType
  BY <1>8, <1>9 DEF UncountedType
<1>11. CountInv
  <2>1. Resolved = 0
    BY <1>3, <1>9 DEF Resolved
  <2>2. \A k \in Kinds : Uncounted(k) = 0
    BY <1>8, <1>9 DEF Uncounted
  <2>3. \A k \in Kinds : IsFiniteSet(Marks(events, k)) /\ stats[k] + Uncounted(k) =< Resolved
    BY <1>4, <1>8, <1>9, <2>1, <2>2 DEF Kinds, Counters
  <2>4. stats["accepted"] =< Len(handed)
    BY <1>3, <1>4 DEF Counters
  <2> QED
    BY <1>7, <2>3, <2>4 DEF CountInv
<1>12. SynchInv
  <2>1. ASSUME mode.synch PROVE Quiet
    BY <1>3, <2>1 DEF Quiet, Init, Idle
  <2> QED
    BY <1>3, <2>1 DEF SynchInv, Stopped, Announced
<1>13. FlushInv
  BY <1>3 DEF FlushInv, Init
<1> QED
  BY <1>1, <1>5, <1>6, <1>10, <1>11, <1>12, <1>13 DEF SinkInv

LEMMA SinkStep == SinkInv /\ [Next]_vars => SinkInv'
<1> SUFFICES ASSUME SinkInv, [Next]_vars PROVE SinkInv'
  OBVIOUS
<1>1. /\ TypeInv /\ FlagType /\ CallInv /\ TakenInv /\ OrderInv
      /\ UncountedType /\ CountInv /\ SynchInv /\ FlushInv
  BY DEF SinkInv
<1>2. ControlType' /\ CallInv'
  BY <1>1, ControlStep
<1>3. TypeInv'
  BY <1>1, <1>2, SequenceStep, FateStep, CounterStep, LibraryStep DEF TypeInv
<1>4. FlagType'
  BY <1>1, Flags
<1>5. OrderInv' /\ TakenInv'
  BY <1>1, <1>3, OrderStep, TakenStep
<1>6. CountInv' /\ UncountedType'
  BY <1>1, <1>3, CountStep
<1>7. SynchInv' /\ FlushInv'
  BY <1>1, <1>3, SynchStep, FlushStep
<1> QED
  BY <1>2, <1>3, <1>4, <1>5, <1>6, <1>7 DEF SinkInv

\* The inductive invariant: the types, where the messages are and in which order, what
\* the counters are bounded by, and what synchronous delivery and Flush promise.
THEOREM SinkInvariant == Spec => []SinkInv
BY SinkInit, SinkStep, PTL DEF Spec

\* No counter of the sink exceeds the messages there are, whatever the driver and the
\* monitors overwrite of each other's statistics (StatsInfo): a lost update makes a
\* counter too small, never too large.
THEOREM TypeCorrect == Spec => []TypeOK
<1>1. ASSUME SinkInv PROVE TypeOK
  <2>1. /\ TypeInv /\ FlagType /\ TakenInv /\ OrderInv /\ UncountedType /\ CountInv
    BY <1>1 DEF SinkInv
  <2>2. handed \in Seq(Messages) /\ Len(handed) \in Nat /\ Len(handed) =< MaxMessages
    BY <2>1, RisingIsShort DEF TypeInv, SequenceType, OrderInv, HandedInv
  <2>3. Resolved \in Int /\ Resolved =< Len(handed)
    <3> DEFINE l == Len(handed)
               i == Cardinality(InFlight)
    <3>1. l \in Nat /\ i \in Nat
      BY <2>2, CountsFinite
    <3> HIDE DEF l, i
    <3>2. l - i \in Int /\ l - i =< l
      BY ONLY <3>1
    <3> QED
      BY <3>2 DEF l, i, Resolved
  <2>4. ASSUME NEW k \in Kinds, NEW n \in Nat, n + Uncounted(k) =< Resolved PROVE n \in 0..MaxMessages
    <3> DEFINE u == Uncounted(k)
               r == Resolved
               l == Len(handed)
    <3>1. u \in Nat
      <4>1. Cardinality(Marks(events, k)) \in Nat /\ Cardinality(Counting(k)) \in Nat
        BY <2>1, CountsFinite DEF UncountedType
      <4> QED
        BY <4>1 DEF Uncounted
    <3>2. r \in Int /\ l \in Nat /\ r =< l /\ l =< MaxMessages /\ MaxMessages \in Nat /\ n + u =< r
      BY <2>2, <2>3, <2>4, BoundsAssumption
    <3> HIDE DEF u, r, l
    <3> QED
      BY ONLY <3>1, <3>2, n \in Nat
  <2>5. stats \in [Counters -> 0..MaxMessages]
    <3>1. \A k \in Counters : stats[k] \in Nat
      BY <2>1 DEF TypeInv, CounterType
    <3>2. \A k \in Kinds : stats[k] \in 0..MaxMessages
      BY <2>1, <2>4, <3>1 DEF CountInv, Kinds, Counters
    <3>3. stats["queued"] \in 0..MaxMessages
      BY <2>1, <3>1, BoundsAssumption DEF TakenInv, Counters
    <3>4. stats["accepted"] \in 0..MaxMessages
      BY <2>1, <2>2, <3>1, BoundsAssumption DEF CountInv, Counters
    <3> QED
      BY <2>1, <3>2, <3>3, <3>4 DEF TypeInv, CounterType, Kinds, Counters
  <2>6. monitor \in [Producers -> [at : Where, on : Producers, kind : Kinds \cup {"none"},
                                   read : 0..MaxMessages]]
    <3>1. ASSUME NEW p \in Producers
          PROVE  monitor[p] \in [at : Where, on : Producers, kind : Kinds \cup {"none"},
                                 read : 0..MaxMessages]
      <4>1. monitor[p].read \in 0..MaxMessages
        <5>1. monitor[p].read \in Nat /\ (monitor[p].at # "write" => monitor[p].read = 0)
              /\ (monitor[p].at = "write" => monitor[p].kind \in Kinds)
          BY <2>1, MonitorTyped DEF TypeInv
        <5>2. CASE monitor[p].at = "write"
          BY <2>1, <2>4, <5>1, <5>2 DEF CountInv
        <5> QED
          BY <5>1, <5>2, BoundsAssumption
      <4> DEFINE r == monitor[p]
      <4>2. /\ r.at \in Where /\ r.on \in Producers /\ r.kind \in Kinds \cup {"none"}
            /\ r = [at |-> r.at, on |-> r.on, kind |-> r.kind, read |-> r.read]
            /\ r.read \in 0..MaxMessages
        BY <2>1, <4>1, MonitorTyped DEF TypeInv
      <4> HIDE DEF r
      <4>3. r \in [at : Where, on : Producers, kind : Kinds \cup {"none"}, read : 0..MaxMessages]
        BY ONLY <4>2
      <4> QED
        BY <4>3 DEF r
    <3> QED
      BY <2>1, <3>1 DEF TypeInv, LibraryType
  <2>7. err \in BOOLEAN /\ open \in BOOLEAN
    BY <2>1 DEF FlagType
  <2> QED
    BY <2>1, <2>5, <2>6, <2>7 DEF TypeOK, TypeInv, ControlType, SequenceType, FateType, LibraryType, Where
<1> QED
  BY <1>1, SinkInvariant, PTL

\* With synchronous delivery a message that Sink or Flush lost has made one of them
\* return an error (produce2Topics, Flush).
THEOREM LossIsAnnounced == Spec => []LossAnnounced
<1>1. ASSUME SinkInv PROVE LossAnnounced
  BY <1>1 DEF SinkInv, SynchInv, Announced, Failing, LossAnnounced
<1> QED
  BY <1>1, SinkInvariant, PTL

\* A Flush that returns nil leaves no message buffered and none in flight.
THEOREM FlushSettlesAll == Spec => []FlushSettles
<1>1. ASSUME SinkInv PROVE FlushSettles
  <2> SUFFICES ASSUME pc = "idle", call = "flush", ~err, NEW m \in Messages
               PROVE  fate[m] \notin {"buffered", "inFlight"}
    BY DEF FlushSettles
  <2>1. items = <<>> /\ InFlight = {} /\ batch = <<>>
    BY <1>1 DEF SinkInv, FlushInv, CallInv
  <2>2. Held = <<>>
    BY <2>1 DEF Held
  <2>3. fate[m] # "buffered"
    BY <1>1, <2>2 DEF SinkInv, OrderInv, HeldInv
  <2>4. fate[m] # "inFlight"
    BY <2>1 DEF InFlight
  <2> QED
    BY <2>3, <2>4
<1> QED
  BY <1>1, SinkInvariant, PTL

\* With synchronous delivery nothing is handed over once a failure is counted, until
\* the counters are cleared (Sink, Flush).
THEOREM FailureStopsStage == Spec => FailureStops
<1>1. ASSUME SinkInv, SinkInv', [Next]_vars
      PROVE  [mode.synch /\ stats["failed"] > 0 => handed' = handed]_vars
  <2> SUFFICES ASSUME mode.synch, stats["failed"] > 0 PROVE handed' = handed
    OBVIOUS
  <2>1. Held = <<>>
    BY <1>1 DEF SinkInv, SynchInv, Stopped
  <2> QED
    BY <1>1, <2>1, StepKinds
       DEF SinkInv, TypeInv, StepKind, Kept, Accepted, HandedOver, GivenUp, Reported
<1> QED
  BY <1>1, SinkInvariant, PTL DEF Spec, FailureStops

-----------------------------------------------------------------------------
(***************************************************************************)
(* Every step of the Kafka sink is a step of a sink stage or a stutter.    *)
(***************************************************************************)
Gone == {m \in Messages : fate[m] \in {"failed", "dropped", "abandoned"}}
Last == Cardinality(Taken)

\* The actions of the stage, in the terms of the sink.
LEMMA StageSteps ==
  /\ (\E m \in Messages : m > Last /\ Last' = m /\ Held' = Append(Held, m))
     /\ handed' = handed /\ Gone' = Gone => Stage!Accept
  /\ /\ Held # <<>> /\ handed' = Append(handed, Head(Held)) /\ Held' = Tail(Held)
     /\ Last' = Last /\ Gone' = Gone
     => Stage!HandOver
  /\ /\ Held # <<>> /\ handed' \in {handed, Append(handed, Head(Held))}
     /\ Gone' = Gone \cup InStage /\ Held' = <<>> /\ Last' = Last
     => Stage!GiveUp
  /\ /\ \E S \in SUBSET {handed[i] : i \in 1..Len(handed)} : Gone' = Gone \cup S
     /\ Last' = Last /\ Held' = Held /\ handed' = handed
     => Stage!Report
  /\ Last' = Last /\ Held' = Held /\ handed' = handed /\ Gone' = Gone => UNCHANGED Stage!stageVars
BY DEF Last, Held, Gone, InStage, Taken, Stage!Accept, Stage!HandOver, Stage!GiveUp, Stage!Report,
       Stage!InHeld, Stage!InHanded, Stage!stageVars

LEMMA LastStays == (\A m \in Messages : fate'[m] = "new" <=> fate[m] = "new") => Last' = Last
<1> SUFFICES ASSUME \A m \in Messages : fate'[m] = "new" <=> fate[m] = "new" PROVE Last' = Last
  OBVIOUS
<1>1. Taken' = Taken
  BY DEF Taken
<1> QED
  BY <1>1 DEF Last

LEMMA KeptStutters == Kept => UNCHANGED Stage!stageVars
<1> SUFFICES ASSUME Kept PROVE UNCHANGED Stage!stageVars
  OBVIOUS
<1>1. Last' = Last /\ Gone' = Gone
  BY LastStays DEF Kept, Gone
<1> QED
  BY <1>1, StageSteps DEF Kept

LEMMA AcceptedAccepts ==
  ASSUME TypeInv, TakenInv, NEW m \in Messages, Accepted(m) PROVE Stage!Accept
<1>1. m \in Nat /\ 1 =< m
  BY BoundsAssumption DEF Messages
<1>2. fate' = [fate EXCEPT ![m] = "buffered"] /\ fate[m] = "new" /\ fate \in [Messages -> Fates]
  BY DEF Accepted, Fresh, TypeInv, FateType
<1>3. Taken = 1..(m - 1) /\ Taken' = 1..m
  <2>1. Taken = 1..(m - 1) /\ Taken \cup {m} = 1..m
    BY FreshComesLast DEF Accepted
  <2>2. Taken' = Taken \cup {m}
    BY <1>2 DEF Taken
  <2> QED
    BY <2>1, <2>2
<1>4. Cardinality(1..(m - 1)) = m - 1 /\ Cardinality(1..m) = m
  BY <1>1, FS_Interval
<1>5. Last = m - 1 /\ Last' = m
  BY <1>3, <1>4 DEF Last
<1>6. m > Last
  BY <1>1, <1>5
<1>7. Gone' = Gone
  BY <1>2 DEF Gone
<1> QED
  BY <1>5, <1>6, <1>7, StageSteps DEF Accepted

LEMMA HandedOverHandsOver == TypeInv /\ OrderInv /\ HandedOver => Stage!HandOver
<1> SUFFICES ASSUME TypeInv, OrderInv, HandedOver PROVE Stage!HandOver
  OBVIOUS
<1> DEFINE h == Head(Held)
<1>1. h \in Messages /\ fate[h] = "buffered"
  BY FirstHanded DEF HandedOver
<1>2. PICK f \in {"inFlight", "delivered"} : fate' = [fate EXCEPT ![h] = f]
  BY DEF HandedOver
<1> HIDE DEF h
<1>3. \A m \in Messages : fate'[m] = IF m = h THEN f ELSE fate[m]
  BY <1>1, <1>2 DEF TypeInv, FateType
<1>4. Last' = Last
  BY <1>1, <1>3, LastStays
<1>5. Gone' = Gone
  BY <1>1, <1>3 DEF Gone
<1> QED
  BY <1>4, <1>5, StageSteps DEF HandedOver

LEMMA GivenUpGivesUp == TypeInv /\ OrderInv /\ GivenUp => Stage!GiveUp
<1> SUFFICES ASSUME TypeInv, OrderInv, GivenUp PROVE Stage!GiveUp
  OBVIOUS
<1>1. \A m \in Messages : m \in InStage => fate[m] = "buffered"
  BY DEF InStage, OrderInv, HeldInv
<1>2. Last' = Last
  BY <1>1, LastStays DEF GivenUp
<1>3. InStage \subseteq Messages
  BY HeldIs, Elements DEF InStage, TypeInv
<1>4. Gone' = Gone \cup InStage
  BY <1>1, <1>3 DEF Gone, GivenUp
<1> QED
  BY <1>2, <1>4, StageSteps DEF GivenUp

LEMMA ReportedReports == TypeInv /\ OrderInv /\ Reported => Stage!Report
<1> SUFFICES ASSUME TypeInv, OrderInv, Reported PROVE Stage!Report
  OBVIOUS
<1>1. Last' = Last
  BY LastStays DEF Reported, InFlight
<1> DEFINE S == Gone' \ Gone
<1>2. Gone \subseteq Gone'
  BY DEF Reported, Gone, InFlight
<1>3. S \subseteq {handed[i] : i \in 1..Len(handed)}
  <2>1. S \subseteq InFlight
    BY DEF Reported, Gone
  <2>2. \A m \in InFlight : \E i \in 1..Len(handed) : handed[i] = m
    BY DEF OrderInv, HandedInv
  <2> QED
    BY <2>1, <2>2
<1>4. Gone' = Gone \cup S
  BY <1>2
<1> HIDE DEF S
<1> QED
  BY <1>1, <1>3, <1>4, StageSteps DEF Reported

\* Whatever fails, times out, is cleared or reset, the stage is a sink stage: a message
\* reaches the producer in the order of the calls and once, or is given up together with
\* everything held, and never comes back.
THEOREM RefinesSinkStage == Spec => ImplementsSinkStage
<1>1. Init => Stage!Init
  <2> SUFFICES ASSUME Init PROVE Stage!Init
    OBVIOUS
  <2>1. Taken = {} /\ Gone = {} /\ Held = <<>> /\ handed = <<>>
    BY DEF Init, Taken, Gone, Held
  <2>2. Last = 0
    BY <2>1, FS_EmptySet DEF Last
  <2> QED
    BY <2>1, <2>2 DEF Stage!Init, Last, Taken, Gone, Held
<1>2. SinkInv /\ SinkInv' /\ [Next]_vars => [Stage!Next]_Stage!stageVars
  <2> SUFFICES ASSUME SinkInv, SinkInv', [Next]_vars PROVE [Stage!Next]_Stage!stageVars
    OBVIOUS
  <2>1. TypeInv /\ TypeInv' /\ CallInv /\ TakenInv /\ OrderInv
    BY DEF SinkInv
  <2>2. StepKind
    BY <2>1, StepKinds DEF TypeInv
  <2> QED
    BY <2>1, <2>2, KeptStutters, AcceptedAccepts, HandedOverHandsOver, GivenUpGivesUp, ReportedReports
       DEF StepKind, Stage!Next
<1> QED
  BY <1>1, <1>2, SinkInvariant, PTL DEF Spec, ImplementsSinkStage, Stage!Spec
=============================================================================
