----------------------------- MODULE KafkaSink -----------------------------
(***************************************************************************)
(* The Kafka sink of a pipeline (pipeline/plexecutable/sinks/kafkasink): a *)
(* stage that buffers messages and hands them to a producer.  One          *)
(* goroutine, the driver, calls the stage; with asynchronous delivery a    *)
(* monitor goroutine per producer counts the outcomes into the statistics  *)
(* the driver reads, and no lock protects them.                            *)
(*                                                                         *)
(* External: the driver, which calls the operations of sinks.Stage in any  *)
(* order until it closes the stage, and the producer, which refuses a      *)
(* message when it is closed and reports each message it has taken at most *)
(* once, and whose Flush reports how much is outstanding, its undrained    *)
(* events included.                                                        *)
(***************************************************************************)
EXTENDS Integers, Sequences, FiniteSets

CONSTANTS
  Modes,        \* the definitions considered, each with its bounds
  MaxMessages,  \* bound: the messages Sink accepts, whatever the definition
  MaxResets     \* bound: the producers made by Reset

\* messages and resets bound what the driver does with a stage of that definition.
ASSUME ModesAssumption ==
  Modes \subseteq [synch : BOOLEAN, bufSize : Nat \ {0}, randomErrors : BOOLEAN,
                   messages : 0..MaxMessages, resets : 0..MaxResets]
ASSUME BoundsAssumption == MaxMessages \in Nat /\ MaxResets \in Nat

VARIABLES
  mode,      \* the definition of the stage
  pc,        \* where the driver's call is
  call,      \* the call it is in, or the last one, if it can fail
  err,       \* the error of that call, so far
  items,     \* Items
  batch,     \* what produce2Topics has still to hand over
  fate,      \* what became of each message Sink accepted, in order
  handed,    \* history: the messages given to Produce, in order
  announced, \* history: the messages lost before some call returned an error
  stats,     \* StatsInfo
  kp,        \* Kp: how many producers Reset has made
  open,      \* Kp is open
  events,    \* the event channel of each producer
  monitor    \* the monitor goroutine launched for each producer

vars == <<mode, pc, call, err, items, batch, fate, handed, announced, stats, kp, open,
          events, monitor>>
driver == <<pc, call, err>>
queue == <<items, batch>>
messages == <<fate, handed>>
library == <<kp, open, events>>

Messages == 1..MaxMessages
Producers == 0..MaxResets
Counters == {"queued", "produced", "accepted", "failed"}
Kinds == {"produced", "failed"}
Calls == {"none", "sink", "flush", "reset", "close"}
Places == {"idle", "send", "await", "settle", "shut", "renew", "closed"}
Fates == {"new", "buffered", "inFlight", "delivered", "failed", "dropped",
          "abandoned"}

Zero == [k \in Counters |-> 0]
Lost == {m \in Messages : fate[m] \in {"failed", "dropped"}}
InFlight == {m \in Messages : fate[m] = "inFlight"}

Idle == [at |-> "none", on |-> 0, kind |-> "none", read |-> 0]
Spawned == [Idle EXCEPT !.at = "spawned"]

Init ==
  /\ mode \in Modes
  /\ pc = "idle" /\ call = "none" /\ err = FALSE
  /\ items = <<>> /\ batch = <<>>
  /\ fate = [m \in Messages |-> "new"]
  /\ handed = <<>>
  /\ announced = {}
  /\ stats = Zero
  /\ kp = 0 /\ open = TRUE
  /\ events = [p \in Producers |-> <<>>]
  /\ monitor = [p \in Producers |-> IF p = 0 /\ ~mode.synch THEN Spawned ELSE Idle]

Count(s, k) == [s EXCEPT ![k] = @ + 1]

\* The call returns; an error makes the losses so far known to the driver.
Return(e) ==
  /\ pc' = "idle"
  /\ err' = e
  /\ announced' = IF e THEN Lost ELSE announced
  /\ UNCHANGED call

-----------------------------------------------------------------------------
Fresh(m) ==
  m =< mode.messages /\ fate[m] = "new" /\ \A n \in Messages : n < m => fate[n] # "new"

\* Sink refuses when a failure has been counted, or the request cannot be built;
\* nothing remembers the message.
SinkRefuse ==
  /\ pc = "idle"
  /\ call' = "sink" /\ err' = TRUE
  /\ announced' = Lost
  /\ UNCHANGED <<mode, pc, queue, messages, stats, library, monitor>>

\* Produce: the message is counted and buffered, and when the buffer is full,
\* or there is none, everything is handed over.
SinkProduce(m) ==
  /\ pc = "idle" /\ Fresh(m)
  /\ stats["failed"] = 0
  /\ stats' = Count(stats, "queued")
  /\ fate' = [fate EXCEPT ![m] = "buffered"]
  /\ call' = "sink" /\ err' = FALSE
  /\ IF Len(items) + 1 < mode.bufSize
       THEN items' = Append(items, m) /\ UNCHANGED <<pc, batch>>
       ELSE items' = <<>> /\ batch' = Append(items, m) /\ pc' = "send"
  /\ UNCHANGED <<mode, handed, announced, library, monitor>>

\* Flush and Close hand over the buffer first (flushQueue).
FlushQueue(c) ==
  /\ pc = "idle"
  /\ pc' = "send"
  /\ call' = c /\ err' = FALSE
  /\ batch' = items /\ items' = <<>>
  /\ UNCHANGED <<mode, messages, announced, stats, library, monitor>>

Flush == FlushQueue("flush")
Close == FlushQueue("close")
Reset == kp < mode.resets /\ FlushQueue("reset")

\* Mutated Clear: it takes the buffered messages out of the count.
ClearSubtracts ==
  /\ pc = "idle"
  /\ call' = "none" /\ err' = FALSE
  /\ stats' = [stats EXCEPT !["queued"] = @ - Len(items)]
  /\ UNCHANGED <<mode, pc, queue, messages, announced, library, monitor>>

\* Clear resets the counters and keeps the buffer.
Clear ==
  /\ pc = "idle"
  /\ call' = "none" /\ err' = FALSE
  /\ stats' = Zero
  /\ UNCHANGED <<mode, pc, queue, messages, announced, library, monitor>>

-----------------------------------------------------------------------------
\* produce2Topics, one message at a time.
Sending == pc = "send" /\ batch # <<>>
Hand(f) ==
  /\ handed' = Append(handed, Head(batch))
  /\ fate' = [fate EXCEPT ![Head(batch)] = f]
  /\ batch' = Tail(batch)

SendAsync ==
  /\ Sending /\ open /\ ~mode.synch
  /\ Hand("inFlight")
  /\ stats' = Count(stats, "accepted")
  /\ UNCHANGED <<mode, driver, items, announced, library, monitor>>

SendSynch ==
  /\ Sending /\ open /\ mode.synch
  /\ Hand("delivered")
  /\ stats' = Count(Count(stats, "produced"), "accepted")
  /\ UNCHANGED <<mode, driver, items, announced, library, monitor>>

\* A stage that is being closed tells nobody what it could not send.
LostAs(f) == IF call \in {"close", "reset"} THEN "abandoned" ELSE f

LoseBatch(first) ==
  fate' = [m \in Messages |->
             IF \E i \in 1..Len(batch) : batch[i] = m
               THEN LostAs(IF m = Head(batch) THEN first ELSE "dropped") ELSE fate[m]]

\* Mutated SendFails: the rest of the batch is still handed over.
SendFailsGoesOn ==
  /\ Sending
  /\ Hand(LostAs("failed"))
  /\ stats' = Count(stats, "failed")
  /\ err' = TRUE
  /\ UNCHANGED <<mode, pc, call, items, announced, library, monitor>>

\* Mutated SendFails: after an error the buffer is kept for another attempt.
SendFailsKeepsItems ==
  /\ Sending
  /\ handed' = Append(handed, Head(batch))
  /\ items' = batch /\ batch' = <<>>
  /\ stats' = Count(stats, "failed")
  /\ err' = TRUE
  /\ UNCHANGED <<mode, pc, call, fate, announced, library, monitor>>

\* The first error ends the batch, and what is left of it is dropped.
SendFails ==
  /\ Sending
  /\ handed' = Append(handed, Head(batch))
  /\ LoseBatch("failed")
  /\ batch' = <<>>
  /\ stats' = Count(stats, "failed")
  /\ err' = TRUE
  /\ UNCHANGED <<mode, pc, call, items, announced, library, monitor>>

\* The error randomizer ends the batch before the message is handed over.
SendRandomError ==
  /\ Sending /\ mode.randomErrors
  /\ LoseBatch("dropped")
  /\ batch' = <<>>
  /\ err' = TRUE
  /\ UNCHANGED <<mode, pc, call, items, handed, announced, stats, library, monitor>>

\* Mutated SendEnd: the error of produce2Topics is logged and forgotten.
SendEndSwallows ==
  /\ pc = "send" /\ batch = <<>>
  /\ CASE call = "sink"             -> Return(FALSE)
       [] call = "flush"            -> pc' = "await" /\ UNCHANGED <<call, err, announced>>
       [] call \in {"close", "reset"} -> pc' = "shut" /\ UNCHANGED <<call, err, announced>>
  /\ UNCHANGED <<mode, queue, messages, stats, library, monitor>>

\* Sink returns the error of produce2Topics; so does Flush, at once; Close goes on.
SendEnd ==
  /\ pc = "send" /\ batch = <<>>
  /\ CASE call = "sink" \/ (call = "flush" /\ err) -> Return(err)
       [] call = "flush" /\ ~err      -> pc' = "await" /\ UNCHANGED <<call, err, announced>>
       [] call \in {"close", "reset"} -> pc' = "shut" /\ UNCHANGED <<call, err, announced>>
  /\ UNCHANGED <<mode, queue, messages, stats, library, monitor>>

-----------------------------------------------------------------------------
Outstanding == InFlight # {} \/ events[kp] # <<>>

\* Mutated AwaitTimeout: it is logged and not returned.
AwaitTimeoutLogged ==
  /\ pc = "await" /\ Outstanding
  /\ pc' = "settle"
  /\ UNCHANGED <<mode, call, err, queue, messages, announced, stats, library, monitor>>

\* Kp.Flush gives up: "sink-stage flush timeout".
AwaitTimeout ==
  /\ pc = "await" /\ Outstanding
  /\ pc' = "settle" /\ err' = TRUE
  /\ UNCHANGED <<mode, call, queue, messages, announced, stats, library, monitor>>

AwaitDrained ==
  /\ pc = "await" /\ ~Outstanding
  /\ pc' = "settle"
  /\ \/ UNCHANGED err
     \/ mode.randomErrors /\ err' = TRUE
  /\ UNCHANGED <<mode, call, queue, messages, announced, stats, library, monitor>>

\* Whatever the statistics say is logged and cleared, and not returned.
Settle ==
  /\ pc = "settle"
  /\ stats' = Zero
  /\ Return(err)
  /\ UNCHANGED <<mode, queue, messages, library, monitor>>

\* Mutated Shut: the producer is left open.
ShutKeepsProducer ==
  /\ pc = "shut"
  /\ stats' = Zero
  /\ pc' = IF call = "close" THEN "closed" ELSE "renew"
  /\ UNCHANGED <<mode, call, err, queue, messages, announced, library, monitor>>

\* The end of Close: the producer is closed with what it has in flight.
Shut ==
  /\ pc = "shut"
  /\ stats' = Zero
  /\ fate' = [m \in Messages |-> IF m \in InFlight THEN "abandoned" ELSE fate[m]]
  /\ open' = FALSE
  /\ pc' = IF call = "close" THEN "closed" ELSE "renew"
  /\ UNCHANGED <<mode, call, err, queue, handed, announced, kp, events, monitor>>

\* Reset makes another producer and launches its monitor.
Renew ==
  /\ pc = "renew"
  /\ kp' = kp + 1
  /\ open' = TRUE
  /\ monitor' = IF mode.synch THEN monitor ELSE [monitor EXCEPT ![kp'] = Spawned]
  /\ Return(FALSE)
  /\ UNCHANGED <<mode, queue, messages, stats, events>>

\* No producer can be made: the closed one stays.
RenewFails ==
  /\ pc = "renew"
  /\ Return(TRUE)
  /\ UNCHANGED <<mode, queue, messages, stats, library, monitor>>

-----------------------------------------------------------------------------
\* External: the producer reports a message it had taken.
DeliveryReport(m) ==
  /\ open /\ m \in InFlight
  /\ \E k \in Kinds :
       /\ events' = [events EXCEPT ![kp] = Append(@, k)]
       /\ fate' = [fate EXCEPT ![m] = IF k = "produced" THEN "delivered" ELSE "failed"]
  /\ UNCHANGED <<mode, driver, queue, handed, announced, stats, kp, open, monitor>>

SetMonitor(p, r) ==
  /\ monitor' = [monitor EXCEPT ![p] = r]
  /\ UNCHANGED <<mode, driver, queue, messages, announced, kp, open>>

\* The range evaluates q.Kp.Events() when the goroutine first runs, by which
\* time Kp may be a later producer than the one it was launched for.
MonitorStart(p) ==
  /\ monitor[p].at = "spawned"
  /\ SetMonitor(p, [monitor[p] EXCEPT !.at = "range", !.on = kp])
  /\ UNCHANGED <<events, stats>>

MonitorTake(p) ==
  LET m == monitor[p] IN
  /\ m.at = "range" /\ events[m.on] # <<>>
  /\ events' = [events EXCEPT ![m.on] = Tail(@)]
  /\ SetMonitor(p, [m EXCEPT !.at = "taken", !.kind = Head(events[m.on])])
  /\ UNCHANGED stats

\* The increment of the counter is a read and a write, which nothing keeps
\* together: what the driver or another monitor does in between is overwritten.
MonitorRead(p) ==
  /\ monitor[p].at = "taken"
  /\ SetMonitor(p, [monitor[p] EXCEPT !.at = "write", !.read = stats[monitor[p].kind]])
  /\ UNCHANGED <<events, stats>>

MonitorWrite(p) ==
  /\ monitor[p].at = "write"
  /\ stats' = [stats EXCEPT ![monitor[p].kind] = monitor[p].read + 1]
  /\ SetMonitor(p, [monitor[p] EXCEPT !.at = "range", !.kind = "none", !.read = 0])
  /\ UNCHANGED events

MonitorExit(p) ==
  LET m == monitor[p] IN
  /\ m.at = "range" /\ events[m.on] = <<>>
  /\ m.on < kp \/ ~open
  /\ SetMonitor(p, [Idle EXCEPT !.at = "exited"])
  /\ UNCHANGED <<events, stats>>

Monitor(p) ==
  MonitorStart(p) \/ MonitorTake(p) \/ MonitorRead(p) \/ MonitorWrite(p) \/ MonitorExit(p)

Inside ==
  \/ SendAsync \/ SendSynch \/ SendFails \/ SendRandomError \/ SendEnd
  \/ AwaitTimeout \/ AwaitDrained \/ Settle \/ Shut \/ Renew \/ RenewFails

Next ==
  \/ SinkRefuse
  \/ \E m \in Messages : SinkProduce(m) \/ DeliveryReport(m)
  \/ Flush \/ Clear \/ Reset \/ Close
  \/ Inside
  \/ \E p \in Producers : Monitor(p)

\* A call that has begun goes on, and every goroutine is scheduled; nobody has to
\* call the stage, and the library need not report a message.
Spec ==
  /\ Init /\ [][Next]_vars
  /\ WF_vars(Inside)
  /\ \A p \in Producers : WF_vars(Monitor(p))

-----------------------------------------------------------------------------
TypeOK ==
  /\ mode \in Modes
  /\ pc \in Places /\ call \in Calls /\ err \in BOOLEAN
  /\ items \in Seq(Messages) /\ batch \in Seq(Messages)
  /\ fate \in [Messages -> Fates]
  /\ handed \in Seq(Messages)
  /\ announced \subseteq Messages
  /\ stats \in [Counters -> 0..MaxMessages]
  /\ kp \in Producers /\ open \in BOOLEAN
  /\ events \in [Producers -> Seq(Kinds)]
  /\ monitor \in [Producers -> [at : {"none", "spawned", "range", "taken", "write", "exited"},
                                on : Producers, kind : Kinds \cup {"none"},
                                read : 0..MaxMessages]]

\* Whatever fails, times out, is cleared or reset, the stage is a sink stage:
\* messages reach the producer in the order of the calls of Sink, none of them
\* twice, and what an error drops does not come back (Items, produce2Topics).
Stage == INSTANCE SinkStage WITH
  last <- Cardinality({m \in Messages : fate[m] # "new"}),
  held <- batch \o items,
  handed <- handed,
  gone <- {m \in Messages : fate[m] \in {"failed", "dropped", "abandoned"}}
ImplementsSinkStage == Stage!Spec

\* With synchronous delivery no message is lost silently: what Sink or Flush lost
\* has made one of them return an error to the driver.
LossAnnounced == mode.synch /\ pc = "idle" => Lost \subseteq announced

\* With synchronous delivery a counted failure stops the stage: nothing more is
\* handed over, by Sink or Flush, until the counters are cleared.
FailureStops == [][mode.synch /\ stats["failed"] > 0 => handed' = handed]_vars

\* A Flush that returns nil leaves no message buffered and none in flight, whether
\* or not it was delivered: the driver can move its checkpoint.
FlushSettles ==
  pc = "idle" /\ call = "flush" /\ ~err =>
    \A m \in Messages : fate[m] \notin {"buffered", "inFlight"}

\* Once the stage is closed its monitors drain their channels and end, also those
\* of the producers that Reset has replaced.
MonitorsEnd == pc = "closed" ~> \A p \in Producers : monitor[p].at \in {"none", "exited"}

\* StatsInfo.IsErr(true) takes it for granted that the counters are complete once
\* Kp.Flush has returned with nothing outstanding.
IsComplete == stats["queued"] = stats["produced"] + stats["failed"]
CompleteWhenFlushed == pc = "settle" /\ ~err => IsComplete
=============================================================================
