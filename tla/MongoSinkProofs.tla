-------------------------- MODULE MongoSinkProofs --------------------------
(***************************************************************************)
(* Proofs about the Mongo sink, for every set of operations and any number *)
(* of messages.                                                            *)
(***************************************************************************)
EXTENDS MongoSink, TLAPS

\* In the order of the calls; the i-th message is at least the message i.
Rising(s) ==
  /\ \A i, j \in 1..Len(s) : i < j => s[i] < s[j]
  /\ \A i \in 1..Len(s) : i =< s[i]

\* TypeOK in parts, without the bounds of the counters; err has a lemma of its own.
ControlType ==
  /\ op \in Operations
  /\ pc \in {"idle", "write", "closed"}
  /\ call \in {"none", "sink", "clear", "flush"}
  /\ count \in Nat

SequenceType == batch \in Seq(Messages) /\ todo \in Seq(Messages) /\ handed \in Seq(Messages)

FateType ==
  /\ fate \in [Messages -> Fates]
  /\ entry \in [Messages -> {"none", "open", "answered"}]
  /\ announced \subseteq Messages

CounterType ==
  /\ server \in [Effects -> Nat] /\ result \in [Effects -> Nat]
  /\ stats \in [effects : [Effects -> Nat], errors : Nat, bulk : Nat, discarded : 0..MaxDiscarded]

ErrType == err \in BOOLEAN

TypeInv == ControlType /\ SequenceType /\ FateType /\ CounterType

\* The driver has given Sink the messages from the first on, and an entry is
\* answered for a message it has given.
TakenInOrder ==
  /\ \A m, n \in Messages : n < m /\ fate[m] # "new" => fate[n] # "new"
  /\ \A m \in Messages : entry[m] = "answered" => fate[m] # "new"

\* The batch stays as it was while it is written.
BatchInv ==
  /\ Rising(batch)
  /\ \A i \in 1..Len(batch) : fate[batch[i]] # "new"
  /\ pc = "write" => batch # <<>>

\* What is held is exactly what is buffered, and comes after what was handed over.
HeldInv ==
  /\ Rising(Held)
  /\ \A i \in 1..Len(Held) : fate[Held[i]] = "buffered"
  /\ \A m \in Messages : fate[m] = "buffered" => \E i \in 1..Len(Held) : Held[i] = m

HandedInv ==
  /\ Rising(handed)
  /\ \A i \in 1..Len(handed) : fate[handed[i]] # "new"
  /\ \A i \in 1..Len(handed), j \in 1..Len(Held) : handed[i] < Held[j]

LastInv == \E x \in Answered : \A y \in Answered : x >= y

OrderInv == TakenInOrder /\ BatchInv /\ HeldInv /\ HandedInv /\ LastInv

\* Every bulk write that fails has a message of its own.
ErrorsInv ==
  /\ \A i \in 1..Len(batch) : stats.errors < batch[i]
  /\ \A m \in Messages : fate[m] = "new" => stats.errors < m
  /\ stats.errors =< MaxMessages

\* A statement has each effect at most once; during a bulk write, what it has done
\* is not in the counters yet.
EffectsInv ==
  /\ \A k \in Effects : server[k] =< Len(handed) /\ result[k] =< server[k]
  /\ pc = "write" =>
       /\ stats.errors = 0 => \A k \in Effects : server[k] = stats.effects[k] + result[k]
       /\ \A k \in Effects : stats.effects[k] + result[k] =< server[k]
  /\ pc # "write" =>
       /\ stats.errors = 0 => \A k \in Effects : stats.effects[k] = server[k]
       /\ \A k \in Effects : stats.effects[k] =< server[k]

BoundsInv == count =< MaxMessages /\ stats.bulk =< MaxMessages

TruthInv ==
  /\ Lost \subseteq announced
  /\ pc = "idle" /\ call = "flush" /\ ~err => batch = <<>>

SinkInv ==
  TypeInv /\ OrderInv /\ ErrorsInv /\ EffectsInv /\ BoundsInv /\ TruthInv

-----------------------------------------------------------------------------
LEMMA Elements ==
  ASSUME NEW s \in Seq(Messages), NEW i \in 1..Len(s)
  PROVE  s[i] \in Messages /\ s[i] \in Nat /\ 1 =< s[i] /\ s[i] =< MaxMessages
<1>1. s[i] \in Messages
  OBVIOUS
<1> QED
  BY <1>1, BoundsAssumption DEF Messages

LEMMA SequenceSteps ==
  ASSUME NEW s \in Seq(Messages)
  PROVE  /\ <<>> \in Seq(Messages)
         /\ \A m \in Messages : Append(s, m) \in Seq(Messages)
         /\ s # <<>> => Head(s) \in Messages /\ Tail(s) \in Seq(Messages)
OBVIOUS

\* A rising sequence of messages is no longer than there are messages.
LEMMA RisingIsShort ==
  ASSUME NEW s \in Seq(Messages), Rising(s) PROVE Len(s) =< MaxMessages
<1>1. CASE Len(s) = 0
  BY <1>1, BoundsAssumption
<1>2. CASE Len(s) # 0
  <2>1. Len(s) \in 1..Len(s)
    BY <1>2
  <2> QED
    BY <2>1, Elements, BoundsAssumption DEF Rising
<1> QED
  BY <1>1, <1>2

LEMMA EmptyIsRising == Rising(<<>>)
BY DEF Rising

\* A message beyond all those of a rising sequence continues it.
LEMMA RisingAppend ==
  ASSUME NEW s \in Seq(Messages), Rising(s), NEW m \in Messages, \A i \in 1..Len(s) : s[i] < m
  PROVE  Rising(Append(s, m))
<1>1. m \in Nat /\ 1 =< m
  BY BoundsAssumption DEF Messages
<1>2. Len(s) + 1 =< m
  <2>1. CASE Len(s) = 0
    BY <2>1, <1>1
  <2>2. CASE Len(s) # 0
    <3>1. Len(s) \in 1..Len(s)
      BY <2>2
    <3>2. s[Len(s)] \in Nat /\ Len(s) =< s[Len(s)] /\ s[Len(s)] < m
      BY <3>1, Elements DEF Rising
    <3> QED
      BY <3>2, <1>1
  <2> QED
    BY <2>1, <2>2
<1>3. /\ Len(Append(s, m)) = Len(s) + 1
      /\ \A i \in 1..Len(s) : Append(s, m)[i] = s[i]
      /\ Append(s, m)[Len(s) + 1] = m
  OBVIOUS
<1>4. \A i \in 1..Len(s) : s[i] \in Nat
  BY Elements
<1> QED
  BY <1>1, <1>2, <1>3, <1>4 DEF Rising

LEMMA RisingTail ==
  ASSUME NEW s \in Seq(Messages), Rising(s), s # <<>>
  PROVE  /\ Rising(Tail(s))
         /\ Len(Tail(s)) = Len(s) - 1
         /\ \A i \in 1..Len(Tail(s)) : Tail(s)[i] = s[i + 1] /\ s[1] < Tail(s)[i]
<1>1. Len(Tail(s)) = Len(s) - 1 /\ \A i \in 1..Len(Tail(s)) : Tail(s)[i] = s[i + 1]
  OBVIOUS
<1>2. \A i \in 1..Len(s) : s[i] \in Nat
  BY Elements
<1> QED
  BY <1>1, <1>2 DEF Rising

-----------------------------------------------------------------------------
LEMMA TypeInit == Init => TypeInv
<1> SUFFICES ASSUME Init PROVE TypeInv
  OBVIOUS
<1>1. NoEffect \in [Effects -> Nat]
  BY DEF NoEffect
<1>2. "new" \in Fates
  BY DEF Fates
<1>3. ControlType
  BY DEF Init, ControlType
<1>4. SequenceType
  BY DEF Init, SequenceType
<1>5. FateType
  BY <1>2 DEF Init, FateType
<1>6. CounterType
  BY <1>1, BoundsAssumption DEF Init, CounterType
<1> QED
  BY <1>3, <1>4, <1>5, <1>6 DEF TypeInv

LEMMA ErrorFlag == Spec => []ErrType
<1>1. Init => ErrType
  BY DEF Init, ErrType
<1>2. ASSUME ErrType, [Next]_vars PROVE ErrType'
  <2> USE DEF ErrType
  <2>1. CASE UNCHANGED err
    BY <1>2, <2>1
  <2>2. ASSUME NEW c, NEW n, Return(c, TRUE, n) \/ Return(c, FALSE, n) PROVE err' \in BOOLEAN
    BY <2>2 DEF Return
  <2> QED
    BY <1>2, <2>1, <2>2 DEF Next, BulkWrite, SinkRefuse, SinkAccept, IncDiscarded, Clear, FlushNothing,
                      FlushUnlinked, Flush, Write, BulkWriteFails, BulkWriteEnds, Close, vars, caller
<1> QED
  BY <1>1, <1>2, PTL DEF Spec

LEMMA CountedType ==
  ASSUME NEW c \in [Effects -> Nat], NEW S
  PROVE  /\ Counted(c, S) \in [Effects -> Nat]
         /\ \A k \in Effects : Counted(c, S)[k] \in {c[k], c[k] + 1}
BY DEF Counted

LEMMA TypeStep == TypeInv /\ [Next]_vars => TypeInv'
<1> SUFFICES ASSUME TypeInv, [Next]_vars PROVE TypeInv'
  OBVIOUS
<1> USE DEF Next, BulkWrite, SinkRefuse, SinkAccept, IncDiscarded, Clear, FlushNothing, FlushUnlinked,
            Flush, Write, BulkWriteFails, BulkWriteEnds, Close, vars, caller, written
<1>1. SequenceType
  BY DEF TypeInv
<1>2. ControlType'
  <2>1. Len(batch) \in Nat
    BY <1>1 DEF SequenceType
  <2>2. ASSUME NEW c \in {"sink", "clear", "flush"}, NEW e, NEW n \in Nat, Return(c, e, n)
        PROVE  /\ pc' \in {"idle", "write", "closed"}
               /\ call' \in {"none", "sink", "clear", "flush"} /\ count' \in Nat
    BY <2>2 DEF Return
  <2> QED
    BY <2>1, <2>2 DEF TypeInv, ControlType
<1>3. SequenceType'
  <2>1. batch' = batch \/ batch' = <<>> \/ \E m \in Messages : batch' = Append(batch, m)
    OBVIOUS
  <2>2. todo' = todo \/ todo' = <<>> \/ todo' = batch \/ (todo # <<>> /\ todo' = Tail(todo))
    OBVIOUS
  <2>3. handed' = handed \/ (todo # <<>> /\ handed' = Append(handed, Head(todo)))
    OBVIOUS
  <2>4. batch' \in Seq(Messages)
    BY ONLY <1>1, <2>1, SequenceSteps DEF SequenceType
  <2>5. todo' \in Seq(Messages)
    BY ONLY <1>1, <2>2, SequenceSteps DEF SequenceType
  <2>6. handed' \in Seq(Messages)
    BY ONLY <1>1, <2>3, SequenceSteps DEF SequenceType
  <2> QED
    BY ONLY <2>4, <2>5, <2>6 DEF SequenceType
<1>4. FateType'
  <2>1. ASSUME NEW S, NEW f \in Fates, Become(S, f) PROVE fate' \in [Messages -> Fates]
    BY <2>1 DEF TypeInv, FateType, Become
  <2>2. fate' \in [Messages -> Fates]
    BY <2>1 DEF TypeInv, FateType, Fates
  <2>3. entry' \in [Messages -> {"none", "open", "answered"}]
    BY DEF TypeInv, FateType
  <2>4. announced' \subseteq Messages
    <3>1. Lost' \subseteq Messages
      BY DEF Lost
    <3>2. CASE UNCHANGED announced
      BY <3>2 DEF TypeInv, FateType
    <3>3. ASSUME NEW c, NEW e, NEW n, Return(c, e, n) PROVE announced' \subseteq Messages
      BY <3>1, <3>3 DEF TypeInv, FateType, Return
    <3> QED
      BY <3>2, <3>3
  <2> QED
    BY <2>2, <2>3, <2>4 DEF FateType
<1>5. CounterType'
  <2>1. Len(batch) \in Nat
    BY <1>1 DEF SequenceType
  <2>2. NoEffect \in [Effects -> Nat]
    BY DEF NoEffect
  <2>3. CounterType
    BY DEF TypeInv
  <2>4. /\ server' = server \/ \E S : server' = Counted(server, S)
        /\ result' \in {result, NoEffect} \/ \E S : result' = Counted(result, S)
    OBVIOUS
  <2>5. server' \in [Effects -> Nat] /\ result' \in [Effects -> Nat]
    BY ONLY <2>2, <2>3, <2>4, CountedType DEF CounterType
  <2>6. \/ stats' = stats
        \/ \E n \in 0..MaxDiscarded : stats' = [stats EXCEPT !.discarded = n]
        \/ stats' = [stats EXCEPT !.bulk = Len(batch)]
        \/ stats' = [stats EXCEPT !.errors = @ + 1]
        \/ stats' = [stats EXCEPT !.effects = [k \in Effects |-> @[k] + result[k]]]
    OBVIOUS
  <2>7. stats' \in [effects : [Effects -> Nat], errors : Nat, bulk : Nat, discarded : 0..MaxDiscarded]
    <3> DEFINE sum == [k \in Effects |-> stats.effects[k] + result[k]]
    <3>1. sum \in [Effects -> Nat]
      BY ONLY <2>3 DEF CounterType
    <3>2. CASE stats' = [stats EXCEPT !.effects = sum]
      <4> HIDE DEF sum
      <4> QED
        BY ONLY <2>3, <3>1, <3>2 DEF CounterType
    <3>3. ASSUME NEW n \in 0..MaxDiscarded, stats' = [stats EXCEPT !.discarded = n]
          PROVE  stats' \in [effects : [Effects -> Nat], errors : Nat, bulk : Nat,
                             discarded : 0..MaxDiscarded]
      BY ONLY <2>3, <3>3 DEF CounterType
    <3>4. CASE stats' = [stats EXCEPT !.bulk = Len(batch)]
      BY ONLY <2>1, <2>3, <3>4 DEF CounterType
    <3>5. CASE stats' = [stats EXCEPT !.errors = @ + 1]
      BY ONLY <2>3, <3>5 DEF CounterType
    <3>6. CASE stats' = stats
      BY ONLY <2>3, <3>6 DEF CounterType
    <3> QED
      BY <2>6, <3>2, <3>3, <3>4, <3>5, <3>6
  <2> QED
    BY <2>5, <2>7 DEF CounterType
<1> QED
  BY <1>2, <1>3, <1>4, <1>5 DEF TypeInv

-----------------------------------------------------------------------------
(***************************************************************************)
(* Five kinds of steps, as the order of the messages sees them.            *)
(***************************************************************************)
InStage == {Held[i] : i \in 1..Len(Held)}

\* The stage keeps what it holds.
Quiet ==
  /\ UNCHANGED <<batch, fate, entry, handed>> /\ Held' = Held
  /\ pc' = "write" => batch # <<>>

Refused(m) ==
  /\ Fresh(m) /\ Become({m}, "refused")
  /\ UNCHANGED <<batch, handed>> /\ Held' = Held /\ pc' = "idle"
  /\ entry' \in {entry, [entry EXCEPT ![m] = "open"]}

Accepted(m) ==
  /\ Fresh(m) /\ Become({m}, "buffered")
  /\ UNCHANGED handed /\ pc' = "idle"
  /\ batch' = Append(batch, m) /\ Held = batch /\ Held' = batch'
  /\ entry' = [entry EXCEPT ![m] = "answered"]

Written ==
  /\ Held # <<>> /\ Become({Head(Held)}, "written")
  /\ handed' = Append(handed, Head(Held)) /\ Held' = Tail(Held)
  /\ UNCHANGED <<batch, entry, pc>> /\ pc = "write"

Emptied ==
  /\ \E f \in {"lost", "cleared"} : Become(InStage, f)
  /\ batch' = <<>> /\ Held' = <<>> /\ pc' = "idle"
  /\ UNCHANGED <<entry, handed>>

StepKind ==
  Quiet \/ Written \/ Emptied \/ \E m \in Messages : Refused(m) \/ Accepted(m)

LEMMA Kinds == TypeInv /\ BatchInv /\ [Next]_vars => StepKind
<1> SUFFICES ASSUME TypeInv, BatchInv, [Next]_vars PROVE StepKind
  OBVIOUS
<1> USE DEF caller, written, Held
<1>1. ASSUME NEW m \in Messages, SinkRefuse(m) PROVE Refused(m)
  BY <1>1 DEF SinkRefuse, Return, Refused
<1>2. ASSUME NEW m \in Messages, SinkAccept(m) PROVE Accepted(m)
  BY <1>2 DEF SinkAccept, Return, Accepted
<1>3. ASSUME NEW n, IncDiscarded(n) PROVE Quiet
  BY <1>3 DEF IncDiscarded, Quiet
<1>4. CASE Clear
  BY <1>4 DEF Clear, Return, Emptied, InStage, InBatch, StepKind
<1>5. CASE FlushNothing
  BY <1>5 DEF FlushNothing, Return, Quiet, StepKind
<1>6. CASE FlushUnlinked
  BY <1>6 DEF FlushUnlinked, Return, Emptied, InStage, InBatch, StepKind
<1>7. CASE Flush
  BY <1>7 DEF Flush, Quiet, StepKind
<1>8. CASE Write
  BY <1>8 DEF Write, Written, StepKind
<1>9. CASE BulkWriteFails
  BY <1>9 DEF BulkWriteFails, Return, Emptied, InStage, InTodo, StepKind
<1>10. CASE BulkWriteEnds
  <2>1. InStage = {} /\ Held' = <<>>
    BY <1>10 DEF BulkWriteEnds, Return, InStage
  <2>2. fate' = [m \in Messages |-> fate[m]]
    BY <1>10 DEF BulkWriteEnds, TypeInv, FateType
  <2>3. Become(InStage, "lost")
    BY <2>1, <2>2 DEF Become
  <2> QED
    BY <1>10, <2>1, <2>3 DEF BulkWriteEnds, Return, Emptied, StepKind
<1>11. CASE Close
  BY <1>11 DEF Close, Quiet, StepKind
<1>12. CASE UNCHANGED vars
  BY <1>12 DEF vars, Quiet, BatchInv, StepKind
<1> QED
  BY <1>1, <1>2, <1>3, <1>4, <1>5, <1>6, <1>7, <1>8, <1>9, <1>10, <1>11, <1>12
     DEF Next, BulkWrite, StepKind

LEMMA OrderInit == Init => OrderInv
<1> SUFFICES ASSUME Init PROVE OrderInv
  OBVIOUS
<1>1. Answered = {0}
  BY DEF Init, Answered
<1>2. TakenInOrder /\ BatchInv /\ LastInv
  BY <1>1 DEF Init, TakenInOrder, BatchInv, LastInv, Rising
<1>3. HeldInv /\ HandedInv
  BY DEF Init, Held, HeldInv, HandedInv, Rising
<1> QED
  BY <1>2, <1>3 DEF OrderInv

\* What Become does to the fate of one message.
LEMMA Becomes ==
  ASSUME NEW S, NEW f, Become(S, f), NEW m \in Messages
  PROVE  /\ m \in S => fate'[m] = f
         /\ m \notin S => fate'[m] = fate[m]
BY DEF Become

LEMMA HeldIsTyped == TypeInv => Held \in Seq(Messages)
BY DEF TypeInv, SequenceType, Held

LEMMA QuietKeepsOrder == OrderInv /\ Quiet => OrderInv'
<1> SUFFICES ASSUME OrderInv, Quiet PROVE OrderInv'
  OBVIOUS
<1> USE DEF OrderInv, Quiet
<1>1. TakenInOrder'
  BY DEF TakenInOrder
<1>2. BatchInv'
  BY DEF BatchInv, Rising
<1>3. HeldInv'
  BY DEF HeldInv, Rising
<1>4. HandedInv'
  BY DEF HandedInv, Rising
<1>5. LastInv'
  BY DEF LastInv, Answered
<1> QED
  BY <1>1, <1>2, <1>3, <1>4, <1>5

\* Whoever is held or handed over came before a message that Sink is given now.
LEMMA FreshComesLast ==
  ASSUME TypeInv, OrderInv, NEW m \in Messages, Fresh(m)
  PROVE  /\ \A n \in Messages : fate[n] # "new" => n < m
         /\ \A n \in Messages : n < m => fate[n] # "new"
         /\ \A i \in 1..Len(Held) : Held[i] < m /\ Held[i] # m
         /\ \A i \in 1..Len(batch) : batch[i] # m
         /\ \A i \in 1..Len(handed) : handed[i] < m /\ handed[i] # m
         /\ \A n \in Answered : n < m
<1>1. \A n \in Messages : n \in Nat /\ n >= 1
  BY BoundsAssumption DEF Messages
<1>2. \A n \in Messages : fate[n] # "new" => n < m
  BY <1>1 DEF Fresh, OrderInv, TakenInOrder
<1>3. ASSUME NEW i \in 1..Len(Held) PROVE Held[i] < m /\ Held[i] # m
  <2>1. Held[i] \in Messages
    BY HeldIsTyped
  <2> QED
    BY <1>2, <2>1 DEF OrderInv, HeldInv, Fresh
<1>4. ASSUME NEW i \in 1..Len(handed) PROVE handed[i] < m /\ handed[i] # m
  <2>1. handed[i] \in Messages
    BY DEF TypeInv, SequenceType
  <2> QED
    BY <1>2, <2>1 DEF OrderInv, HandedInv, Fresh
<1>5. \A n \in Answered : n < m
  BY <1>1, <1>2 DEF Answered, OrderInv, TakenInOrder
<1> QED
  BY <1>2, <1>3, <1>4, <1>5 DEF Fresh, OrderInv, BatchInv

LEMMA RefusedKeepsOrder ==
  ASSUME TypeInv, OrderInv, NEW m \in Messages, Refused(m) PROVE OrderInv'
<1> USE DEF OrderInv
<1>1. Fresh(m)
  BY DEF Refused
<1>2. \A n \in Messages : (n = m => fate'[n] = "refused") /\ (n # m => fate'[n] = fate[n])
  BY Becomes DEF Refused
<1>3. \A n \in Messages : n \in Nat
  BY BoundsAssumption DEF Messages
<1>4. \A n \in Messages : entry'[n] = "answered" <=> entry[n] = "answered"
  BY <1>1 DEF Refused, TypeInv, FateType, TakenInOrder, Fresh
<1>5. TakenInOrder'
  BY <1>1, <1>2, <1>3, <1>4, FreshComesLast DEF TakenInOrder
<1>6. BatchInv'
  <2>1. \A i \in 1..Len(batch) : batch[i] \in Messages
    BY DEF TypeInv, SequenceType
  <2> QED
    BY <1>1, <1>2, <2>1, FreshComesLast DEF Refused, BatchInv, Rising
<1>7. HeldInv'
  <2>1. \A i \in 1..Len(Held) : Held[i] \in Messages /\ fate'[Held[i]] = "buffered"
    BY <1>1, <1>2, HeldIsTyped, FreshComesLast DEF HeldInv
  <2>2. \A n \in Messages : fate'[n] = "buffered" => \E i \in 1..Len(Held) : Held[i] = n
    BY <1>2 DEF HeldInv
  <2> QED
    BY <2>1, <2>2 DEF Refused, HeldInv, Rising
<1>8. HandedInv'
  <2>1. \A i \in 1..Len(handed) : handed[i] \in Messages
    BY DEF TypeInv, SequenceType
  <2> QED
    BY <1>1, <1>2, <2>1, FreshComesLast DEF Refused, HandedInv, Rising
<1>9. LastInv'
  BY <1>4 DEF LastInv, Answered
<1> QED
  BY <1>5, <1>6, <1>7, <1>8, <1>9

LEMMA AcceptedKeepsOrder ==
  ASSUME TypeInv, OrderInv, NEW m \in Messages, Accepted(m) PROVE OrderInv'
<1> USE DEF OrderInv
<1>1. Fresh(m)
  BY DEF Accepted
<1>2. \A n \in Messages : (n = m => fate'[n] = "buffered") /\ (n # m => fate'[n] = fate[n])
  BY Becomes DEF Accepted
<1>3. \A n \in Messages : n \in Nat
  BY BoundsAssumption DEF Messages
<1>4. \A n \in Messages : (n = m => entry'[n] = "answered") /\ (n # m => entry'[n] = entry[n])
  BY DEF Accepted, TypeInv, FateType
<1>5. TakenInOrder'
  BY <1>1, <1>2, <1>3, <1>4, FreshComesLast DEF TakenInOrder
<1>6. /\ batch \in Seq(Messages) /\ batch = Held /\ batch' = Append(batch, m) /\ Held' = batch'
      /\ Len(batch') = Len(batch) + 1 /\ batch'[Len(batch) + 1] = m
      /\ \A i \in 1..Len(batch) : batch'[i] = batch[i] /\ batch[i] \in Messages
  BY DEF Accepted, TypeInv, SequenceType
<1>7. \A i \in 1..Len(batch) : batch[i] < m /\ batch[i] # m
  BY <1>1, <1>6, FreshComesLast
<1>8. Rising(batch')
  BY <1>6, <1>7, RisingAppend DEF BatchInv
<1>9. \A i \in 1..Len(batch') : fate'[batch'[i]] = "buffered"
  <2>1. \A i \in 1..Len(batch) : fate'[batch'[i]] = "buffered"
    BY <1>2, <1>6, <1>7 DEF HeldInv
  <2>2. fate'[batch'[Len(batch) + 1]] = "buffered"
    BY <1>2, <1>6
  <2> QED
    BY <1>6, <2>1, <2>2
<1>10. BatchInv'
  BY <1>8, <1>9 DEF BatchInv, Accepted, Rising
<1>11. HeldInv'
  <2>1. ASSUME NEW n \in Messages, fate'[n] = "buffered" PROVE \E i \in 1..Len(batch') : batch'[i] = n
    <3>1. CASE n = m
      BY <1>6, <3>1
    <3>2. CASE n # m
      BY <1>2, <1>6, <2>1, <3>2 DEF HeldInv
    <3> QED
      BY <3>1, <3>2
  <2> QED
    BY <1>6, <1>8, <1>9, <2>1 DEF HeldInv, Rising
<1>12. HandedInv'
  <2>1. \A i \in 1..Len(handed) : handed[i] \in Messages /\ handed[i] # m /\ handed[i] < m
    BY <1>1, FreshComesLast DEF TypeInv, SequenceType
  <2>2. handed' = handed
    BY DEF Accepted
  <2>3. \A i \in 1..Len(handed) : fate'[handed[i]] # "new"
    BY <1>2, <2>1 DEF HandedInv
  <2>4. \A i \in 1..Len(handed), j \in 1..Len(batch') : handed[i] < batch'[j]
    BY <1>6, <2>1 DEF HandedInv
  <2> QED
    BY <1>6, <2>2, <2>3, <2>4 DEF HandedInv, Rising
<1>13. LastInv'
  <2>1. Answered' = Answered \cup {m}
    BY <1>4 DEF Answered
  <2>2. \A n \in Answered : n \in Nat /\ n < m
    BY <1>1, <1>3, FreshComesLast DEF Answered
  <2>3. \A n \in Answered' : m >= n
    BY <1>3, <2>1, <2>2
  <2> QED
    BY <2>1, <2>3 DEF LastInv
<1> QED
  BY <1>5, <1>10, <1>11, <1>12, <1>13

LEMMA WrittenKeepsOrder == TypeInv /\ OrderInv /\ Written => OrderInv'
<1> SUFFICES ASSUME TypeInv, OrderInv, Written PROVE OrderInv'
  OBVIOUS
<1> USE DEF OrderInv
<1> DEFINE h == Held[1]
<1>1. /\ Held \in Seq(Messages) /\ Held # <<>> /\ Head(Held) = h /\ h \in Messages
      /\ 1 \in 1..Len(Held) /\ Held' = Tail(Held)
  BY HeldIsTyped DEF Written
<1>2. \A n \in Messages : (n = h => fate'[n] = "written") /\ (n # h => fate'[n] = fate[n])
  BY <1>1, Becomes DEF Written
<1>3. fate[h] = "buffered"
  BY <1>1 DEF HeldInv
<1>4. \A n \in Messages : n \in Nat
  BY BoundsAssumption DEF Messages
<1>5. /\ Rising(Held') /\ Len(Held') = Len(Held) - 1 /\ Len(Held) \in Nat
      /\ \A i \in 1..Len(Held') : Held'[i] = Held[i + 1] /\ h < Held'[i]
  BY <1>1, RisingTail DEF HeldInv
<1>6. \A i \in 1..Len(Held') : Held'[i] \in Messages /\ Held'[i] # h
  BY <1>1, <1>4, <1>5
<1>7. TakenInOrder'
  BY <1>2, <1>3 DEF TakenInOrder, Written
<1>8. BatchInv'
  <2>1. \A i \in 1..Len(batch) : batch[i] \in Messages
    BY DEF TypeInv, SequenceType
  <2> QED
    BY <1>2, <2>1 DEF Written, BatchInv, Rising
<1>9. HeldInv'
  <2>1. \A i \in 1..Len(Held') : fate'[Held'[i]] = "buffered"
    BY <1>2, <1>5, <1>6 DEF HeldInv
  <2>2. ASSUME NEW n \in Messages, fate'[n] = "buffered" PROVE \E i \in 1..Len(Held') : Held'[i] = n
    <3>1. fate[n] = "buffered" /\ n # h
      BY <1>2, <2>2
    <3>2. PICK i \in 1..Len(Held) : Held[i] = n
      BY <3>1 DEF HeldInv
    <3>3. i - 1 \in 1..Len(Held') /\ (i - 1) + 1 = i
      BY <1>5, <3>1, <3>2
    <3>4. Held'[i - 1] = n
      BY <1>5, <3>2, <3>3
    <3> QED
      BY <3>3, <3>4
  <2> QED
    BY <1>5, <2>1, <2>2 DEF HeldInv, Rising
<1>10. HandedInv'
  <2>1. /\ handed \in Seq(Messages) /\ handed' = Append(handed, h)
        /\ Len(handed') = Len(handed) + 1 /\ handed'[Len(handed) + 1] = h
        /\ \A i \in 1..Len(handed) : handed'[i] = handed[i] /\ handed[i] \in Messages
    BY <1>1 DEF Written, TypeInv, SequenceType
  <2>2. \A i \in 1..Len(handed) : handed[i] < h
    BY <1>1 DEF HandedInv
  <2>3. Rising(handed')
    BY <1>1, <2>1, <2>2, RisingAppend DEF HandedInv
  <2>4. \A i \in 1..Len(handed') : fate'[handed'[i]] # "new"
    BY <1>1, <1>2, <2>1 DEF HandedInv
  <2>5. \A i \in 1..Len(handed'), j \in 1..Len(Held') : handed'[i] < Held'[j]
    <3> SUFFICES ASSUME NEW i \in 1..Len(handed'), NEW j \in 1..Len(Held') PROVE handed'[i] < Held'[j]
      OBVIOUS
    <3>1. CASE i = Len(handed) + 1
      BY <1>5, <2>1, <3>1
    <3>2. CASE i # Len(handed) + 1
      <4>1. i \in 1..Len(handed) /\ j + 1 \in 1..Len(Held)
        BY <1>5, <2>1, <3>2
      <4> QED
        BY <1>5, <2>1, <4>1 DEF HandedInv
    <3> QED
      BY <3>1, <3>2
  <2> QED
    BY <2>3, <2>4, <2>5 DEF HandedInv, Rising
<1>11. LastInv'
  BY DEF Written, LastInv, Answered
<1> QED
  BY <1>7, <1>8, <1>9, <1>10, <1>11

LEMMA EmptiedKeepsOrder == TypeInv /\ OrderInv /\ Emptied => OrderInv'
<1> SUFFICES ASSUME TypeInv, OrderInv, Emptied PROVE OrderInv'
  OBVIOUS
<1> USE DEF OrderInv
<1>1. PICK f \in {"lost", "cleared"} : Become(InStage, f)
  BY DEF Emptied
<1>2. \A n \in Messages : (n \in InStage => fate'[n] = f) /\ (n \notin InStage => fate'[n] = fate[n])
  BY <1>1, Becomes
<1>3. \A n \in Messages : n \in InStage <=> fate[n] = "buffered"
  BY DEF InStage, HeldInv
<1>4. \A n \in Messages : fate'[n] # "buffered" /\ (fate'[n] = "new" <=> fate[n] = "new")
  BY <1>1, <1>2, <1>3
<1>5. TakenInOrder'
  BY <1>4 DEF TakenInOrder, Emptied
<1>6. BatchInv'
  BY DEF BatchInv, Rising, Emptied
<1>7. HeldInv'
  BY <1>4 DEF HeldInv, Rising, Emptied
<1>8. HandedInv'
  <2>1. \A i \in 1..Len(handed) : handed[i] \in Messages
    BY DEF TypeInv, SequenceType
  <2> QED
    BY <1>4, <2>1 DEF HandedInv, Rising, Emptied
<1>9. LastInv'
  BY DEF LastInv, Answered, Emptied
<1> QED
  BY <1>5, <1>6, <1>7, <1>8, <1>9

LEMMA OrderStep == TypeInv /\ OrderInv /\ [Next]_vars => OrderInv'
BY Kinds, QuietKeepsOrder, RefusedKeepsOrder, AcceptedKeepsOrder, WrittenKeepsOrder, EmptiedKeepsOrder
   DEF StepKind, OrderInv

-----------------------------------------------------------------------------
(***************************************************************************)
(* The counters and the answers of the stage.                              *)
(***************************************************************************)
\* A message that is new after a step was new before it.
LEMMA NewWasNew ==
  ASSUME TypeInv, OrderInv, StepKind, NEW m \in Messages, fate'[m] = "new"
  PROVE  fate[m] = "new"
<1>1. ASSUME NEW S, NEW f, Become(S, f), f # "new" PROVE fate[m] = "new"
  BY <1>1 DEF Become
<1> QED
  BY <1>1 DEF StepKind, Quiet, Refused, Accepted, Written, Emptied

LEMMA ErrorsStep == TypeInv /\ OrderInv /\ ErrorsInv /\ [Next]_vars => ErrorsInv'
<1> SUFFICES ASSUME TypeInv, OrderInv, ErrorsInv, [Next]_vars PROVE ErrorsInv'
  OBVIOUS
<1>1. StepKind
  BY Kinds DEF OrderInv
<1>2. /\ stats.errors \in Nat /\ batch \in Seq(Messages)
      /\ \A m \in Messages : m \in Nat /\ m =< MaxMessages
      /\ MaxMessages \in Nat
  BY BoundsAssumption DEF TypeInv, CounterType, SequenceType, Messages
<1>3. CASE BulkWriteFails
  <2>1. batch # <<>> /\ batch[1] \in Messages /\ stats.errors < batch[1] /\ fate[batch[1]] # "new"
    BY <1>2, <1>3 DEF BulkWriteFails, OrderInv, BatchInv, ErrorsInv
  <2>2. stats'.errors = stats.errors + 1
    BY <1>3 DEF BulkWriteFails, TypeInv, CounterType
  <2>3. batch' = <<>>
    BY <1>3 DEF BulkWriteFails
  <2>4. \A m \in Messages : fate[m] = "new" => batch[1] < m
    BY <1>2, <2>1 DEF OrderInv, TakenInOrder, BatchInv
  <2> QED
    BY <1>1, <1>2, <2>1, <2>2, <2>3, <2>4, NewWasNew DEF ErrorsInv
<1>4. CASE stats'.errors = stats.errors
  <2>1. \A m \in Messages : fate'[m] = "new" => stats'.errors < m
    BY <1>1, <1>4, NewWasNew DEF ErrorsInv
  <2>2. \A i \in 1..Len(batch') : stats'.errors < batch'[i]
    <3>1. CASE batch' = batch \/ batch' = <<>>
      BY <1>4, <3>1 DEF ErrorsInv
    <3>2. ASSUME NEW m \in Messages, Accepted(m) PROVE \A i \in 1..Len(batch') : stats'.errors < batch'[i]
      <4>1. fate[m] = "new" /\ batch' = Append(batch, m)
        BY <3>2 DEF Accepted, Fresh
      <4> QED
        BY <1>2, <1>4, <4>1 DEF ErrorsInv
    <3> QED
      BY <1>1, <3>1, <3>2 DEF StepKind, Quiet, Refused, Written, Emptied
  <2> QED
    BY <1>4, <2>1, <2>2 DEF ErrorsInv
<1>5. BulkWriteFails \/ stats'.errors = stats.errors
  <2>1. \/ BulkWriteFails
        \/ stats' = stats
        \/ \E n \in 0..MaxDiscarded : stats' = [stats EXCEPT !.discarded = n]
        \/ stats' = [stats EXCEPT !.bulk = Len(batch)]
        \/ stats' = [stats EXCEPT !.effects = [k \in Effects |-> @[k] + result[k]]]
    BY DEF Next, BulkWrite, SinkRefuse, SinkAccept, IncDiscarded, Clear, FlushNothing, FlushUnlinked,
           Flush, Write, BulkWriteEnds, Close, vars, written
  <2> QED
    BY <2>1 DEF TypeInv, CounterType
<1> QED
  BY <1>3, <1>4, <1>5

LEMMA EffectsStep == TypeInv /\ TypeInv' /\ EffectsInv /\ [Next]_vars => EffectsInv'
<1> SUFFICES ASSUME TypeInv, TypeInv', EffectsInv, [Next]_vars PROVE EffectsInv'
  OBVIOUS
<1>1. /\ \A k \in Effects : server[k] \in Nat /\ result[k] \in Nat /\ stats.effects[k] \in Nat
      /\ handed \in Seq(Messages) /\ stats.errors \in Nat
  BY DEF TypeInv, CounterType, SequenceType
<1>2. CASE /\ UNCHANGED <<server, result, handed>> /\ stats'.effects = stats.effects
           /\ stats'.errors = stats.errors /\ (pc' = "write" <=> pc = "write")
  BY <1>2 DEF EffectsInv
<1>3. CASE Flush
  <2>1. /\ pc = "idle" /\ pc' = "write" /\ UNCHANGED <<server, handed>>
        /\ stats'.effects = stats.effects /\ stats'.errors = stats.errors
        /\ \A k \in Effects : result'[k] = 0
    BY <1>3 DEF Flush, TypeInv, CounterType, NoEffect
  <2> QED
    BY <1>1, <2>1 DEF EffectsInv
<1>4. CASE Write
  <2>1. PICK S : server' = Counted(server, S) /\ result' = Counted(result, S)
    BY <1>4 DEF Write
  <2>2. \A k \in Effects : \/ server'[k] = server[k] /\ result'[k] = result[k]
                           \/ server'[k] = server[k] + 1 /\ result'[k] = result[k] + 1
    BY <2>1 DEF Counted
  <2>3. Len(handed') = Len(handed) + 1 /\ pc = "write" /\ pc' = "write" /\ stats' = stats
    BY <1>1, <1>4 DEF Write, caller
  <2> QED
    BY <1>1, <2>2, <2>3 DEF EffectsInv
<1>5. CASE BulkWriteFails
  <2>1. /\ pc = "write" /\ pc' = "idle" /\ UNCHANGED <<server, result, handed>>
        /\ stats'.effects = stats.effects /\ stats'.errors = stats.errors + 1
    BY <1>5 DEF BulkWriteFails, Return, TypeInv, CounterType
  <2> QED
    BY <1>1, <2>1 DEF EffectsInv
<1>6. CASE BulkWriteEnds
  <2>1. /\ pc = "write" /\ pc' = "idle" /\ UNCHANGED <<server, result, handed>>
        /\ stats'.errors = stats.errors
        /\ \A k \in Effects : stats'.effects[k] = stats.effects[k] + result[k]
    BY <1>6 DEF BulkWriteEnds, Return, TypeInv, CounterType, written
  <2> QED
    BY <1>1, <2>1 DEF EffectsInv
<1>7. ASSUME NEW m \in Messages, SinkRefuse(m) \/ SinkAccept(m) PROVE EffectsInv'
  BY <1>2, <1>7 DEF SinkRefuse, SinkAccept, Return, written
<1>8. ASSUME NEW n \in 0..MaxDiscarded, IncDiscarded(n) PROVE EffectsInv'
  BY <1>2, <1>8 DEF IncDiscarded, caller, written, TypeInv, CounterType
<1>9. CASE Clear \/ FlushNothing \/ Close \/ UNCHANGED vars
  BY <1>2, <1>9 DEF Clear, FlushNothing, Close, vars, Return, written
<1>10. CASE FlushUnlinked
  BY <1>2, <1>10 DEF FlushUnlinked, Return, written, TypeInv, CounterType
<1> QED
  BY <1>3, <1>4, <1>5, <1>6, <1>7, <1>8, <1>9, <1>10 DEF Next, BulkWrite

LEMMA BoundsStep == TypeInv /\ OrderInv /\ BoundsInv /\ [Next]_vars => BoundsInv'
<1> SUFFICES ASSUME TypeInv, OrderInv, BoundsInv, [Next]_vars PROVE BoundsInv'
  OBVIOUS
<1>1. Len(batch) =< MaxMessages /\ 0 =< MaxMessages
  BY RisingIsShort, BoundsAssumption DEF TypeInv, SequenceType, OrderInv, BatchInv
<1>2. count' = count \/ count' = 0 \/ count' = Len(batch)
  BY DEF Next, BulkWrite, SinkRefuse, SinkAccept, IncDiscarded, Clear, FlushNothing, FlushUnlinked,
         Flush, Write, BulkWriteFails, BulkWriteEnds, Close, vars, caller, Return
<1>3. \/ stats' = stats
      \/ \E n \in 0..MaxDiscarded : stats' = [stats EXCEPT !.discarded = n]
      \/ stats' = [stats EXCEPT !.bulk = Len(batch)]
      \/ stats' = [stats EXCEPT !.errors = @ + 1]
      \/ stats' = [stats EXCEPT !.effects = [k \in Effects |-> @[k] + result[k]]]
  BY DEF Next, BulkWrite, SinkRefuse, SinkAccept, IncDiscarded, Clear, FlushNothing, FlushUnlinked,
         Flush, Write, BulkWriteFails, BulkWriteEnds, Close, vars, written
<1>4. stats'.bulk = stats.bulk \/ stats'.bulk = Len(batch)
  BY <1>3 DEF TypeInv, CounterType
<1> QED
  BY <1>1, <1>2, <1>4 DEF BoundsInv

LEMMA TruthStep == TypeInv /\ TruthInv /\ [Next]_vars => TruthInv'
<1> SUFFICES ASSUME TypeInv, TruthInv, [Next]_vars PROVE TruthInv'
  OBVIOUS
<1>1. ASSUME NEW S, NEW f, f # "lost", Become(S, f) PROVE Lost' \subseteq Lost
  BY <1>1 DEF Become, Lost
<1>2. UNCHANGED fate => Lost' \subseteq Lost
  BY DEF Lost
<1>3. (Lost' \subseteq Lost /\ announced' = announced) \/ announced' = Lost'
  BY <1>1, <1>2
     DEF Next, BulkWrite, SinkRefuse, SinkAccept, IncDiscarded, Clear, FlushNothing, FlushUnlinked,
         Flush, Write, BulkWriteFails, BulkWriteEnds, Close, vars, caller, written, Return
<1>4. \/ batch' = <<>>
      \/ pc' # "idle"
      \/ call' # "flush"
      \/ batch' = batch /\ call' = call /\ err' = err /\ pc = "idle"
      \/ err'
  BY DEF Next, BulkWrite, SinkRefuse, SinkAccept, IncDiscarded, Clear, FlushNothing, FlushUnlinked,
         Flush, Write, BulkWriteFails, BulkWriteEnds, Close, vars, caller, written, Return
<1>5. Lost' \subseteq announced'
  BY <1>3 DEF TruthInv
<1>6. pc' = "idle" /\ call' = "flush" /\ ~err' => batch' = <<>>
  BY <1>4 DEF TruthInv
<1> QED
  BY <1>5, <1>6 DEF TruthInv

LEMMA RestInit == Init => ErrorsInv /\ EffectsInv /\ BoundsInv /\ TruthInv
<1> SUFFICES ASSUME Init PROVE ErrorsInv /\ EffectsInv /\ BoundsInv /\ TruthInv
  OBVIOUS
<1>1. /\ pc = "idle" /\ call = "none" /\ count = 0 /\ batch = <<>> /\ handed = <<>>
      /\ stats.errors = 0 /\ stats.bulk = 0 /\ \A m \in Messages : fate[m] = "new"
      /\ \A k \in Effects : server[k] = 0 /\ result[k] = 0 /\ stats.effects[k] = 0
  BY DEF Init, NoEffect
<1>2. ErrorsInv /\ BoundsInv
  BY <1>1, BoundsAssumption DEF ErrorsInv, BoundsInv, Messages
<1>3. EffectsInv
  BY <1>1 DEF EffectsInv
<1>4. TruthInv
  BY <1>1 DEF TruthInv, Lost
<1> QED
  BY <1>2, <1>3, <1>4

\* The inductive invariant of the stage: its messages in order, an error for every
\* bulk write that fails, the counters behind the server, no loss in silence.
THEOREM SinkInvariant == Spec => []SinkInv
<1>1. Init => SinkInv
  BY TypeInit, OrderInit, RestInit DEF SinkInv
<1>2. SinkInv /\ [Next]_vars => SinkInv'
  BY TypeStep, OrderStep, ErrorsStep, EffectsStep, BoundsStep, TruthStep DEF SinkInv
<1> QED
  BY <1>1, <1>2, PTL DEF Spec

\* Type correctness: no counter exceeds the number of events, because every statement
\* is carried out once and every bulk write that fails has statements of its own.
THEOREM TypeCorrect == Spec => []TypeOK
<1>1. ASSUME SinkInv, ErrType PROVE TypeOK
  <2>1. TypeInv
    BY <1>1 DEF SinkInv
  <2>2. Len(handed) =< MaxMessages
    BY <1>1, RisingIsShort DEF SinkInv, TypeInv, SequenceType, OrderInv, HandedInv
  <2>3. count \in 0..MaxMessages
    BY <1>1, BoundsAssumption DEF SinkInv, TypeInv, ControlType, BoundsInv
  <2>4. /\ server \in [Effects -> 0..MaxMessages] /\ result \in [Effects -> 0..MaxMessages]
        /\ stats.effects \in [Effects -> 0..MaxMessages]
    <3>1. /\ \A k \in Effects : /\ server[k] \in Nat /\ result[k] \in Nat /\ stats.effects[k] \in Nat
                                /\ server[k] =< MaxMessages /\ result[k] =< MaxMessages
                                /\ stats.effects[k] =< MaxMessages
          /\ MaxMessages \in Nat
      BY <1>1, <2>2, BoundsAssumption DEF SinkInv, TypeInv, SequenceType, CounterType, EffectsInv
    <3>2. /\ server = [k \in Effects |-> server[k]] /\ result = [k \in Effects |-> result[k]]
          /\ stats.effects = [k \in Effects |-> stats.effects[k]]
      BY <2>1 DEF TypeInv, CounterType
    <3>3. /\ \A k \in Effects : /\ server[k] \in 0..MaxMessages /\ result[k] \in 0..MaxMessages
                                /\ stats.effects[k] \in 0..MaxMessages
      BY <3>1
    <3> QED
      BY <3>2, <3>3
  <2>5. stats \in [effects : [Effects -> 0..MaxMessages], errors : 0..MaxMessages,
                   bulk : 0..MaxMessages, discarded : 0..MaxDiscarded]
    <3>1. stats.errors \in 0..MaxMessages /\ stats.bulk \in 0..MaxMessages
      BY <1>1, BoundsAssumption DEF SinkInv, TypeInv, CounterType, ErrorsInv, BoundsInv
    <3> QED
      BY <2>1, <2>4, <3>1 DEF TypeInv, CounterType
  <2>6. err \in BOOLEAN
    BY <1>1 DEF ErrType
  <2> QED
    BY <2>1, <2>3, <2>4, <2>5, <2>6 DEF TypeOK, TypeInv, ControlType, SequenceType, FateType
<1> QED
  BY <1>1, SinkInvariant, ErrorFlag, PTL

\* No statement is lost without an error of Flush, and a Flush that returns nil leaves
\* nothing behind.
THEOREM FlushIsTruthful == Spec => []FlushTellsTheTruth
<1>1. ASSUME SinkInv PROVE FlushTellsTheTruth
  <2>1. pc = "idle" /\ batch = <<>> => \A m \in Messages : fate[m] # "buffered"
    BY <1>1 DEF SinkInv, OrderInv, HeldInv, Held
  <2> QED
    BY <1>1, <2>1 DEF SinkInv, TruthInv, FlushTellsTheTruth
<1> QED
  BY <1>1, SinkInvariant, PTL

\* The counters are what was done to the collection as long as no error is counted,
\* and never above it.
THEOREM CountersAreTrusted == Spec => []CountersTrusted
<1>1. ASSUME SinkInv PROVE CountersTrusted
  <2>1. stats.effects = [k \in Effects |-> stats.effects[k]] /\ server = [k \in Effects |-> server[k]]
    BY <1>1 DEF SinkInv, TypeInv, CounterType
  <2>2. pc # "write" /\ stats.errors = 0 => stats.effects = server
    BY <1>1, <2>1 DEF SinkInv, EffectsInv
  <2> QED
    BY <1>1, <2>2 DEF SinkInv, EffectsInv, CountersTrusted
<1> QED
  BY <1>1, SinkInvariant, PTL

-----------------------------------------------------------------------------
(***************************************************************************)
(* Every step of the Mongo sink is a step of a sink stage or a stutter.    *)
(***************************************************************************)
LEMMA MaxIsGreatest ==
  ASSUME NEW S, \E x \in S : \A y \in S : x >= y
  PROVE  Max(S) \in S /\ \A y \in S : Max(S) >= y
BY DEF Max

LEMMA MaxIsUnique ==
  ASSUME NEW S \in SUBSET Nat, NEW x \in S, \A y \in S : x >= y
  PROVE  Max(S) = x
<1>1. Max(S) \in S /\ \A y \in S : Max(S) >= y
  BY MaxIsGreatest
<1>2. Max(S) \in Nat /\ x \in Nat /\ Max(S) >= x /\ x >= Max(S)
  BY <1>1
<1> QED
  BY <1>2

LEMMA AnsweredAreNumbers == Answered \in SUBSET Nat
BY BoundsAssumption DEF Answered, Messages

\* A step that drops what is held gives it up, one that drops nothing is a stutter.
LEMMA EmptiedGivesUp == TypeInv /\ OrderInv /\ Emptied => Stage!GiveUp \/ UNCHANGED Stage!stageVars
<1> SUFFICES ASSUME TypeInv, OrderInv, Emptied PROVE Stage!GiveUp \/ UNCHANGED Stage!stageVars
  OBVIOUS
<1>1. PICK f \in {"lost", "cleared"} : Become(InStage, f)
  BY DEF Emptied
<1>2. \A n \in Messages : (n \in InStage => fate'[n] = f) /\ (n \notin InStage => fate'[n] = fate[n])
  BY <1>1, Becomes
<1>3. InStage \subseteq Messages
  BY HeldIsTyped DEF InStage
<1>4. Gone' = Gone \cup InStage
  <2>1. ASSUME NEW n \in Messages, n \in InStage PROVE fate[n] = "buffered"
    BY <2>1 DEF InStage, OrderInv, HeldInv
  <2> QED
    BY <1>1, <1>2, <1>3, <2>1 DEF Gone
<1>5. Answered' = Answered /\ handed' = handed /\ Held' = <<>>
  BY DEF Emptied, Answered
<1>6. Max(Answered') = Max(Answered)
  BY <1>5
<1>7. CASE Held = <<>>
  <2>1. InStage = {}
    BY <1>7 DEF InStage
  <2> QED
    BY <1>4, <1>5, <1>6, <1>7, <2>1 DEF Stage!stageVars
<1>8. CASE Held # <<>>
  BY <1>4, <1>5, <1>6, <1>8 DEF Stage!GiveUp, Stage!InHeld, InStage
<1> QED
  BY <1>7, <1>8

LEMMA WrittenHandsOver == TypeInv /\ OrderInv /\ Written => Stage!HandOver
<1> SUFFICES ASSUME TypeInv, OrderInv, Written PROVE Stage!HandOver
  OBVIOUS
<1>1. /\ Held \in Seq(Messages) /\ Held # <<>> /\ Head(Held) = Held[1] /\ 1 \in 1..Len(Held)
      /\ Held[1] \in Messages
  BY HeldIsTyped DEF Written
<1>2. \A n \in Messages : /\ n = Held[1] => fate'[n] = "written"
                          /\ n # Held[1] => fate'[n] = fate[n]
  BY <1>1, Becomes DEF Written
<1>3. fate[Held[1]] = "buffered"
  BY <1>1 DEF OrderInv, HeldInv
<1>4. Gone' = Gone
  BY <1>2, <1>3 DEF Gone
<1>5. Answered' = Answered
  BY DEF Written, Answered
<1>6. Max(Answered') = Max(Answered)
  BY <1>5
<1> QED
  BY <1>4, <1>6 DEF Written, Stage!HandOver

LEMMA AcceptedAccepts ==
  ASSUME TypeInv, OrderInv, NEW m \in Messages, Accepted(m) PROVE Stage!Accept
<1>1. Fresh(m)
  BY DEF Accepted
<1>2. \A n \in Messages : (n = m => fate'[n] = "buffered") /\ (n # m => fate'[n] = fate[n])
  BY Becomes DEF Accepted
<1>3. \A n \in Messages : (n = m => entry'[n] = "answered") /\ (n # m => entry'[n] = entry[n])
  BY DEF Accepted, TypeInv, FateType
<1>4. Answered' = Answered \cup {m}
  BY <1>3 DEF Answered
<1>5. m \in Nat /\ Answered \in SUBSET Nat /\ \A n \in Answered : n < m
  BY <1>1, FreshComesLast, AnsweredAreNumbers, BoundsAssumption DEF Messages
<1>6. Max(Answered') = m
  <2>1. Answered \cup {m} \in SUBSET Nat /\ m \in Answered \cup {m}
    BY <1>5
  <2>2. \A n \in Answered \cup {m} : m >= n
    BY <1>5
  <2>3. Max(Answered \cup {m}) = m
    BY <2>1, <2>2, MaxIsUnique
  <2> QED
    BY <1>4, <2>3
<1>7. m > Max(Answered)
  <2>1. Max(Answered) \in Answered
    BY MaxIsGreatest DEF OrderInv, LastInv
  <2> QED
    BY <1>5, <2>1
<1>8. Gone' = Gone
  BY <1>1, <1>2 DEF Gone, Fresh
<1>9. handed' = handed /\ Held' = Append(Held, m)
  BY DEF Accepted
<1> QED
  BY <1>6, <1>7, <1>8, <1>9 DEF Stage!Accept

LEMMA RefusedStutters ==
  ASSUME TypeInv, OrderInv, NEW m \in Messages, Refused(m) PROVE UNCHANGED Stage!stageVars
<1>1. Fresh(m)
  BY DEF Refused
<1>2. \A n \in Messages : (n = m => fate'[n] = "refused") /\ (n # m => fate'[n] = fate[n])
  BY Becomes DEF Refused
<1>3. \A n \in Messages : entry'[n] = "answered" <=> entry[n] = "answered"
  BY <1>1 DEF Refused, TypeInv, FateType, OrderInv, TakenInOrder, Fresh
<1>4. Answered' = Answered
  BY <1>3 DEF Answered
<1>5. Gone' = Gone
  BY <1>1, <1>2 DEF Gone, Fresh
<1>6. Max(Answered') = Max(Answered)
  BY <1>4
<1> QED
  BY <1>5, <1>6 DEF Refused, Stage!stageVars

LEMMA QuietStutters == Quiet => UNCHANGED Stage!stageVars
<1> SUFFICES ASSUME Quiet PROVE UNCHANGED Stage!stageVars
  OBVIOUS
<1>1. Answered' = Answered /\ Gone' = Gone
  BY DEF Quiet, Answered, Gone
<1>2. Max(Answered') = Max(Answered)
  BY <1>1
<1> QED
  BY <1>1, <1>2 DEF Quiet, Stage!stageVars

\* The stage is a sink stage: a message is taken in order, written in that order and
\* once, or given up together with everything held; it never comes back.
THEOREM RefinesSinkStage == Spec => ImplementsSinkStage
<1>1. Init => Stage!Init
  <2> SUFFICES ASSUME Init PROVE Stage!Init
    OBVIOUS
  <2>1. Answered = {0} /\ Gone = {} /\ Held = <<>> /\ handed = <<>>
    BY DEF Init, Answered, Gone, Held
  <2>2. Max({0}) = 0
    BY MaxIsUnique
  <2> QED
    BY <2>1, <2>2 DEF Stage!Init
<1>2. SinkInv /\ [Next]_vars => [Stage!Next]_Stage!stageVars
  BY Kinds, QuietStutters, RefusedStutters, AcceptedAccepts, WrittenHandsOver, EmptiedGivesUp
     DEF SinkInv, OrderInv, StepKind, Stage!Next
<1> QED
  BY <1>1, <1>2, SinkInvariant, PTL DEF Spec, ImplementsSinkStage, Stage!Spec
=============================================================================
