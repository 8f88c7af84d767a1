----------------------------- MODULE MongoSink -----------------------------
(***************************************************************************)
(* The Mongo sink of a pipeline (pipeline/plexecutable/sinks/mongosink): a *)
(* stage that turns messages into statements, collects them, and has them  *)
(* written by one bulk write when its driver flushes it.                   *)
(*                                                                         *)
(* External: the driver, which calls the operations of sinks.Stage in any  *)
(* order until it closes the stage, and the server, which carries out the  *)
(* statements of a bulk write in order up to the first that fails, and     *)
(* whose answer may be lost.  A definition may ask for unordered writes,   *)
(* but the options that say so are built and never passed (mongo.go:158),  *)
(* so every bulk write is ordered.  Reset does nothing.                    *)
(***************************************************************************)
EXTENDS Naturals, Sequences, FiniteSetsExt

CONSTANTS
  Operations,   \* the op-types considered
  MaxMessages,  \* bound: the events given to Sink
  MaxDiscarded  \* bound: what the driver reports as discarded

OpTypes == {"insertOne", "replaceOne", "updateOne", "deleteOne"}

ASSUME OperationsAssumption == Operations \subseteq OpTypes
ASSUME BoundsAssumption == MaxMessages \in Nat /\ MaxDiscarded \in Nat

VARIABLES
  op,        \* OpType of the definition
  pc,        \* where the driver's call is
  call,      \* the last call, if it can fail
  err,       \* the error it returned
  count,     \* the number Flush and Clear return
  batch,     \* batch
  todo,      \* the statements of the bulk write the server has not come to
  fate,      \* what became of each event
  entry,     \* the HAR entry of the stage in the case of each event
  handed,    \* history: the statements the server carried out, in order
  announced, \* history: the statements lost before some call returned an error
  server,    \* history: what all the statements carried out did
  result,    \* what those of the current bulk write did, as it is reported
  stats      \* StatsInfo

vars == <<op, pc, call, err, count, batch, todo, fate, entry, handed, announced, server,
          result, stats>>
caller == <<pc, call, err, count>>
written == <<todo, handed, server, result>>

Messages == 1..MaxMessages
Effects == {"inserted", "upserted", "matched", "modified", "deleted"}
NoEffect == [k \in Effects |-> 0]
Fates == {"new", "refused", "buffered", "written", "lost", "cleared"}

Lost == {m \in Messages : fate[m] = "lost"}
InTodo == {todo[i] : i \in 1..Len(todo)}
InBatch == {batch[i] : i \in 1..Len(batch)}
Become(S, f) == fate' = [m \in Messages |-> IF m \in S THEN f ELSE fate[m]]

Init ==
  /\ op \in Operations
  /\ pc = "idle" /\ call = "none" /\ err = FALSE /\ count = 0
  /\ batch = <<>> /\ todo = <<>>
  /\ fate = [m \in Messages |-> "new"]
  /\ entry = [m \in Messages |-> "none"]
  /\ handed = <<>> /\ announced = {}
  /\ server = NoEffect /\ result = NoEffect
  /\ stats = [effects |-> NoEffect, errors |-> 0, bulk |-> 0, discarded |-> 0]

Return(c, e, n) ==
  /\ pc' = "idle" /\ call' = c /\ err' = e /\ count' = n
  /\ announced' = IF e THEN Lost' ELSE announced

-----------------------------------------------------------------------------
Fresh(m) == fate[m] = "new" /\ \A n \in Messages : n < m => fate[n] # "new"

\* Sink gives up while the statement is resolved and parsed, before the entry is
\* made, or when no write model can be made of it, after.
SinkRefuse(m) ==
  /\ pc = "idle" /\ Fresh(m)
  /\ Become({m}, "refused")
  /\ entry' \in {entry, [entry EXCEPT ![m] = "open"]}
  /\ Return("sink", TRUE, 0)
  /\ UNCHANGED <<op, batch, written, stats>>

\* The statement joins the batch, and the entry is answered with 202.
SinkAccept(m) ==
  /\ pc = "idle" /\ Fresh(m)
  /\ Become({m}, "buffered")
  /\ batch' = Append(batch, m)
  /\ entry' = [entry EXCEPT ![m] = "answered"]
  /\ Return("sink", FALSE, 0)
  /\ UNCHANGED <<op, written, stats>>

Clear ==
  /\ pc = "idle"
  /\ Become(InBatch, "cleared")
  /\ batch' = <<>>
  /\ Return("clear", FALSE, Len(batch))
  /\ UNCHANGED <<op, entry, written, stats>>

\* Inc by name: the number replaces the one before.
IncDiscarded(n) ==
  /\ pc = "idle"
  /\ stats' = [stats EXCEPT !.discarded = n]
  /\ UNCHANGED <<op, caller, batch, fate, entry, announced, written>>

\* What the batch holds is neither written nor reported.
Close ==
  /\ pc = "idle" /\ pc' = "closed"
  /\ UNCHANGED <<op, call, err, count, batch, fate, entry, announced, written, stats>>

-----------------------------------------------------------------------------
FlushNothing ==
  /\ pc = "idle" /\ batch = <<>>
  /\ Return("flush", FALSE, 0)
  /\ UNCHANGED <<op, batch, fate, entry, written, stats>>

\* The linked service or the collection cannot be found; no error is counted.
FlushUnlinked ==
  /\ pc = "idle" /\ batch # <<>>
  /\ stats' = [stats EXCEPT !.bulk = Len(batch)]
  /\ Become(InBatch, "lost")
  /\ batch' = <<>>
  /\ Return("flush", TRUE, 0)
  /\ UNCHANGED <<op, entry, written>>

Flush ==
  /\ pc = "idle" /\ batch # <<>>
  /\ stats' = [stats EXCEPT !.bulk = Len(batch)]
  /\ pc' = "write"
  /\ todo' = batch /\ result' = NoEffect
  /\ UNCHANGED <<op, call, err, count, batch, fate, entry, announced, handed, server>>

\* What one statement does to the collection.
Outcomes ==
  CASE op = "insertOne" -> {{"inserted"}}
    [] op = "deleteOne" -> {{}, {"deleted"}}
    [] OTHER -> {{}, {"matched"}, {"matched", "modified"}, {"upserted"}}

Counted(c, S) == [k \in Effects |-> IF k \in S THEN c[k] + 1 ELSE c[k]]

\* External: the server carries out the next statement.
Write ==
  /\ pc = "write" /\ todo # <<>>
  /\ Become({Head(todo)}, "written")
  /\ handed' = Append(handed, Head(todo))
  /\ todo' = Tail(todo)
  /\ \E S \in Outcomes : server' = Counted(server, S) /\ result' = Counted(result, S)
  /\ UNCHANGED <<op, caller, batch, entry, announced, stats>>

\* Mutated BulkWriteFails: the batch is left for the next Flush.
BulkWriteFailsKeepsBatch ==
  /\ pc = "write"
  /\ todo' = <<>>
  /\ UNCHANGED <<op, batch, fate, entry, handed, server, result>>
  /\ stats' = [stats EXCEPT !.errors = @ + 1]
  /\ Return("flush", TRUE, 0)

\* Mutated BulkWriteFails: the error is counted and not returned.
BulkWriteFailsSwallowed ==
  /\ pc = "write"
  /\ Become(InTodo, "lost")
  /\ batch' = <<>> /\ todo' = <<>>
  /\ stats' = [stats EXCEPT !.errors = @ + 1]
  /\ Return("flush", FALSE, 0)
  /\ UNCHANGED <<op, entry, handed, server, result>>

\* A statement fails, or the answer does not arrive; the batch is dropped with
\* the statements that may have been carried out.
BulkWriteFails ==
  /\ pc = "write"
  /\ Become(InTodo, "lost")
  /\ batch' = <<>> /\ todo' = <<>>
  /\ stats' = [stats EXCEPT !.errors = @ + 1]
  /\ Return("flush", TRUE, 0)
  /\ UNCHANGED <<op, entry, handed, server, result>>

\* Mutated BulkWriteEnds: the counters are those of the last bulk write.
BulkWriteEndsAssigns ==
  /\ pc = "write" /\ todo = <<>>
  /\ stats' = [stats EXCEPT !.effects = result]
  /\ batch' = <<>>
  /\ Return("flush", FALSE, Len(batch))
  /\ UNCHANGED <<op, fate, entry, written>>

BulkWriteEnds ==
  /\ pc = "write" /\ todo = <<>>
  /\ stats' = [stats EXCEPT !.effects = [k \in Effects |-> @[k] + result[k]]]
  /\ batch' = <<>>
  /\ Return("flush", FALSE, Len(batch))
  /\ UNCHANGED <<op, fate, entry, written>>

BulkWrite == Write \/ BulkWriteFails \/ BulkWriteEnds

Next ==
  \/ \E m \in Messages : SinkRefuse(m) \/ SinkAccept(m)
  \/ \E n \in 0..MaxDiscarded : IncDiscarded(n)
  \/ Clear \/ FlushNothing \/ FlushUnlinked \/ Flush \/ BulkWrite \/ Close

\* A bulk write comes to an end; nobody has to call the stage.
Spec == Init /\ [][Next]_vars /\ WF_vars(BulkWrite)

-----------------------------------------------------------------------------
TypeOK ==
  /\ op \in Operations
  /\ pc \in {"idle", "write", "closed"}
  /\ call \in {"none", "sink", "clear", "flush"} /\ err \in BOOLEAN
  /\ count \in 0..MaxMessages
  /\ batch \in Seq(Messages) /\ todo \in Seq(Messages)
  /\ fate \in [Messages -> Fates]
  /\ entry \in [Messages -> {"none", "open", "answered"}]
  /\ handed \in Seq(Messages) /\ announced \subseteq Messages
  /\ server \in [Effects -> 0..MaxMessages] /\ result \in [Effects -> 0..MaxMessages]
  /\ stats \in [effects : [Effects -> 0..MaxMessages], errors : 0..MaxMessages,
                bulk : 0..MaxMessages, discarded : 0..MaxDiscarded]

\* No statement is lost without an error of Flush, and a Flush that returns nil
\* leaves nothing behind, so that the driver can move its checkpoint.
FlushTellsTheTruth ==
  pc = "idle" =>
    /\ Lost \subseteq announced
    /\ call = "flush" /\ ~err => batch = <<>> /\ \A m \in Messages : fate[m] # "buffered"

\* As long as no error is counted, the counters are what has been done to the
\* collection; afterwards they can only be below it, because the part of a failed
\* bulk write that was carried out is never counted (IncErrors, Update).
CountersTrusted ==
  pc # "write" =>
    /\ stats.errors = 0 => stats.effects = server
    /\ \A k \in Effects : stats.effects[k] =< server[k]

\* What is still in the stage: the batch or, in a bulk write, its rest.
Held == IF pc = "write" THEN todo ELSE batch
Answered == {0} \cup {m \in Messages : entry[m] = "answered"}
Gone == {m \in Messages : fate[m] \in {"lost", "cleared"}}

\* The stage is a sink stage: in order, nothing twice, nothing brought back.
Stage == INSTANCE SinkStage WITH
  last <- Max(Answered), held <- Held, handed <- handed, gone <- Gone
ImplementsSinkStage == Stage!Spec
=============================================================================
