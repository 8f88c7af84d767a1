------------------------------ MODULE SinkStage ------------------------------
(***************************************************************************)
(* What a sink stage of a pipeline promises its driver (sinks.Stage in     *)
(* pipeline/plexecutable/sinks/sink.go), whatever it writes to: a message  *)
(* that Sink has accepted is held, is handed over to the destination in    *)
(* the order of the calls, or is given up together with everything held    *)
(* at that moment.  It is never handed over twice, nor comes back.         *)
(*                                                                         *)
(* Modules KafkaSink and MongoSink implement it.                           *)
(***************************************************************************)
EXTENDS Naturals, Sequences

CONSTANT Messages  \* numbered in the order in which the driver has them

VARIABLES
  last,      \* the last message Sink has accepted, or 0
  held,      \* those still in the stage, in order
  handed,    \* those handed over, in order
  gone       \* those given up, or reported lost by the destination

stageVars == <<last, held, handed, gone>>

InHeld == {held[i] : i \in 1..Len(held)}
InHanded == {handed[i] : i \in 1..Len(handed)}

Init == last = 0 /\ held = <<>> /\ handed = <<>> /\ gone = {}

Accept ==
  /\ \E m \in Messages : m > last /\ last' = m /\ held' = Append(held, m)
  /\ UNCHANGED <<handed, gone>>

HandOver ==
  /\ held # <<>>
  /\ handed' = Append(handed, Head(held))
  /\ held' = Tail(held)
  /\ UNCHANGED <<last, gone>>

\* An error: the destination may or may not have seen the first message held.
GiveUp ==
  /\ held # <<>>
  /\ handed' \in {handed, Append(handed, Head(held))}
  /\ gone' = gone \cup InHeld
  /\ held' = <<>>
  /\ UNCHANGED last

\* The destination reports messages that it had taken and lost.
Report ==
  /\ \E S \in SUBSET InHanded : gone' = gone \cup S
  /\ UNCHANGED <<last, held, handed>>

Next == Accept \/ HandOver \/ GiveUp \/ Report

Spec == Init /\ [][Next]_stageVars
=============================================================================
