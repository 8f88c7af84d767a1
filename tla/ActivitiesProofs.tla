-------------------------- MODULE ActivitiesProofs --------------------------
(***************************************************************************)
(* For every set of cases, activities, names and configurations: types;    *)
(* expressions are evaluated on the entry used last; cases that share the  *)
(* caches do not share answers.                                            *)
(***************************************************************************)
EXTENDS Activities, SequenceTheorems, TLAPS

(***************************************************************************)
(* Types.  An action changes the evaluation, and the rest of the state.    *)
(***************************************************************************)
EvaluationType ==
  /\ evaluator \in [Cases -> [name : Names \cup {NoName}, at : Nat]]
  /\ read \in [Cases -> [name : Names \cup {NoName}, at : Nat, last : Nat, before : Nat]]

RunType ==
  /\ run \in [Cases -> [act : Activities, ex : Nat, before : Nat]]
  /\ \A c \in Cases : run[c].ex \in 1..Len(Exchanges(c))

ControlType ==
  /\ cfg \in Configs /\ asks \in [Cases -> Requests]
  /\ pc \in [Cases -> Places] /\ runs \in [Cases -> Nat]

DataType ==
  /\ entries \in [Cases -> [Names -> Seq(Answers)]]
  /\ resp \in [Cases -> Answers] /\ key \in [Cases -> Keys]
  /\ cache \in [Keys -> Answers] /\ reply \in [Cases -> Answers]

\* TypeOK is its four parts.
LEMMA TypeParts == TypeOK <=> EvaluationType /\ RunType /\ ControlType /\ DataType
BY DEF TypeOK, EvaluationType, RunType, ControlType, DataType

RestType == RunType /\ ControlType /\ DataType

\* The exchange a case is at, and what its activity reads.
LEMMA ExchangeType ==
  ASSUME RunType, ControlType, NEW c \in Cases
  PROVE  /\ run[c].act \in Activities
         /\ Exchanges(c) \in Seq(Exchange)
         /\ X(c).name \in Names /\ X(c).missed \in Names
         /\ X(c).template \in Templates \cup {NoTemplate}
         /\ Inputs(c) \subseteq Names
<1>1. cfg \in ConfigType
  BY ConfigsAssumption DEF ControlType
<1>2. run[c].act \in Activities
  BY DEF RunType
<1>3. Exchanges(c) \in Seq(Exchange) /\ Inputs(c) \subseteq Names
  BY <1>1, <1>2 DEF ConfigType, Exchanges, Inputs
<1>4. X(c) \in Exchange
  BY <1>3 DEF RunType, X
<1> QED
  BY <1>2, <1>3, <1>4 DEF Exchange

\* What a case is given is an answer.
LEMMA AnswerType ==
  ASSUME ControlType, NEW c \in Cases
  PROVE  /\ \A s \in {"ok", "error", "miss"} : Answer(c, s) \in Answers
         /\ NoAnswer \in Answers /\ Open \in Answers /\ Miss \in Answers /\ NoKey \in Keys
<1>1. asks[c] \in Requests
  BY DEF ControlType
<1>2. \A s \in {"ok", "error", "miss"} : Answer(c, s) \in Answers
  BY <1>1 DEF Answer, Answers
<1>3. NoAnswer \in Answers /\ Open \in Answers /\ Miss \in Answers
  BY DEF NoAnswer, Open, Miss, Answers
<1>4. NoKey \in Keys
  BY DEF NoKey, Keys
<1> QED
  BY <1>2, <1>3, <1>4

\* A step of the program counter.
LEMMA GotoType ==
  ASSUME ControlType, NEW c \in Cases, NEW p \in Places, Goto(c, p), UNCHANGED <<cfg, asks, runs>>
  PROVE  ControlType'
<1>1. pc' \in [Cases -> Places]
  BY DEF ControlType, Goto
<1> QED
  BY <1>1 DEF ControlType

\* The run stays.
LEMMA RunStays ==
  ASSUME RunType, UNCHANGED <<cfg, run>>
  PROVE  RunType'
BY DEF RunType, Exchanges

\* Evaluating the entry of a name, or failing to.
LEMMA EvaluateType ==
  ASSUME EvaluationType, DataType, NEW c \in Cases, NEW n \in Names, NEW b \in Nat
  PROVE  /\ EvaluatedAt(c, n) \in Nat
         /\ Reading(c, n, b) => read' \in [Cases -> [name : Names \cup {NoName}, at : Nat,
                                                     last : Nat, before : Nat]]
         /\ Evaluate(c, n, b) \/ EvaluateFails(c, n) => EvaluationType'
<1>1. Len(entries[c][n]) \in Nat
  BY DEF DataType
<1>2. EvaluatedAt(c, n) \in Nat
  BY <1>1 DEF EvaluationType, EvaluatedAt
<1>3. ASSUME Reading(c, n, b)
      PROVE  read' \in [Cases -> [name : Names \cup {NoName}, at : Nat, last : Nat, before : Nat]]
  BY <1>1, <1>2, <1>3 DEF EvaluationType, Reading
<1>4. ASSUME Evaluate(c, n, b) PROVE EvaluationType'
  BY <1>2, <1>3, <1>4 DEF EvaluationType, Evaluate
<1>5. ASSUME EvaluateFails(c, n) PROVE EvaluationType'
  BY <1>5 DEF EvaluationType, EvaluateFails, NoEvaluator
<1> QED
  BY <1>2, <1>3, <1>4, <1>5

\* No evaluation.
LEMMA EvaluationStays ==
  ASSUME EvaluationType, UNCHANGED evaluation
  PROVE  EvaluationType'
BY DEF EvaluationType, evaluation

\* The last element of a sequence replaced.
LEMMA LastReplaced ==
  ASSUME NEW S, NEW s \in Seq(S), NEW r \in S
  PROVE  /\ [s EXCEPT ![Len(s)] = r] \in Seq(S)
         /\ Len([s EXCEPT ![Len(s)] = r]) = Len(s)
         /\ \A i \in 1..Len(s) : [s EXCEPT ![Len(s)] = r][i] \in {s[i], r}
<1>1. CASE s = <<>>
  <2>1. [s EXCEPT ![Len(s)] = r] = s
    BY <1>1
  <2> QED
    BY <2>1
<1>2. CASE s # <<>>
  <2>1. Len(s) \in 1..Len(s)
    BY <1>2, EmptySeq
  <2> QED
    BY <2>1, ExceptSeq
<1> QED
  BY <1>1, <1>2

\* Entries added, or answered.
LEMMA EntriesType ==
  ASSUME DataType, NEW c \in Cases, NEW n \in Names, NEW r \in Answers
  PROVE  /\ [entries EXCEPT ![c][n] = Append(@, r)] \in [Cases -> [Names -> Seq(Answers)]]
         /\ [entries EXCEPT ![c][n] = [@ EXCEPT ![Len(@)] = r]]
              \in [Cases -> [Names -> Seq(Answers)]]
<1>1. entries[c][n] \in Seq(Answers)
  BY DEF DataType
<1>2. Append(entries[c][n], r) \in Seq(Answers)
  BY <1>1
<1>3. [entries[c][n] EXCEPT ![Len(entries[c][n])] = r] \in Seq(Answers)
  BY <1>1, LastReplaced
<1>4. ASSUME NEW s \in Seq(Answers)
      PROVE  [entries EXCEPT ![c][n] = s] \in [Cases -> [Names -> Seq(Answers)]]
  BY <1>4 DEF DataType
<1>5. [entries EXCEPT ![c][n] = Append(@, r)] = [entries EXCEPT ![c][n] = Append(entries[c][n], r)]
  BY DEF DataType
<1>6. [entries EXCEPT ![c][n] = [@ EXCEPT ![Len(@)] = r]]
        = [entries EXCEPT ![c][n] = [entries[c][n] EXCEPT ![Len(entries[c][n])] = r]]
  BY DEF DataType
<1> QED
  BY <1>2, <1>3, <1>4, <1>5, <1>6

\* An entry, with the answer of the exchange.
LEMMA AddEntryType ==
  ASSUME DataType, NEW c \in Cases, NEW n \in Names, NEW r \in Answers,
         AddEntry(c, n, r), UNCHANGED <<key, cache, reply>>
  PROVE  DataType'
<1>1. entries' \in [Cases -> [Names -> Seq(Answers)]]
  BY EntriesType DEF AddEntry
<1>2. resp' \in [Cases -> Answers]
  BY DEF DataType, AddEntry
<1> QED
  BY <1>1, <1>2 DEF DataType

\* The request and the response of an exchange.
LEMMA SetRequestType ==
  ASSUME RestType, NEW c \in Cases, SetRequest(c)
  PROVE  RestType'
<1>1. X(c).name \in Names /\ Open \in Answers
  BY ExchangeType, AnswerType DEF RestType
<1>2. entries' \in [Cases -> [Names -> Seq(Answers)]]
  BY <1>1, EntriesType DEF RestType, SetRequest
<1>3. ControlType'
  BY GotoType DEF RestType, SetRequest, Places
<1>4. RunType'
  BY RunStays DEF RestType, SetRequest
<1> QED
  BY <1>2, <1>3, <1>4 DEF RestType, DataType, SetRequest

LEMMA SetResponseType ==
  ASSUME RestType, NEW c \in Cases, NEW r \in Answers, SetResponse(c, r)
  PROVE  RestType'
<1>1. X(c).name \in Names
  BY ExchangeType DEF RestType
<1>2. entries' \in [Cases -> [Names -> Seq(Answers)]]
  BY <1>1, EntriesType DEF RestType, SetResponse
<1>3. resp' \in [Cases -> Answers]
  BY DEF RestType, DataType, SetResponse
<1>4. ControlType'
  BY GotoType DEF RestType, SetResponse, Places
<1>5. RunType'
  BY RunStays DEF RestType, SetResponse
<1> QED
  BY <1>2, <1>3, <1>4, <1>5 DEF RestType, DataType, SetResponse

\* Only the program counter moves, to a place of the handler.
LEMMA MoveType ==
  ASSUME RestType, NEW c \in Cases, NEW p \in Places, Goto(c, p),
         UNCHANGED <<cfg, asks, run, runs, entries, resp, key, cache, reply>>
  PROVE  RestType'
<1>1. ControlType'
  BY GotoType DEF RestType
<1>2. RunType'
  BY RunStays DEF RestType
<1> QED
  BY <1>1, <1>2 DEF RestType, DataType

\* A handler gives up, or crashes.
LEMMA StopType ==
  ASSUME RestType, NEW c \in Cases, GiveUp(c) \/ Crash(c)
  PROVE  RestType'
<1>1. CASE GiveUp(c)
  BY <1>1, MoveType DEF GiveUp, Return, Places
<1>2. CASE Crash(c)
  BY <1>2, MoveType DEF Crash, Places
<1> QED
  BY <1>1, <1>2

\* A status without an entry.
LEMMA UnrecordedType ==
  ASSUME RestType, NEW c \in Cases, NEW s \in {"ok", "error", "miss"}, Unrecorded(c, s),
         UNCHANGED <<cfg, asks, run, runs, entries, key, cache, reply>>
  PROVE  RestType'
<1>1. Answer(c, s) \in Answers
  BY AnswerType DEF RestType
<1>2. resp' \in [Cases -> Answers]
  BY <1>1 DEF RestType, DataType, Unrecorded
<1>3. ControlType'
  BY GotoType DEF RestType, Unrecorded, Places
<1>4. RunType'
  BY RunStays DEF RestType
<1> QED
  BY <1>2, <1>3, <1>4 DEF RestType, DataType

\* A key, resolved or not.
LEMMA AtKeyType ==
  ASSUME RestType, EvaluationType, NEW c \in Cases, NEW k \in Keys, NEW p \in Places, AtKey(c, k, p)
  PROVE  RestType' /\ EvaluationType'
<1>1. key' \in [Cases -> Keys]
  BY DEF RestType, DataType, AtKey
<1>2. ControlType'
  BY GotoType DEF RestType, AtKey
<1>3. RunType'
  BY RunStays DEF RestType, AtKey
<1>4. EvaluationType'
  BY EvaluationStays DEF AtKey
<1> QED
  BY <1>1, <1>2, <1>3, <1>4 DEF RestType, DataType, AtKey

\* The keys of an exchange.
LEMMA KeyType ==
  ASSUME RestType, NEW c \in Cases
  PROVE  Resolved(c) \in Keys /\ Raw(c) \in Keys /\ NoKey \in Keys
<1>1. X(c).template \in Templates \cup {NoTemplate} /\ asks[c] \in Requests
  BY ExchangeType DEF RestType, ControlType
<1> QED
  BY <1>1 DEF Resolved, Raw, NoKey, Keys

\* The start of an exchange.
LEMMA StartType ==
  ASSUME RestType, NEW c \in Cases, NEW a \in Activities, NEW i \in 1..Len(cfg.exchanges[a]),
         StartExchange(c, a, i), ControlType', UNCHANGED <<cfg, entries, cache, reply>>
  PROVE  RestType'
<1>1. cfg.exchanges[a] \in Seq(Exchange)
  BY ConfigsAssumption DEF RestType, ControlType, ConfigType
<1>2. cfg.exchanges[a][i] \in Exchange /\ i \in Nat
  BY <1>1, ElementOfSeq, LenProperties
<1>3. Len(entries[c][cfg.exchanges[a][i].name]) \in Nat
  BY <1>2 DEF RestType, DataType, Exchange
<1>4. run' \in [Cases -> [act : Activities, ex : Nat, before : Nat]]
  BY <1>2, <1>3 DEF RestType, RunType, StartExchange
<1>5. ASSUME NEW d \in Cases PROVE run'[d].ex \in 1..Len(Exchanges(d)')
  BY DEF RestType, RunType, StartExchange, Exchanges
<1>6. resp' \in [Cases -> Answers] /\ key' \in [Cases -> Keys]
  BY AnswerType DEF RestType, DataType, StartExchange
<1> QED
  BY <1>4, <1>5, <1>6 DEF RestType, RunType, DataType

\* What is stored, and what the caller is given.
LEMMA StoredType ==
  ASSUME DataType, NEW c \in Cases, NEW r \in Answers, NEW b \in BOOLEAN, Stored(c, r, b)
  PROVE  cache' \in [Keys -> Answers]
BY DEF DataType, Stored

LEMMA ReplyType ==
  ASSUME RestType, NEW c \in Cases, NEW r \in Answers, Reply(c, r), cache' \in [Keys -> Answers]
  PROVE  RestType'
<1>1. reply' \in [Cases -> Answers]
  BY DEF RestType, DataType, Reply
<1>2. ControlType'
  BY GotoType DEF RestType, Reply, Return, Places
<1>3. RunType'
  BY RunStays DEF RestType, Reply
<1> QED
  BY <1>1, <1>2, <1>3 DEF RestType, DataType, Reply

(***************************************************************************)
(* The actions.                                                            *)
(***************************************************************************)
Typed == RestType /\ EvaluationType

LEMMA InputType ==
  ASSUME Typed, NEW c \in Cases, NEW n \in Inputs(c)
  PROVE  n \in Names /\ (Evaluate(c, n, 0) \/ EvaluateFails(c, n) => EvaluationType')
<1>1. n \in Names
  BY ExchangeType DEF Typed, RestType
<1> QED
  BY <1>1, EvaluateType DEF Typed, RestType

LEMMA FrameType ==
  ASSUME Typed, NEW c \in Cases,
         (\E a \in Activities : Begin(c, a)) \/ Leave(c) \/ SetVars(c) \/ ReadInput(c) \/ Panic(c)
  PROVE  Typed'
<1>1. ASSUME NEW a \in Activities, Begin(c, a) PROVE Typed'
  <2>1. 1 \in 1..Len(cfg.exchanges[a])
    <3>1. cfg.exchanges[a] \in Seq(Exchange) /\ cfg.exchanges[a] # <<>>
      BY ConfigsAssumption DEF Typed, RestType, ControlType, ConfigType
    <3> QED
      BY <3>1
  <2>2. ControlType'
    <3>1. pc' \in [Cases -> Places]
      BY <1>1 DEF Typed, RestType, ControlType, Begin, Goto, Places
    <3>2. runs' \in [Cases -> Nat]
      BY <1>1 DEF Typed, RestType, ControlType, Begin
    <3> QED
      BY <1>1, <3>1, <3>2 DEF Typed, RestType, ControlType, Begin
  <2>3. RestType'
    BY <1>1, <2>1, <2>2, StartType DEF Typed, Begin
  <2>4. EvaluationType'
    BY <1>1, EvaluationStays DEF Typed, Begin
  <2> QED
    BY <2>3, <2>4 DEF Typed
<1>2. CASE Leave(c)
  <2>1. RestType'
    BY <1>2, StopType DEF Typed, Leave
  <2>2. EvaluationType'
    BY <1>2, EvaluationStays DEF Typed, Leave
  <2> QED
    BY <2>1, <2>2 DEF Typed
<1>3. CASE SetVars(c)
  <2>1. \E p \in Places : Goto(c, p)
    BY <1>3 DEF SetVars, Return, Places
  <2>2. RestType'
    BY <1>3, <2>1, MoveType DEF Typed, SetVars
  <2>3. EvaluationType'
    BY <1>3, InputType, EvaluationStays DEF SetVars, Typed
  <2> QED
    BY <2>2, <2>3 DEF Typed
<1>4. CASE ReadInput(c)
  <2>1. \E p \in Places : Goto(c, p)
    BY <1>4 DEF ReadInput, Return, AfterInput, Places
  <2>2. RestType'
    BY <1>4, <2>1, MoveType DEF Typed, ReadInput
  <2>3. EvaluationType'
    BY <1>4, InputType DEF ReadInput
  <2> QED
    BY <2>2, <2>3 DEF Typed
<1>5. CASE Panic(c)
  <2>1. RestType'
    BY <1>5, StopType DEF Typed, Panic
  <2>2. EvaluationType'
    BY <1>5, EvaluationStays DEF Typed, Panic
  <2> QED
    BY <2>1, <2>2 DEF Typed
<1> QED
  BY <1>1, <1>2, <1>3, <1>4, <1>5

LEMMA ActionsType ==
  ASSUME Typed, NEW c \in Cases, ProcessResponseAction(c)
  PROVE  Typed'
<1>1. X(c).name \in Names /\ run[c].before \in Nat /\ run[c].act \in Activities
  BY ExchangeType DEF Typed, RestType, RunType
<1>2. EvaluationType'
  BY <1>1, EvaluateType, EvaluationStays DEF ProcessResponseAction, Typed, RestType
<1>3. CASE Proceed(c)
  <2>1. CASE run[c].ex < Len(Exchanges(c))
    <3>1. Exchanges(c) \in Seq(Exchange) /\ run[c].ex \in Nat
      BY ExchangeType DEF Typed, RestType, RunType
    <3>2. run[c].ex + 1 \in 1..Len(cfg.exchanges[run[c].act])
      BY <2>1, <3>1 DEF Exchanges
    <3>3. Goto(c, "input") /\ StartExchange(c, run[c].act, run[c].ex + 1)
      BY <1>3, <2>1 DEF Proceed
    <3>4. ControlType'
      BY <3>3, GotoType DEF ProcessResponseAction, Typed, RestType, Places
    <3>5. RestType'
      BY <1>1, <3>2, <3>3, <3>4, StartType DEF ProcessResponseAction, Typed
    <3> QED
      BY <1>2, <3>5 DEF Typed
  <2>2. CASE ~(run[c].ex < Len(Exchanges(c)))
    <3>1. RestType'
      BY <1>3, <2>2, MoveType DEF Proceed, ProcessResponseAction, Return, Typed, Places
    <3> QED
      BY <1>2, <3>1 DEF Typed
  <2> QED
    BY <2>1, <2>2
<1>4. CASE Return(c) /\ UNCHANGED <<run, resp, key>>
  <2>1. RestType'
    BY <1>4, MoveType DEF ProcessResponseAction, Return, Typed, Places
  <2> QED
    BY <1>2, <2>1 DEF Typed
<1> QED
  BY <1>3, <1>4 DEF ProcessResponseAction

LEMMA CachesType ==
  ASSUME Typed, NEW c \in Cases,
         ResolveCacheConfig(c) \/ ResolveResponseFromCache(c) \/ SaveResponseToCache(c)
           \/ CacheKey(c) \/ ExecuteGet(c) \/ ExecuteSet(c)
  PROVE  Typed'
<1>1. /\ X(c).name \in Names /\ X(c).missed \in Names
      /\ key[c] \in Keys /\ cache[key[c]] \in Answers /\ resp[c] \in Answers
      /\ \A s \in {"ok", "error", "miss"} : Answer(c, s) \in Answers
      /\ Miss \in Answers
  BY ExchangeType, AnswerType DEF Typed, RestType, DataType
<1>2. ASSUME NEW n \in Names, NEW r \in Answers, AddEntry(c, n, r), NEW p \in Places, Goto(c, p),
             UNCHANGED <<cfg, asks, run, runs, evaluation, key, cache, reply>>
      PROVE  Typed'
  <2>1. DataType'
    BY <1>2, AddEntryType DEF Typed, RestType
  <2>2. ControlType'
    BY <1>2, GotoType DEF Typed, RestType
  <2>3. RunType' /\ EvaluationType'
    BY <1>2, RunStays, EvaluationStays DEF Typed, RestType
  <2> QED
    BY <2>1, <2>2, <2>3 DEF Typed, RestType
<1>3. ASSUME UNCHANGED <<cfg, asks, run, runs, entries, resp, evaluation, key, cache, reply>>,
             NEW p \in Places, Goto(c, p)
      PROVE  Typed'
  BY <1>3, MoveType, EvaluationStays DEF Typed
<1>4. CASE ResolveCacheConfig(c)
  BY <1>4, AtKeyType, KeyType DEF ResolveCacheConfig, Typed, Places
<1>5. CASE ResolveResponseFromCache(c)
  BY <1>1, <1>2, <1>3, <1>5 DEF ResolveResponseFromCache, Return, Places
<1>6. CASE SaveResponseToCache(c)
  <2>1. cache' \in [Keys -> Answers]
    BY <1>1, <1>6, StoredType DEF SaveResponseToCache, Typed, RestType
  <2>2. ControlType'
    BY <1>6, GotoType DEF SaveResponseToCache, Typed, RestType, Places
  <2>3. RunType' /\ EvaluationType'
    BY <1>6, RunStays, EvaluationStays DEF SaveResponseToCache, Typed, RestType
  <2> QED
    BY <1>6, <2>1, <2>2, <2>3 DEF SaveResponseToCache, Typed, RestType, DataType
<1>7. CASE CacheKey(c)
  BY <1>7, AtKeyType, KeyType DEF CacheKey, Typed, Places
<1>8. CASE ExecuteGet(c)
  BY <1>1, <1>2, <1>3, <1>8 DEF ExecuteGet, Return, Places
<1>9. CASE ExecuteSet(c)
  <2>1. PICK b \in BOOLEAN :
          /\ Stored(c, Answer(c, "ok"), b)
          /\ AddEntry(c, X(c).name, Answer(c, IF b THEN "ok" ELSE "error"))
    BY <1>9 DEF ExecuteSet
  <2>2. cache' \in [Keys -> Answers]
    BY <1>1, <2>1, StoredType DEF Typed, RestType
  <2>3. PICK r \in Answers : AddEntry(c, X(c).name, r)
    BY <1>1, <2>1
  <2>4. entries' \in [Cases -> [Names -> Seq(Answers)]]
    BY <1>1, <2>3, EntriesType DEF AddEntry, Typed, RestType
  <2>5. resp' \in [Cases -> Answers]
    BY <2>3 DEF AddEntry, Typed, RestType, DataType
  <2>6. ControlType'
    BY <1>9, GotoType DEF ExecuteSet, Typed, RestType, Places
  <2>7. RunType' /\ EvaluationType'
    BY <1>9, RunStays, EvaluationStays DEF ExecuteSet, Typed, RestType
  <2> QED
    BY <1>9, <2>2, <2>4, <2>5, <2>6, <2>7 DEF ExecuteSet, Typed, RestType, DataType
<1> QED
  BY <1>4, <1>5, <1>6, <1>7, <1>8, <1>9

\* An exchange recorded, without an evaluation.
LEMMA RecordedType ==
  ASSUME Typed, NEW c \in Cases, UNCHANGED evaluation,
         SetRequest(c) \/ GiveUp(c) \/ Crash(c) \/ \E r \in Answers : SetResponse(c, r)
  PROVE  Typed'
<1>1. EvaluationType'
  BY EvaluationStays DEF Typed
<1>2. RestType'
  BY SetRequestType, StopType, SetResponseType DEF Typed
<1> QED
  BY <1>1, <1>2 DEF Typed

LEMMA ServiceType ==
  ASSUME Typed, NEW c \in Cases,
         EndpointRequest(c) \/ EndpointInvoke(c) \/ MongoRequest(c) \/ MongoInvoke(c)
  PROVE  Typed'
<1>1. /\ \A s \in {"ok", "error", "miss"} : Answer(c, s) \in Answers
      /\ Miss \in Answers
  BY AnswerType DEF Typed, RestType
<1>2. CASE EndpointRequest(c)
  <2>1. RestType'
    BY <1>2, SetRequestType, StopType DEF EndpointRequest, Typed
  <2>2. EvaluationType'
    BY <1>2, InputType DEF EndpointRequest
  <2> QED
    BY <2>1, <2>2 DEF Typed
<1>3. CASE EndpointInvoke(c)
  BY <1>1, <1>3, RecordedType DEF EndpointInvoke
<1>4. CASE MongoRequest(c)
  <2>1. RestType'
    BY <1>4, SetRequestType, StopType DEF MongoRequest, Typed
  <2>2. EvaluationType'
    BY <1>4, InputType, EvaluationStays DEF MongoRequest, Typed
  <2> QED
    BY <2>1, <2>2 DEF Typed
<1>5. CASE MongoInvoke(c)
  BY <1>1, <1>5, RecordedType DEF MongoInvoke
<1> QED
  BY <1>2, <1>3, <1>4, <1>5

LEMMA LocalType ==
  ASSUME Typed, NEW c \in Cases,
         KafkaExecute(c) \/ ScriptExecute(c) \/ EchoExecute(c) \/ JsonSchemaExecute(c)
           \/ TransformExecute(c) \/ RequestExecute(c)
  PROVE  Typed'
<1>1. \A s \in {"ok", "error", "miss"} : Answer(c, s) \in Answers
  BY AnswerType DEF Typed, RestType
<1>2. CASE KafkaExecute(c)
  BY <1>1, <1>2, FrameType, RecordedType DEF KafkaExecute, KafkaProduce
<1>3. CASE ScriptExecute(c)
  <2>1. CASE ComputeScript(c)
    <3>1. RestType'
      BY <2>1, MoveType, UnrecordedType DEF ComputeScript, Typed, Places
    <3>2. EvaluationType'
      BY <2>1, InputType DEF ComputeScript
    <3> QED
      BY <3>1, <3>2 DEF Typed
  <2>2. CASE RunScript(c)
    <3>1. CASE Unrecorded(c, "ok") /\ UNCHANGED <<cfg, asks, run, runs, entries, key, cache, reply>>
      BY <2>2, <3>1, UnrecordedType, EvaluationStays DEF RunScript, Typed
    <3> QED
      BY <1>1, <2>2, <3>1, RecordedType DEF RunScript
  <2> QED
    BY <1>3, <2>1, <2>2, RecordedType DEF ScriptExecute
<1>4. CASE EchoExecute(c)
  <2>1. CASE Unrecorded(c, "ok") /\ UNCHANGED <<cfg, asks, run, runs, entries, key, cache, reply>>
    BY <1>4, <2>1, UnrecordedType, EvaluationStays DEF EchoExecute, Typed
  <2> QED
    BY <1>1, <1>4, <2>1, RecordedType DEF EchoExecute
<1>5. CASE JsonSchemaExecute(c)
  BY <1>1, <1>5, RecordedType DEF JsonSchemaExecute
<1>6. CASE TransformExecute(c)
  <2>1. CASE SetRequest(c) /\ UNCHANGED evaluation
    BY <2>1, RecordedType
  <2>2. ASSUME NEW n \in Inputs(c), NEW s \in {"ok", "error"}, Reading(c, n, 0),
               evaluator' = [evaluator EXCEPT ![c] = Transformed(n)], SetResponse(c, Answer(c, s))
        PROVE  Typed'
    <3>1. RestType'
      BY <1>1, <2>2, SetResponseType DEF Typed
    <3>2. n \in Names
      BY InputType
    <3>3. read' \in [Cases -> [name : Names \cup {NoName}, at : Nat, last : Nat, before : Nat]]
      BY <2>2, <3>2, EvaluateType DEF Typed, RestType
    <3>4. evaluator' \in [Cases -> [name : Names \cup {NoName}, at : Nat]]
      BY <2>2 DEF Typed, EvaluationType, Transformed, NoEvaluator
    <3> QED
      BY <3>1, <3>3, <3>4 DEF Typed, EvaluationType
  <2>3. ASSUME NEW n \in Inputs(c), EvaluateFails(c, n), SetResponse(c, Answer(c, "error"))
        PROVE  Typed'
    BY <1>1, <2>3, SetResponseType, InputType DEF Typed
  <2> QED
    BY <1>6, <2>1, <2>2, <2>3 DEF TransformExecute, TransformInvoke
<1>7. CASE RequestExecute(c)
  BY <1>7, RecordedType DEF RequestExecute
<1> QED
  BY <1>2, <1>3, <1>4, <1>5, <1>6, <1>7

LEMMA ResponseType ==
  ASSUME Typed, NEW c \in Cases, ResponseJSON(c)
  PROVE  Typed'
<1>1. /\ \A s \in {"ok", "error", "miss"} : Answer(c, s) \in Answers
      /\ key[c] \in Keys /\ cache[key[c]] \in Answers /\ cache \in [Keys -> Answers]
  BY AnswerType DEF Typed, RestType, DataType
<1>2. CASE SelectResponse(c)
  <2>1. RestType'
    <3>1. CASE \E r \in Answers : Reply(c, r)
      BY <1>1, <1>2, <3>1, ReplyType DEF SelectResponse, Typed
    <3>2. CASE Goto(c, "resolve") /\ UNCHANGED <<cfg, asks, run, runs, entries, resp, key, reply>>
      BY <1>2, <3>2, MoveType DEF SelectResponse, Typed, Places
    <3> QED
      BY <1>1, <1>2, <3>1, <3>2 DEF SelectResponse
  <2>2. EvaluationType'
    BY <1>2, InputType DEF SelectResponse
  <2> QED
    BY <2>1, <2>2 DEF Typed
<1>3. ASSUME NEW p \in Places, AtKey(c, Resolved(c), p) PROVE Typed'
  BY <1>3, AtKeyType, KeyType DEF Typed
<1>4. CASE GetCachedResponse(c)
  <2>1. \E r \in Answers : Reply(c, r)
    BY <1>1, <1>4 DEF GetCachedResponse
  <2>2. RestType'
    BY <1>1, <1>4, <2>1, ReplyType DEF GetCachedResponse, Typed
  <2>3. EvaluationType'
    BY <1>4, EvaluationStays DEF GetCachedResponse, Typed, Reply
  <2> QED
    BY <2>2, <2>3 DEF Typed
<1>5. CASE SetCachedResponse(c)
  <2>1. cache' \in [Keys -> Answers]
    BY <1>1, <1>5, StoredType DEF SetCachedResponse, Typed, RestType
  <2>2. RestType'
    BY <1>1, <1>5, <2>1, ReplyType DEF SetCachedResponse, Typed
  <2>3. EvaluationType'
    BY <1>5, EvaluationStays DEF SetCachedResponse, Typed
  <2> QED
    BY <2>2, <2>3 DEF Typed
<1> QED
  BY <1>2, <1>3, <1>4, <1>5 DEF ResponseJSON, Places

LEMMA StepType ==
  ASSUME Typed, NEW c \in Cases, Step(c)
  PROVE  Typed'
<1>1. CASE EndpointExecute(c)
  BY <1>1, FrameType, CachesType, ServiceType DEF EndpointExecute
<1>2. CASE MongoExecute(c)
  BY <1>2, FrameType, CachesType, ServiceType DEF MongoExecute
<1>3. CASE CacheExecute(c)
  BY <1>3, FrameType, CachesType DEF CacheExecute
<1> QED
  BY <1>1, <1>2, <1>3, FrameType, ActionsType, LocalType, ResponseType DEF Step

LEMMA NextType ==
  ASSUME Typed, [Next]_vars
  PROVE  Typed'
<1>1. CASE UNCHANGED vars
  BY <1>1 DEF vars, Typed, RestType, ControlType, DataType, EvaluationType, RunType, Exchanges
<1>2. ASSUME NEW k \in Keys, Expire(k) PROVE Typed'
  <2>1. cache' \in [Keys -> Answers]
    BY <1>2 DEF Expire, Typed, RestType, DataType, NoAnswer, Answers
  <2> QED
    BY <1>2, <2>1 DEF Expire, evaluation, Typed, RestType, ControlType, DataType, EvaluationType,
                      RunType, Exchanges
<1> QED
  BY <1>1, <1>2, StepType DEF Next, Finished

LEMMA InitType == Init => Typed
<1> SUFFICES ASSUME Init PROVE Typed
  OBVIOUS
<1>1. ControlType
  BY DEF Init, ControlType, Places
<1>2. RunType
  <2>1. ASSUME NEW c \in Cases PROVE run[c].ex \in 1..Len(Exchanges(c))
    <3>1. Exchanges(c) \in Seq(Exchange) /\ Exchanges(c) # <<>> /\ run[c].ex = 1
      BY ConfigsAssumption DEF Init, ConfigType, Exchanges
    <3> QED
      BY <3>1
  <2> QED
    BY <2>1 DEF Init, RunType
<1>3. DataType
  <2>1. ASSUME NEW c \in Cases
        PROVE  Answer(c, "ok") \in Answers /\ NoAnswer \in Answers /\ NoKey \in Keys
    BY <1>1, <2>1, AnswerType
  <2>2. entries \in [Cases -> [Names -> Seq(Answers)]]
    BY <2>1 DEF Init
  <2>3. NoAnswer \in Answers
    BY DEF NoAnswer, Answers
  <2> QED
    BY <2>1, <2>2, <2>3 DEF Init, DataType
<1>4. EvaluationType
  BY DEF Init, EvaluationType, NoEvaluator
<1> QED
  BY <1>1, <1>2, <1>3, <1>4 DEF Typed, RestType

\* Every activity keeps the state of its case, and the caches, in their types:
\* what a handler reads is there (the nil responses it meets are a state).
THEOREM TypeCorrect == Spec => []TypeOK
<1>1. Init => Typed
  BY InitType
<1>2. Typed /\ [Next]_vars => Typed'
  BY NextType
<1>3. Typed => TypeOK
  BY TypeParts DEF Typed, RestType
<1> QED
  BY <1>1, <1>2, <1>3, PTL DEF Spec

(***************************************************************************)
(* Answers of others.  What a case holds, and what is under a key that is  *)
(* resolved, answers the request of the case, and of the key.  A cache is  *)
(* asked under a resolved key only.                                        *)
(***************************************************************************)
Own(c, r) == r.status = "ok" => r.of = asks[c]

OwnAnswers ==
  \A c \in Cases :
    /\ Own(c, resp[c]) /\ Own(c, reply[c])
    /\ \A n \in Names : \A i \in 1..Len(entries[c][n]) : Own(c, entries[c][n][i])

KeysOfRequest ==
  \A c \in Cases : /\ key[c][2] \in {asks[c], Unresolved}
                   /\ pc[c] = "lookup" => key[c][2] = asks[c]

AnswersOfKey ==
  \A k \in Keys : cache[k].status = "ok" /\ k[2] \in Requests => cache[k].of = k[2]

ForeignInv == OwnAnswers /\ KeysOfRequest /\ AnswersOfKey

\* What a step gives its case, where it takes it, and what it leaves in a cache.
Recorded(c, n, r) ==
  entries' \in {[entries EXCEPT ![c][n] = Append(@, r)],
                [entries EXCEPT ![c][n] = [@ EXCEPT ![Len(@)] = r]]}

Given(c) ==
  \E r \in Answers :
    /\ Own(c, r)
    /\ resp' \in {resp, [resp EXCEPT ![c] = r]}
    /\ reply' \in {reply, [reply EXCEPT ![c] = r]}
    /\ entries' = entries \/ \E n \in Names, q \in {r, Open} : Recorded(c, n, q)

Keyed(c) ==
  \/ \E p \in Places : Goto(c, p) /\ key' = [key EXCEPT ![c] = Resolved(c)]
  \/ \E p \in Places \ {"lookup"} :
       Goto(c, p) /\ key' \in {key, [key EXCEPT ![c] = Raw(c)], [key EXCEPT ![c] = NoKey]}

Put(c) == cache' = cache \/ \E r \in Answers, b \in BOOLEAN : Own(c, r) /\ Stored(c, r, b)

Effect(c) == UNCHANGED asks /\ Given(c) /\ Keyed(c) /\ Put(c)

LEMMA EffectForeign ==
  ASSUME Typed, ForeignInv, NEW c \in Cases, Effect(c)
  PROVE  ForeignInv'
<1>1. /\ asks' = asks /\ asks[c] \in Requests /\ Unresolved \notin Requests
      /\ resp \in [Cases -> Answers] /\ reply \in [Cases -> Answers]
      /\ pc \in [Cases -> Places] /\ key \in [Cases -> Keys] /\ cache \in [Keys -> Answers]
  BY NamesAssumption DEF Effect, Typed, RestType, ControlType, DataType
<1>2. OwnAnswers'
  <2>1. PICK r \in Answers :
          /\ Own(c, r)
          /\ resp' \in {resp, [resp EXCEPT ![c] = r]}
          /\ reply' \in {reply, [reply EXCEPT ![c] = r]}
          /\ entries' = entries \/ \E n \in Names, q \in {r, Open} : Recorded(c, n, q)
    BY DEF Effect, Given
  <2>2. ASSUME NEW d \in Cases PROVE (Own(d, resp[d]) /\ Own(d, reply[d]))'
    BY <1>1, <2>1 DEF Own, ForeignInv, OwnAnswers
  <2>3. ASSUME NEW n \in Names, NEW q \in {r, Open}, Recorded(c, n, q),
               NEW d \in Cases, NEW m \in Names, NEW i \in 1..Len(entries'[d][m])
        PROVE  Own(d, entries'[d][m][i])
    <3>1. q \in Answers /\ Own(c, q)
      BY <2>1 DEF Own, Open, Answers
    <3>2. entries[d][m] \in Seq(Answers) /\ entries[c][n] \in Seq(Answers)
      BY DEF Typed, RestType, DataType
    <3>3. CASE entries'[d][m] = entries[d][m]
      BY <3>3 DEF ForeignInv, OwnAnswers
    <3>4. CASE d = c /\ m = n /\ entries'[c][n] = Append(entries[c][n], q)
      BY <3>1, <3>2, <3>4, AppendProperties DEF ForeignInv, OwnAnswers
    <3>5. CASE d = c /\ m = n /\ entries'[c][n] = [entries[c][n] EXCEPT ![Len(entries[c][n])] = q]
      BY <3>1, <3>2, <3>5, LastReplaced DEF ForeignInv, OwnAnswers
    <3>6. \/ entries'[d][m] = entries[d][m]
          \/ d = c /\ m = n /\ entries'[c][n] = Append(entries[c][n], q)
          \/ d = c /\ m = n /\ entries'[c][n] = [entries[c][n] EXCEPT ![Len(entries[c][n])] = q]
      BY <2>3 DEF Recorded, Typed, RestType, DataType
    <3> QED
      BY <3>3, <3>4, <3>5, <3>6
  <2>4. ASSUME NEW d \in Cases, NEW m \in Names, NEW i \in 1..Len(entries'[d][m])
        PROVE  Own(d, entries'[d][m][i])
    BY <2>1, <2>3 DEF ForeignInv, OwnAnswers
  <2> QED
    BY <1>1, <2>2, <2>4 DEF OwnAnswers, Own
<1>3. KeysOfRequest'
  BY <1>1 DEF Effect, Keyed, Goto, Resolved, Raw, NoKey, ForeignInv, KeysOfRequest
<1>4. AnswersOfKey'
  <2>1. key[c] \in Keys /\ key[c][2] \in {asks[c], Unresolved}
    BY <1>1 DEF ForeignInv, KeysOfRequest
  <2> QED
    BY <1>1, <2>1 DEF Effect, Put, Stored, Own, ForeignInv, AnswersOfKey
<1> QED
  BY <1>2, <1>3, <1>4 DEF ForeignInv

\* What a case may be given.
LEMMA OwnGiven ==
  ASSUME Typed, ForeignInv, NEW c \in Cases
  PROVE  /\ \A s \in {"ok", "error", "miss"} : Answer(c, s) \in Answers /\ Own(c, Answer(c, s))
         /\ \A r \in {NoAnswer, Open, Miss} : r \in Answers /\ Own(c, r)
         /\ resp[c] \in Answers /\ Own(c, resp[c])
         /\ pc[c] = "lookup" => cache[key[c]] \in Answers /\ Own(c, cache[key[c]])
<1>1. asks[c] \in Requests /\ key[c] \in Keys /\ cache \in [Keys -> Answers] /\ resp[c] \in Answers
  BY DEF Typed, RestType, ControlType, DataType
<1>2. \A s \in {"ok", "error", "miss"} : Answer(c, s) \in Answers /\ Own(c, Answer(c, s))
  BY AnswerType DEF Typed, RestType, Own, Answer
<1>3. \A r \in {NoAnswer, Open, Miss} : r \in Answers /\ Own(c, r)
  BY AnswerType DEF Typed, RestType, Own, NoAnswer, Open, Miss
<1>4. pc[c] = "lookup" => cache[key[c]] \in Answers /\ Own(c, cache[key[c]])
  BY <1>1 DEF ForeignInv, KeysOfRequest, AnswersOfKey, Own
<1> QED
  BY <1>1, <1>2, <1>3, <1>4 DEF ForeignInv, OwnAnswers

\* The effects of the helpers.
LEMMA MoveEffect ==
  ASSUME Typed, ForeignInv, NEW c \in Cases, NEW p \in Places \ {"lookup"}, Goto(c, p),
         UNCHANGED <<asks, entries, resp, key, cache, reply>>
  PROVE  Effect(c)
<1>1. Given(c)
  BY OwnGiven DEF Given
<1> QED
  BY <1>1 DEF Effect, Keyed, Put

LEMMA RecordEffect ==
  ASSUME Typed, ForeignInv, NEW c \in Cases, NEW r \in Answers, Own(c, r),
         SetRequest(c) \/ SetResponse(c, r)
  PROVE  Effect(c)
<1>1. X(c).name \in Names
  BY ExchangeType DEF Typed, RestType
<1>2. Given(c)
  BY <1>1 DEF Given, Recorded, SetRequest, SetResponse
<1>3. Keyed(c)
  BY DEF Keyed, SetRequest, SetResponse, Places
<1> QED
  BY <1>2, <1>3 DEF Effect, Put, SetRequest, SetResponse

LEMMA StopEffect ==
  ASSUME Typed, ForeignInv, NEW c \in Cases, GiveUp(c) \/ Crash(c)
  PROVE  Effect(c)
BY MoveEffect DEF GiveUp, Crash, Return, Places

LEMMA AddEffect ==
  ASSUME Typed, ForeignInv, NEW c \in Cases, NEW n \in Names, NEW r \in Answers, Own(c, r),
         AddEntry(c, n, r), NEW p \in Places \ {"lookup"}, Goto(c, p),
         UNCHANGED <<asks, key, reply>>, Put(c)
  PROVE  Effect(c)
<1>1. Given(c)
  BY DEF Given, Recorded, AddEntry
<1> QED
  BY <1>1 DEF Effect, Keyed

LEMMA UnrecordedEffect ==
  ASSUME Typed, ForeignInv, NEW c \in Cases, NEW s \in {"ok", "error", "miss"}, Unrecorded(c, s),
         UNCHANGED <<asks, entries, key, cache, reply>>
  PROVE  Effect(c)
<1>1. Given(c)
  BY OwnGiven DEF Given, Unrecorded
<1> QED
  BY <1>1 DEF Effect, Keyed, Put, Unrecorded, Places

LEMMA KeyEffect ==
  ASSUME Typed, ForeignInv, NEW c \in Cases,
         \/ \E p \in Places : AtKey(c, Resolved(c), p)
         \/ \E p \in Places \ {"lookup"} : AtKey(c, Raw(c), p) \/ AtKey(c, NoKey, p)
  PROVE  Effect(c)
<1>1. Given(c)
  BY OwnGiven DEF Given, AtKey
<1>2. Keyed(c)
  BY DEF Keyed, AtKey
<1> QED
  BY <1>1, <1>2 DEF Effect, Put, AtKey

LEMMA StartEffect ==
  ASSUME Typed, ForeignInv, NEW c \in Cases, NEW a, NEW i, StartExchange(c, a, i),
         NEW p \in Places \ {"lookup"}, Goto(c, p), UNCHANGED <<asks, entries, cache, reply>>
  PROVE  Effect(c)
<1>1. Given(c)
  BY OwnGiven DEF Given, StartExchange
<1>2. Keyed(c)
  BY DEF Keyed, StartExchange
<1> QED
  BY <1>1, <1>2 DEF Effect, Put

LEMMA ReplyEffect ==
  ASSUME Typed, ForeignInv, NEW c \in Cases, NEW r \in Answers, Own(c, r), Reply(c, r), Put(c)
  PROVE  Effect(c)
<1>1. Given(c)
  BY DEF Given, Reply
<1> QED
  BY <1>1 DEF Effect, Keyed, Reply, Return, Places

\* The effects of the actions.
LEMMA FrameEffect ==
  ASSUME Typed, ForeignInv, NEW c \in Cases,
         \/ \E a \in Activities : Begin(c, a)
         \/ Leave(c) \/ SetVars(c) \/ ReadInput(c) \/ Panic(c) \/ ProcessResponseAction(c)
  PROVE  Effect(c)
<1>1. ASSUME NEW a \in Activities, Begin(c, a) PROVE Effect(c)
  BY <1>1, StartEffect DEF Begin, Places
<1>2. CASE Leave(c) \/ Panic(c)
  BY <1>2, StopEffect DEF Leave, Panic
<1>3. CASE SetVars(c)
  <2>1. \E p \in Places \ {"lookup"} : Goto(c, p)
    BY <1>3 DEF SetVars, Return, Places
  <2> QED
    BY <1>3, <2>1, MoveEffect DEF SetVars
<1>4. CASE ReadInput(c)
  <2>1. \E p \in Places \ {"lookup"} : Goto(c, p)
    BY <1>4 DEF ReadInput, Return, AfterInput, Places
  <2> QED
    BY <1>4, <2>1, MoveEffect DEF ReadInput
<1>5. CASE ProcessResponseAction(c)
  <2>1. \/ Goto(c, "input") /\ StartExchange(c, run[c].act, run[c].ex + 1)
        \/ Goto(c, "idle") /\ UNCHANGED <<resp, key>>
    BY <1>5 DEF ProcessResponseAction, Proceed, Return
  <2>2. UNCHANGED <<asks, entries, cache, reply>>
    BY <1>5 DEF ProcessResponseAction
  <2> QED
    BY <2>1, <2>2, StartEffect, MoveEffect DEF Places
<1> QED
  BY <1>1, <1>2, <1>3, <1>4, <1>5

LEMMA CachesEffect ==
  ASSUME Typed, ForeignInv, NEW c \in Cases,
         ResolveCacheConfig(c) \/ ResolveResponseFromCache(c) \/ SaveResponseToCache(c)
           \/ CacheKey(c) \/ ExecuteGet(c) \/ ExecuteSet(c)
  PROVE  Effect(c)
<1>1. X(c).name \in Names /\ X(c).missed \in Names
  BY ExchangeType DEF Typed, RestType
<1>2. CASE ResolveCacheConfig(c) \/ CacheKey(c)
  BY <1>2, KeyEffect DEF ResolveCacheConfig, CacheKey, Places
<1>3. CASE ResolveResponseFromCache(c)
  <2>1. CASE UNCHANGED <<entries, resp>> /\ Return(c)
    BY <1>3, <2>1, MoveEffect DEF ResolveResponseFromCache, Return, Places
  <2>2. CASE \E n \in Names, r \in Answers, p \in Places \ {"lookup"} :
               Own(c, r) /\ AddEntry(c, n, r) /\ Goto(c, p)
    BY <1>3, <2>2, AddEffect DEF ResolveResponseFromCache, Put
  <2> QED
    BY <1>1, <1>3, <2>1, <2>2, OwnGiven DEF ResolveResponseFromCache, Places
<1>4. CASE SaveResponseToCache(c)
  <2>1. Put(c)
    BY <1>4, OwnGiven DEF SaveResponseToCache, Put
  <2>2. Given(c)
    BY <1>4, OwnGiven DEF SaveResponseToCache, Given
  <2> QED
    BY <1>4, <2>1, <2>2 DEF SaveResponseToCache, Effect, Keyed, Places
<1>5. CASE ExecuteGet(c)
  <2>1. CASE UNCHANGED <<entries, resp>> /\ Return(c)
    BY <1>5, <2>1, MoveEffect DEF ExecuteGet, Return, Places
  <2>2. CASE \E r \in Answers : Own(c, r) /\ AddEntry(c, X(c).name, r) /\ Goto(c, "act")
    BY <1>1, <1>5, <2>2, AddEffect DEF ExecuteGet, Put, Places
  <2> QED
    BY <1>5, <2>1, <2>2, OwnGiven DEF ExecuteGet
<1>6. CASE ExecuteSet(c)
  <2>1. PICK b \in BOOLEAN :
          /\ Stored(c, Answer(c, "ok"), b)
          /\ AddEntry(c, X(c).name, Answer(c, IF b THEN "ok" ELSE "error"))
    BY <1>6 DEF ExecuteSet
  <2>2. Put(c)
    BY <2>1, OwnGiven DEF Put
  <2>3. \E r \in Answers : Own(c, r) /\ AddEntry(c, X(c).name, r)
    BY <2>1, OwnGiven
  <2> QED
    BY <1>1, <1>6, <2>2, <2>3, AddEffect DEF ExecuteSet, Places
<1> QED
  BY <1>2, <1>3, <1>4, <1>5, <1>6

LEMMA ServiceEffect ==
  ASSUME Typed, ForeignInv, NEW c \in Cases,
         \/ EndpointRequest(c) \/ EndpointInvoke(c) \/ MongoRequest(c) \/ MongoInvoke(c)
         \/ KafkaExecute(c) \/ ScriptExecute(c) \/ EchoExecute(c) \/ JsonSchemaExecute(c)
         \/ TransformExecute(c) \/ RequestExecute(c)
  PROVE  Effect(c)
<1>1. ASSUME SetRequest(c) \/ GiveUp(c) \/ Crash(c)
               \/ \E r \in Answers : Own(c, r) /\ SetResponse(c, r)
      PROVE  Effect(c)
  BY <1>1, OwnGiven, RecordEffect, StopEffect
<1>2. ASSUME UNCHANGED <<cfg, asks, run, runs, entries, key, cache, reply>>,
             \E s \in {"ok", "error"} : Unrecorded(c, s)
      PROVE  Effect(c)
  BY <1>2, UnrecordedEffect
<1>3. CASE EndpointRequest(c) \/ EndpointInvoke(c)
  BY <1>1, <1>3, OwnGiven DEF EndpointRequest, EndpointInvoke
<1>4. CASE MongoRequest(c) \/ MongoInvoke(c)
  BY <1>1, <1>4, OwnGiven DEF MongoRequest, MongoInvoke
<1>5. CASE KafkaExecute(c)
  BY <1>1, <1>5, OwnGiven, FrameEffect DEF KafkaExecute, KafkaProduce
<1>6. CASE ScriptExecute(c)
  <2>1. CASE ComputeScript(c)
    <3>1. CASE Goto(c, "request") /\ UNCHANGED resp
      BY <2>1, <3>1, MoveEffect DEF ComputeScript, Places
    <3> QED
      BY <1>2, <2>1, <3>1 DEF ComputeScript
  <2>2. CASE RunScript(c)
    BY <1>1, <1>2, <2>2, OwnGiven DEF RunScript
  <2> QED
    BY <1>1, <1>6, <2>1, <2>2 DEF ScriptExecute
<1>7. CASE EchoExecute(c)
  BY <1>1, <1>2, <1>7, OwnGiven DEF EchoExecute
<1>8. CASE JsonSchemaExecute(c)
  BY <1>1, <1>8, OwnGiven DEF JsonSchemaExecute
<1>9. CASE TransformExecute(c)
  BY <1>1, <1>9, OwnGiven DEF TransformExecute, TransformInvoke
<1>10. CASE RequestExecute(c)
  BY <1>1, <1>10 DEF RequestExecute
<1> QED
  BY <1>3, <1>4, <1>5, <1>6, <1>7, <1>8, <1>9, <1>10

LEMMA ResponseEffect ==
  ASSUME Typed, ForeignInv, NEW c \in Cases, ResponseJSON(c)
  PROVE  Effect(c)
<1>1. CASE SelectResponse(c)
  <2>1. CASE Goto(c, "resolve") /\ UNCHANGED <<cfg, asks, run, runs, entries, resp, key, reply>>
    BY <1>1, <2>1, MoveEffect DEF SelectResponse, Places
  <2>2. CASE \E r \in Answers : Own(c, r) /\ Reply(c, r)
    BY <1>1, <2>2, ReplyEffect DEF SelectResponse, Put
  <2> QED
    BY <1>1, <2>1, <2>2, OwnGiven DEF SelectResponse
<1>2. ASSUME NEW p \in Places, AtKey(c, Resolved(c), p) PROVE Effect(c)
  BY <1>2, KeyEffect
<1>3. CASE GetCachedResponse(c)
  <2>1. \E r \in Answers : Own(c, r) /\ Reply(c, r)
    BY <1>3, OwnGiven DEF GetCachedResponse
  <2> QED
    BY <1>3, <2>1, ReplyEffect DEF GetCachedResponse, Put
<1>4. CASE SetCachedResponse(c)
  <2>1. Put(c)
    BY <1>4, OwnGiven DEF SetCachedResponse, Put
  <2> QED
    BY <1>4, <2>1, OwnGiven, ReplyEffect DEF SetCachedResponse
<1> QED
  BY <1>1, <1>2, <1>3, <1>4 DEF ResponseJSON, Places

LEMMA StepEffect ==
  ASSUME Typed, ForeignInv, NEW c \in Cases, Step(c)
  PROVE  Effect(c)
<1>1. CASE EndpointExecute(c)
  BY <1>1, FrameEffect, CachesEffect, ServiceEffect DEF EndpointExecute
<1>2. CASE MongoExecute(c)
  BY <1>2, FrameEffect, CachesEffect, ServiceEffect DEF MongoExecute
<1>3. CASE CacheExecute(c)
  BY <1>3, FrameEffect, CachesEffect DEF CacheExecute
<1> QED
  BY <1>1, <1>2, <1>3, FrameEffect, ServiceEffect, ResponseEffect DEF Step

LEMMA InitForeign == Init => ForeignInv
<1> SUFFICES ASSUME Init PROVE ForeignInv
  OBVIOUS
<1>2. ASSUME NEW c \in Cases, NEW n \in Names, NEW i \in 1..Len(entries[c][n])
      PROVE  Own(c, entries[c][n][i])
  <2>1. entries[c][n] \in {<<>>, <<Answer(c, "ok")>>}
    BY DEF Init
  <2>2. CASE entries[c][n] = <<>>
    BY <2>2
  <2>3. CASE entries[c][n] = <<Answer(c, "ok")>>
    <3>1. i = 1
      BY <2>3
    <3>2. entries[c][n][i] = Answer(c, "ok")
      BY <2>3, <3>1
    <3> QED
      BY <3>2 DEF Own, Answer
  <2> QED
    BY <2>1, <2>2, <2>3
<1>3. OwnAnswers
  BY <1>2 DEF Init, OwnAnswers, Own, NoAnswer
<1>4. KeysOfRequest
  BY DEF Init, KeysOfRequest, NoKey
<1>5. AnswersOfKey
  BY DEF Init, AnswersOfKey, NoAnswer
<1> QED
  BY <1>3, <1>4, <1>5 DEF ForeignInv

LEMMA NextForeign ==
  ASSUME Typed, ForeignInv, [Next]_vars
  PROVE  ForeignInv'
<1>1. ASSUME NEW c \in Cases, Step(c) PROVE ForeignInv'
  BY <1>1, StepEffect, EffectForeign
<1>2. ASSUME NEW k \in Keys, Expire(k) PROVE ForeignInv'
  <2>1. OwnAnswers' /\ KeysOfRequest'
    BY <1>2 DEF Expire, ForeignInv, OwnAnswers, KeysOfRequest, Own
  <2>2. AnswersOfKey'
    BY <1>2 DEF Expire, ForeignInv, AnswersOfKey, NoAnswer, Typed, RestType, DataType
  <2> QED
    BY <2>1, <2>2 DEF ForeignInv
<1>3. CASE UNCHANGED vars
  BY <1>3 DEF vars, ForeignInv, OwnAnswers, KeysOfRequest, AnswersOfKey, Own
<1> QED
  BY <1>1, <1>2, <1>3 DEF Next, Finished

\* However the cases interleave, and whatever they save in the caches, under
\* keys resolved or not: no case is given the answer to another's request.
THEOREM NoForeign == Spec => []NoForeignAnswer
<1>1. Init => Typed /\ ForeignInv
  BY InitType, InitForeign
<1>2. Typed /\ ForeignInv /\ [Next]_vars => (Typed /\ ForeignInv)'
  BY NextType, NextForeign
<1>3. Typed /\ ForeignInv => NoForeignAnswer
  <2> SUFFICES ASSUME Typed, ForeignInv PROVE NoForeignAnswer
    OBVIOUS
  <2>1. \A c \in Cases : resp[c] \in Answers /\ reply[c] \in Answers
    BY DEF Typed, RestType, DataType
  <2> QED
    BY <2>1 DEF ForeignInv, OwnAnswers, Own, NoForeignAnswer
<1> QED
  BY <1>1, <1>2, <1>3, PTL DEF Spec

(***************************************************************************)
(* Entries read.  The evaluator of a case is of the entry used last of its *)
(* name; it is not named for the entry its handler is about to make, but   *)
(* in a transformation, which drops it before it reads it.                 *)
(***************************************************************************)
Fresh(c) == evaluator[c].name \in Names => evaluator[c].at = Len(entries[c][evaluator[c].name])

Stale(c) == pc[c] = "call" /\ Kind(c) = "transform" /\ evaluator[c].name = X(c).name

Pending(c) ==
  /\ Kind(c) # "request" /\ (Kind(c) = "transform" => run[c].act \in cfg.vars)
  /\ pc[c] \in {"resolve", "lookup", "store", "request"} \/ (pc[c] = "call" /\ Kind(c) = "transform")

ReadOK(c) ==
  /\ read[c].at = read[c].last
  /\ pc[c] # "panicked" => Fresh(c) \/ Stale(c)
  /\ Pending(c) => evaluator[c].name \notin {X(c).name, X(c).missed}
  /\ Len(entries[c][RequestName]) > 0

\* What the configuration says of the exchange a case is at.
LEMMA SoundExchange ==
  ASSUME Typed, Sound(cfg), NEW c \in Cases
  PROVE  /\ {X(c).name, X(c).missed} \cap (Inputs(c) \cup {RequestName}) = {}
         /\ Kind(c) \in {"json-schema", "echo"} => run[c].act \in cfg.vars
         /\ Kind(c) = "transform" => run[c].act \in cfg.vars \/ Inputs(c) = {RequestName}
BY DEF Typed, RestType, RunType, Sound, X, Exchanges, Inputs, Kind

\* What an evaluation reads, and the evaluator it leaves.
LEMMA EvaluateFresh ==
  ASSUME Typed, NEW c \in Cases, ReadOK(c), pc[c] # "panicked",
         NEW n \in Names, ~Stale(c) \/ n # X(c).name, NEW b \in Nat
  PROVE  /\ Reading(c, n, b) => read'[c].at = read'[c].last
         /\ Evaluate(c, n, b) => /\ read'[c].at = read'[c].last
                                 /\ evaluator'[c].name = n
                                 /\ evaluator'[c].at = Len(entries[c][n])
         /\ EvaluateFails(c, n) =>
              /\ read' = read
              /\ \/ evaluator'[c].name = NoName
                 \/ evaluator'[c] = evaluator[c] /\ entries[c][n] = <<>>
<1>1. EvaluatedAt(c, n) = Len(entries[c][n])
  BY DEF EvaluatedAt, Named, ReadOK, Fresh, Stale
<1>2. /\ evaluator \in [Cases -> [name : Names \cup {NoName}, at : Nat]]
      /\ read \in [Cases -> [name : Names \cup {NoName}, at : Nat, last : Nat, before : Nat]]
  BY DEF Typed, EvaluationType
<1>3. Reading(c, n, b) => read'[c].at = read'[c].last
  BY <1>1, <1>2 DEF Reading
<1>4. Evaluate(c, n, b) => evaluator'[c].name = n /\ evaluator'[c].at = Len(entries[c][n])
  BY <1>1, <1>2 DEF Evaluate
<1>5. EvaluateFails(c, n) =>
        /\ read' = read
        /\ \/ evaluator'[c].name = NoName
           \/ evaluator'[c] = evaluator[c] /\ entries[c][n] = <<>>
  BY <1>2 DEF EvaluateFails, NoEvaluator
<1> QED
  BY <1>3, <1>4, <1>5 DEF Evaluate

\* The evaluator a step leaves, before the entry of m it makes (NoName for none).
Left(c, m) ==
  /\ read'[c].at = read'[c].last
  /\ evaluator'[c].name \in Names =>
       /\ evaluator'[c].at = Len(entries[c][evaluator'[c].name])
       /\ evaluator'[c].name # m

Grows(c, m) ==
  \A n \in Names : /\ Len(entries'[c][n]) >= Len(entries[c][n])
                   /\ n # m => Len(entries'[c][n]) = Len(entries[c][n])

LEMMA LeftOK ==
  ASSUME Typed, Typed', NEW c \in Cases, ReadOK(c), NEW m, Left(c, m), Grows(c, m),
         Pending(c)' => evaluator'[c].name \notin {X(c)'.name, X(c)'.missed}
  PROVE  ReadOK(c)'
<1>1. RequestName \in Names /\ Len(entries[c][RequestName]) \in Nat
        /\ Len(entries'[c][RequestName]) \in Nat
  BY NamesAssumption DEF Typed, RestType, DataType
<1>2. Len(entries'[c][RequestName]) > 0
  BY <1>1 DEF Grows, ReadOK
<1>3. Fresh(c)'
  BY DEF Left, Grows, Fresh
<1> QED
  BY <1>2, <1>3 DEF Left, ReadOK

\* The entries a step makes.
LEMMA NoGrowth ==
  ASSUME Typed, NEW c \in Cases, UNCHANGED entries
  PROVE  Grows(c, NoName)
BY DEF Grows, Typed, RestType, DataType

LEMMA AppendGrows ==
  ASSUME Typed, NEW c \in Cases, NEW n \in Names, NEW r \in Answers,
         entries' = [entries EXCEPT ![c][n] = Append(@, r)]
  PROVE  Grows(c, n)
<1>1. \A m \in Names : entries[c][m] \in Seq(Answers)
  BY DEF Typed, RestType, DataType
<1>2. \A m \in Names : entries'[c][m] = IF m = n THEN Append(entries[c][n], r) ELSE entries[c][m]
  BY DEF Typed, RestType, DataType
<1> QED
  BY <1>1, <1>2, AppendProperties DEF Grows

LEMMA ResponseGrows ==
  ASSUME Typed, NEW c \in Cases, NEW r \in Answers, SetResponse(c, r)
  PROVE  Grows(c, NoName)
<1>1. X(c).name \in Names
  BY ExchangeType DEF Typed, RestType
<1>2. \A m \in Names : entries[c][m] \in Seq(Answers)
  BY DEF Typed, RestType, DataType
<1>3. \A m \in Names : entries'[c][m] =
        IF m = X(c).name THEN [entries[c][m] EXCEPT ![Len(entries[c][m])] = r] ELSE entries[c][m]
  BY <1>1 DEF SetResponse, Typed, RestType, DataType
<1>4. ASSUME NEW m \in Names PROVE Len(entries'[c][m]) = Len(entries[c][m])
  <2>1. Len([entries[c][m] EXCEPT ![Len(entries[c][m])] = r]) = Len(entries[c][m])
    BY <1>2, LastReplaced
  <2> QED
    BY <1>3, <2>1
<1> QED
  BY <1>2, <1>4 DEF Grows

\* The evaluator left by no evaluation, one, and one that fails.
LEMMA StillLeft ==
  ASSUME Typed, NEW c \in Cases, ReadOK(c), pc[c] # "panicked", ~Stale(c), NEW m,
         UNCHANGED evaluation, evaluator[c].name # m
  PROVE  Left(c, m)
BY DEF Left, ReadOK, Fresh, evaluation

LEMMA EvaluatedLeft ==
  ASSUME Typed, NEW c \in Cases, ReadOK(c), pc[c] # "panicked",
         NEW n \in Names, ~Stale(c) \/ n # X(c).name, NEW b \in Nat, Evaluate(c, n, b),
         NEW m, n # m
  PROVE  Left(c, m) /\ evaluator'[c].name = n
BY EvaluateFresh DEF Left

LEMMA FailedLeft ==
  ASSUME Typed, NEW c \in Cases, ReadOK(c), pc[c] # "panicked", ~Stale(c),
         NEW n \in Names, EvaluateFails(c, n)
  PROVE  Left(c, NoName)
<1>1. read' = read /\ (evaluator'[c].name = NoName \/ evaluator'[c] = evaluator[c])
  BY EvaluateFresh, 0 \in Nat
<1> QED
  BY <1>1, NamesAssumption DEF Left, ReadOK, Fresh

\* A step that makes no entry, and leaves the handler where it makes none, or
\* where it reads its input first.
LEMMA StandsOK ==
  ASSUME Typed, Typed', NEW c \in Cases, ReadOK(c), UNCHANGED entries, Left(c, NoName),
         pc'[c] \in {"idle", "vars", "input", "save", "act"}
  PROVE  ReadOK(c)'
BY NoGrowth, LeftOK DEF Pending

LEMMA CrashOK ==
  ASSUME Typed, NEW c \in Cases, ReadOK(c), Crash(c), UNCHANGED evaluation
  PROVE  ReadOK(c)'
<1>1. pc'[c] = "panicked"
  BY DEF Crash, Goto, Typed, RestType, ControlType
<1>2. ReadOK(c)' <=> read[c].at = read[c].last /\ Len(entries[c][RequestName]) > 0
  BY <1>1 DEF ReadOK, Crash, evaluation, Pending
<1> QED
  BY <1>2 DEF ReadOK

\* An input evaluated, or not, by a handler that then records or returns.
LEMMA InputLeft ==
  ASSUME Typed, Sound(cfg), NEW c \in Cases, ReadOK(c), pc[c] # "panicked", ~Stale(c),
         NEW n \in Inputs(c)
  PROVE  /\ Evaluate(c, n, 0) => /\ Left(c, NoName) /\ Left(c, X(c).name)
                                 /\ evaluator'[c].name \notin {X(c).name, X(c).missed}
         /\ EvaluateFails(c, n) => Left(c, NoName)
<1>1. n \in Names /\ n # NoName
  BY InputType, NamesAssumption
<1>2. n \notin {X(c).name, X(c).missed}
  BY SoundExchange
<1> QED
  BY <1>1, <1>2, EvaluatedLeft, FailedLeft

LEMMA FrameReads ==
  ASSUME Typed, Typed', Sound(cfg), NEW c \in Cases, ReadOK(c),
         \/ \E a \in Activities : Begin(c, a)
         \/ Leave(c) \/ SetVars(c) \/ ReadInput(c) \/ Panic(c) \/ ProcessResponseAction(c)
  PROVE  ReadOK(c)'
<1>1. pc \in [Cases -> Places] /\ run[c].act \in Activities /\ run[c].before \in Nat
      /\ X(c).name \in Names /\ NoName \notin Names
      /\ evaluator \in [Cases -> [name : Names \cup {NoName}, at : Nat]]
  BY ExchangeType, NamesAssumption DEF Typed, RestType, ControlType, RunType, EvaluationType
<1>2. ASSUME UNCHANGED evaluation, pc[c] # "panicked", ~Stale(c)
      PROVE  Left(c, NoName)
  BY <1>1, <1>2 DEF Left, ReadOK, Fresh, evaluation
<1>3. ASSUME NEW a \in Activities, Begin(c, a) PROVE ReadOK(c)'
  <2>1. Left(c, NoName)
    BY <1>2, <1>3 DEF Begin, Stale
  <2> QED
    BY <1>1, <1>3, <2>1, StandsOK DEF Begin, Goto
<1>4. CASE Leave(c)
  <2>1. Left(c, NoName)
    BY <1>2, <1>4 DEF Leave, Stale
  <2> QED
    BY <1>1, <1>4, <2>1, StandsOK DEF Leave, GiveUp, Return, Goto
<1>5. CASE SetVars(c)
  <2>1. Left(c, NoName)
    BY <1>2, <1>5, InputLeft DEF SetVars, Stale
  <2>2. CASE pc'[c] \in {"idle", "input"}
    BY <1>5, <2>1, <2>2, StandsOK DEF SetVars
  <2>3. CASE pc'[c] = "request"
    <3>1. Kind(c) \notin Readers /\ Kind(c) # "nop" /\ Kind(c) \in Kinds
      BY <1>1, <1>5, <2>3, ConfigsAssumption DEF SetVars, Goto, Return, Kind, ConfigType,
                                                 Typed, RestType, ControlType
    <3>2. Kind(c) \in {"request", "echo", "json-schema", "transform"}
      BY <3>1 DEF Kinds
    <3>3. Pending(c)' => run[c].act \in cfg.vars
      BY <1>5, <3>2, SoundExchange DEF Pending, SetVars, Kind
    <3>4. run[c].act \in cfg.vars => \E n \in Inputs(c) : Evaluate(c, n, 0)
      BY <1>1, <1>5, <2>3 DEF SetVars, Return, Goto
    <3>5. Pending(c)' => evaluator'[c].name \notin {X(c).name, X(c).missed}
      BY <1>5, <3>3, <3>4, InputLeft DEF SetVars, Stale
    <3>6. X(c)' = X(c) /\ Grows(c, NoName)
      BY <1>5, NoGrowth DEF SetVars, X, Exchanges
    <3> QED
      BY <2>1, <3>5, <3>6, LeftOK
  <2> QED
    BY <1>1, <1>5, <2>2, <2>3 DEF SetVars, Goto, Return
<1>6. CASE ReadInput(c)
  <2>1. Left(c, NoName)
    BY <1>6, InputLeft DEF ReadInput, Stale
  <2>2. CASE \E n \in Inputs(c) : Evaluate(c, n, 0)
    <3>1. evaluator'[c].name \notin {X(c).name, X(c).missed}
      BY <1>6, <2>2, InputLeft DEF ReadInput, Stale
    <3>2. X(c)' = X(c) /\ Grows(c, NoName)
      BY <1>6, NoGrowth DEF ReadInput, X, Exchanges
    <3> QED
      BY <2>1, <3>1, <3>2, LeftOK
  <2>3. CASE Return(c)
    BY <1>1, <1>6, <2>1, <2>3, StandsOK DEF ReadInput, Return, Goto
  <2> QED
    BY <1>6, <2>2, <2>3 DEF ReadInput
<1>7. CASE Panic(c)
  BY <1>7, CrashOK DEF Panic
<1>8. CASE ProcessResponseAction(c)
  <2>1. Left(c, NoName)
    <3>1. pc[c] # "panicked" /\ ~Stale(c)
      BY <1>8 DEF ProcessResponseAction, Stale
    <3>2. CASE UNCHANGED evaluation
      BY <1>2, <3>1, <3>2
    <3>3. CASE Evaluate(c, X(c).name, run[c].before)
      BY <1>1, <3>1, <3>3, EvaluatedLeft
    <3>4. CASE EvaluateFails(c, X(c).name)
      BY <1>1, <3>1, <3>4, FailedLeft
    <3> QED
      BY <1>8, <3>2, <3>3, <3>4 DEF ProcessResponseAction
  <2>2. pc'[c] \in {"idle", "input"}
    BY <1>1, <1>8 DEF ProcessResponseAction, Proceed, Return, Goto
  <2> QED
    BY <1>8, <2>1, <2>2, StandsOK DEF ProcessResponseAction
<1> QED
  BY <1>3, <1>4, <1>5, <1>6, <1>7, <1>8

\* A handler that makes an entry has evaluated something else.
LEMMA PendingLeft ==
  ASSUME Typed, NEW c \in Cases, ReadOK(c), Pending(c), UNCHANGED evaluation
  PROVE  Left(c, NoName) /\ Left(c, X(c).name) /\ Left(c, X(c).missed) /\ ~Stale(c)
<1>1. pc[c] # "panicked" /\ ~Stale(c)
  BY DEF ReadOK, Pending, Stale
<1>2. evaluator[c].name \notin {X(c).name, X(c).missed}
  BY DEF ReadOK
<1> QED
  BY <1>1, <1>2, NamesAssumption DEF Left, ReadOK, Fresh, evaluation

LEMMA AddOK ==
  ASSUME Typed, Typed', NEW c \in Cases, ReadOK(c), Pending(c), NEW n \in {X(c).name, X(c).missed},
         NEW r \in Answers, AddEntry(c, n, r), UNCHANGED <<cfg, run, evaluation>>
  PROVE  ReadOK(c)'
<1>1. n \in Names
  BY ExchangeType DEF Typed, RestType
<1>2. Grows(c, n) /\ Left(c, n)
  BY <1>1, AppendGrows, PendingLeft DEF AddEntry
<1>3. evaluator'[c].name \notin {X(c)'.name, X(c)'.missed}
  BY DEF ReadOK, X, Exchanges, evaluation
<1> QED
  BY <1>2, <1>3, LeftOK

LEMMA CachesReads ==
  ASSUME Typed, Typed', NEW c \in Cases, ReadOK(c),
         Kind(c) \in Services \cup {"cache-get", "cache-set"},
         ResolveCacheConfig(c) \/ ResolveResponseFromCache(c) \/ SaveResponseToCache(c)
           \/ CacheKey(c) \/ ExecuteGet(c) \/ ExecuteSet(c)
  PROVE  ReadOK(c)'
<1>1. pc \in [Cases -> Places] /\ cache[key[c]] \in Answers /\ Miss \in Answers
      /\ \A s \in {"ok", "error", "miss"} : Answer(c, s) \in Answers
  BY AnswerType DEF Typed, RestType, ControlType, DataType
<1>2. UNCHANGED <<cfg, run, evaluation>>
  BY DEF ResolveCacheConfig, ResolveResponseFromCache, SaveResponseToCache, CacheKey, ExecuteGet,
         ExecuteSet, AtKey
<1>3. Kind(c) # "request" /\ Kind(c) # "transform"
  BY DEF Services
<1>4. pc[c] \in {"resolve", "lookup", "store"} => Pending(c)
  BY <1>3 DEF Pending
<1>5. ASSUME UNCHANGED entries, Pending(c) PROVE ReadOK(c)'
  <2>1. X(c)' = X(c) /\ evaluator' = evaluator
    BY <1>2 DEF X, Exchanges, evaluation
  <2>2. Left(c, NoName) /\ Grows(c, NoName)
    BY <1>2, <1>5, PendingLeft, NoGrowth
  <2>3. evaluator'[c].name \notin {X(c)'.name, X(c)'.missed}
    BY <1>5, <2>1 DEF ReadOK
  <2> QED
    BY <2>2, <2>3, LeftOK
<1>6. CASE ResolveCacheConfig(c) \/ CacheKey(c)
  BY <1>4, <1>5, <1>6 DEF ResolveCacheConfig, CacheKey, AtKey
<1>7. CASE ResolveResponseFromCache(c)
  BY <1>1, <1>2, <1>4, <1>5, <1>7, AddOK DEF ResolveResponseFromCache
<1>8. CASE ExecuteGet(c)
  <2>1. CASE \E r \in Answers : AddEntry(c, X(c).name, r)
    BY <1>2, <1>4, <1>8, <2>1, AddOK DEF ExecuteGet
  <2> QED
    BY <1>1, <1>4, <1>5, <1>8, <2>1 DEF ExecuteGet
<1>9. CASE ExecuteSet(c)
  <2>1. \E r \in Answers : AddEntry(c, X(c).name, r)
    BY <1>1, <1>9 DEF ExecuteSet
  <2> QED
    BY <1>2, <1>4, <1>9, <2>1, AddOK DEF ExecuteSet
<1>10. CASE SaveResponseToCache(c)
  <2>1. Left(c, NoName)
    BY <1>2, <1>10, NamesAssumption DEF SaveResponseToCache, Left, ReadOK, Fresh, Stale, evaluation, Typed,
                       EvaluationType
  <2> QED
    BY <1>1, <1>10, <2>1, StandsOK DEF SaveResponseToCache, Goto
<1> QED
  BY <1>6, <1>7, <1>8, <1>9, <1>10

\* A request recorded by a handler that evaluates nothing, or its input again.
LEMMA RequestOK ==
  ASSUME Typed, Typed', Sound(cfg), NEW c \in Cases, ReadOK(c), Kind(c) # "transform",
         pc[c] = "request", Kind(c) # "request", SetRequest(c),
         UNCHANGED evaluation \/ \E n \in Inputs(c) : Evaluate(c, n, 0)
  PROVE  ReadOK(c)'
<1>1. X(c).name \in Names /\ Open \in Answers
  BY ExchangeType, AnswerType DEF Typed, RestType
<1>2. Grows(c, X(c).name)
  BY <1>1, AppendGrows DEF SetRequest
<1>3. Pending(c) /\ ~Stale(c) /\ pc[c] # "panicked"
  BY DEF Pending, Stale
<1>4. Left(c, X(c).name)
  BY <1>3, PendingLeft, InputLeft
<1>5. ~(Pending(c)')
  <2>1. pc'[c] = "call" /\ Kind(c)' = Kind(c)
    BY DEF SetRequest, Goto, Kind, Typed, RestType, ControlType
  <2> QED
    BY <2>1 DEF Pending
<1> QED
  BY <1>2, <1>4, <1>5, LeftOK

\* A response recorded, by a handler that evaluates nothing.
LEMMA AnsweredOK ==
  ASSUME Typed, Typed', NEW c \in Cases, ReadOK(c), Kind(c) # "transform",
         pc[c] = "call", NEW r \in Answers, SetResponse(c, r), UNCHANGED evaluation
  PROVE  ReadOK(c)'
<1>1. Left(c, NoName)
  BY NamesAssumption DEF Left, ReadOK, Fresh, Stale, evaluation, Typed, EvaluationType
<1>2. Grows(c, NoName)
  BY ResponseGrows
<1>3. ~(Pending(c)')
  <2>1. pc'[c] \in {"save", "act"}
    BY DEF SetResponse, Goto, Typed, RestType, ControlType
  <2> QED
    BY <2>1 DEF Pending
<1> QED
  BY <1>1, <1>2, <1>3, LeftOK

\* A handler gives up, after an evaluation or without.
LEMMA GiveUpOK ==
  ASSUME Typed, Typed', Sound(cfg), NEW c \in Cases, ReadOK(c), GiveUp(c),
         pc[c] # "panicked", ~Stale(c),
         \/ UNCHANGED evaluation
         \/ \E n \in Inputs(c) : Evaluate(c, n, 0) \/ EvaluateFails(c, n)
  PROVE  ReadOK(c)'
<1>1. Left(c, NoName)
  <2>1. CASE UNCHANGED evaluation
    BY <2>1, NamesAssumption DEF Left, ReadOK, Fresh, evaluation
  <2> QED
    BY <2>1, InputLeft
<1>2. pc'[c] = "idle" /\ UNCHANGED entries
  BY DEF GiveUp, Return, Goto, Typed, RestType, ControlType
<1> QED
  BY <1>1, <1>2, StandsOK

LEMMA ServiceReads ==
  ASSUME Typed, Typed', Sound(cfg), NEW c \in Cases, ReadOK(c), Kind(c) \in Services,
         EndpointRequest(c) \/ EndpointInvoke(c) \/ MongoRequest(c) \/ MongoInvoke(c)
  PROVE  ReadOK(c)'
<1>1. Kind(c) # "transform" /\ Kind(c) # "request" /\ ~Stale(c)
  BY DEF Services, Stale
<1>2. Miss \in Answers /\ \A s \in {"ok", "error", "miss"} : Answer(c, s) \in Answers
  BY AnswerType DEF Typed, RestType
<1>3. CASE EndpointRequest(c)
  BY <1>1, <1>3, RequestOK, GiveUpOK DEF EndpointRequest
<1>4. CASE MongoRequest(c)
  BY <1>1, <1>4, RequestOK, GiveUpOK DEF MongoRequest
<1>5. CASE EndpointInvoke(c)
  BY <1>1, <1>2, <1>5, AnsweredOK, CrashOK DEF EndpointInvoke
<1>6. CASE MongoInvoke(c)
  BY <1>1, <1>2, <1>6, AnsweredOK DEF MongoInvoke
<1> QED
  BY <1>3, <1>4, <1>5, <1>6

\* A status without an entry.
LEMMA UnrecordedOK ==
  ASSUME Typed, Typed', NEW c \in Cases, ReadOK(c), NEW s, Unrecorded(c, s),
         UNCHANGED entries, Left(c, NoName)
  PROVE  ReadOK(c)'
<1>1. pc'[c] = "act"
  BY DEF Unrecorded, Goto, Typed, RestType, ControlType
<1> QED
  BY <1>1, StandsOK

LEMMA LocalReads ==
  ASSUME Typed, Typed', Sound(cfg), NEW c \in Cases, ReadOK(c),
         KafkaExecute(c) \/ ScriptExecute(c) \/ EchoExecute(c) \/ JsonSchemaExecute(c)
           \/ RequestExecute(c)
  PROVE  ReadOK(c)'
<1>1. /\ \A s \in {"ok", "error", "miss"} : Answer(c, s) \in Answers
      /\ pc \in [Cases -> Places] /\ NoName \notin Names
  BY AnswerType, NamesAssumption DEF Typed, RestType, ControlType
<1>2. Kind(c) # "transform" /\ ~Stale(c)
  BY DEF KafkaExecute, ScriptExecute, EchoExecute, JsonSchemaExecute, RequestExecute, Stale
<1>3. ASSUME UNCHANGED evaluation, pc[c] # "panicked" PROVE Left(c, NoName)
  BY <1>1, <1>2, <1>3 DEF Left, ReadOK, Fresh, evaluation
<1>4. CASE KafkaExecute(c)
  BY <1>1, <1>2, <1>4, FrameReads, RequestOK, AnsweredOK, CrashOK DEF KafkaExecute, KafkaProduce
<1>5. CASE ScriptExecute(c)
  <2>1. CASE ComputeScript(c)
    <3>1. Left(c, NoName)
      BY <1>2, <2>1, InputLeft DEF ComputeScript
    <3>2. CASE Unrecorded(c, "error")
      BY <2>1, <3>1, <3>2, UnrecordedOK DEF ComputeScript
    <3>3. CASE Goto(c, "request") /\ \E n \in Inputs(c) : Evaluate(c, n, 0)
      <4>1. evaluator'[c].name \notin {X(c).name, X(c).missed}
        BY <1>2, <2>1, <3>3, InputLeft DEF ComputeScript
      <4>2. X(c)' = X(c) /\ Grows(c, NoName)
        BY <2>1, NoGrowth DEF ComputeScript, X, Exchanges
      <4> QED
        BY <3>1, <4>1, <4>2, LeftOK
    <3> QED
      BY <2>1, <3>2, <3>3 DEF ComputeScript
  <2>2. CASE RunScript(c)
    <3>1. CASE Unrecorded(c, "ok") /\ UNCHANGED entries
      BY <1>3, <2>2, <3>1, UnrecordedOK DEF RunScript
    <3> QED
      BY <1>1, <1>2, <2>2, <3>1, AnsweredOK, CrashOK DEF RunScript
  <2>3. CASE pc[c] = "request" /\ SetRequest(c) /\ UNCHANGED evaluation
    BY <1>2, <1>5, <2>3, RequestOK DEF ScriptExecute
  <2> QED
    BY <1>5, <2>1, <2>2, <2>3 DEF ScriptExecute
<1>6. CASE EchoExecute(c)
  <2>1. CASE pc[c] = "request" /\ SetRequest(c)
    BY <1>2, <1>6, <2>1, RequestOK DEF EchoExecute
  <2>2. CASE pc[c] = "request" /\ Unrecorded(c, "ok") /\ UNCHANGED entries
    BY <1>3, <1>6, <2>2, UnrecordedOK DEF EchoExecute
  <2>3. CASE pc[c] = "call" /\ SetResponse(c, Answer(c, "ok"))
    BY <1>1, <1>2, <1>6, <2>3, AnsweredOK DEF EchoExecute
  <2>4. CASE pc[c] = "call" /\ GiveUp(c)
    BY <1>2, <1>6, <2>4, GiveUpOK DEF EchoExecute
  <2> QED
    BY <1>6, <2>1, <2>2, <2>3, <2>4 DEF EchoExecute
<1>7. CASE JsonSchemaExecute(c)
  BY <1>1, <1>2, <1>7, RequestOK, AnsweredOK DEF JsonSchemaExecute
<1>8. CASE RequestExecute(c)
  BY <1>2, <1>8, GiveUpOK DEF RequestExecute
<1> QED
  BY <1>4, <1>5, <1>6, <1>7, <1>8

\* A transformation may find the evaluator named for its entry, by a run before;
\* it reads another, and leaves none.
LEMMA TransformReads ==
  ASSUME Typed, Typed', Sound(cfg), NEW c \in Cases, ReadOK(c), TransformExecute(c)
  PROVE  ReadOK(c)'
<1>1. /\ \A s \in {"ok", "error", "miss"} : Answer(c, s) \in Answers
      /\ Open \in Answers /\ X(c).name \in Names
      /\ pc \in [Cases -> Places] /\ RequestName \in Names /\ NoName \notin Names
      /\ evaluator \in [Cases -> [name : Names \cup {NoName}, at : Nat]]
  BY ExchangeType, AnswerType, NamesAssumption
  DEF Typed, RestType, ControlType, EvaluationType
<1>2. CASE pc[c] = "request" /\ SetRequest(c) /\ UNCHANGED evaluation
  <2>1. /\ pc'[c] = "call" /\ X(c)' = X(c) /\ Kind(c)' = "transform" /\ evaluator' = evaluator
        /\ run' = run /\ cfg' = cfg
    BY <1>1, <1>2 DEF SetRequest, Goto, X, Exchanges, Kind, TransformExecute, evaluation
  <2>2. Grows(c, X(c).name)
    BY <1>1, <1>2, AppendGrows DEF SetRequest
  <2>3. CASE evaluator[c].name # X(c).name
    <3>1. Pending(c)' => Pending(c)
      BY <1>2, <2>1 DEF Pending, TransformExecute
    <3>2. Pending(c)' => evaluator'[c].name \notin {X(c)'.name, X(c)'.missed}
      BY <2>1, <3>1 DEF ReadOK
    <3>3. Left(c, X(c).name)
      BY <1>1, <1>2, <2>1, <2>3 DEF Left, ReadOK, Fresh, Stale, evaluation
    <3> QED
      BY <2>2, <3>2, <3>3, LeftOK
  <2>4. CASE evaluator[c].name = X(c).name
    <3>1. run[c].act \notin cfg.vars
      BY <1>2, <2>4 DEF TransformExecute, ReadOK, Pending
    <3>2. ~(Pending(c)') /\ Stale(c)'
      BY <2>1, <2>4, <3>1 DEF Pending, Stale
    <3>3. read'[c].at = read'[c].last
      BY <1>2 DEF ReadOK, evaluation
    <3>4. Len(entries'[c][RequestName]) > 0
      <4>1. X(c).name # RequestName
        BY SoundExchange
      <4>2. entries'[c][RequestName] = entries[c][RequestName]
        BY <1>1, <1>2, <4>1 DEF SetRequest, Typed, RestType, DataType
      <4> QED
        BY <4>2 DEF ReadOK
    <3> QED
      BY <3>2, <3>3, <3>4 DEF ReadOK
  <2> QED
    BY <2>3, <2>4
<1>3. CASE TransformInvoke(c)
  <2>1. PICK n \in Inputs(c), s \in {"ok", "error"} :
          /\ SetResponse(c, Answer(c, s))
          /\ \/ Reading(c, n, 0) /\ evaluator' = [evaluator EXCEPT ![c] = Transformed(n)]
             \/ EvaluateFails(c, n)
    BY <1>3 DEF TransformInvoke
  <2>2. n \in Names /\ n # X(c).name /\ pc[c] = "call" /\ Kind(c) = "transform"
    BY <1>3, InputType, SoundExchange DEF TransformInvoke, TransformExecute
  <2>3. Left(c, NoName)
    <3>1. CASE Reading(c, n, 0) /\ evaluator' = [evaluator EXCEPT ![c] = Transformed(n)]
      <4>1. read'[c].at = read'[c].last
        BY <2>2, <3>1, EvaluateFresh
      <4>2. evaluator'[c].name = NoName
        BY <1>1, <3>1 DEF Transformed, NoEvaluator
      <4> QED
        BY <1>1, <4>1, <4>2 DEF Left
    <3>2. CASE EvaluateFails(c, n)
      <4>1. CASE Stale(c)
        <5>1. run[c].act \notin cfg.vars
          BY <2>2, <4>1 DEF Stale, ReadOK, Pending
        <5>2. n = RequestName
          BY <2>2, <5>1, SoundExchange
        <5>3. entries[c][n] # <<>>
          BY <5>2 DEF ReadOK
        <5>4. read' = read /\ evaluator'[c].name = NoName
          BY <2>2, <3>2, <5>3, EvaluateFresh
        <5> QED
          BY <1>1, <5>4 DEF Left, ReadOK
      <4>2. CASE ~Stale(c)
        BY <2>2, <3>2, <4>2, FailedLeft
      <4> QED
        BY <4>1, <4>2
    <3> QED
      BY <2>1, <3>1, <3>2
  <2>4. Grows(c, NoName)
    BY <1>1, <2>1, ResponseGrows
  <2>5. ~(Pending(c)')
    <3>1. pc'[c] \in {"save", "act"}
      BY <1>1, <2>1 DEF SetResponse, Goto
    <3> QED
      BY <3>1 DEF Pending
  <2> QED
    BY <2>3, <2>4, <2>5, LeftOK
<1> QED
  BY <1>2, <1>3 DEF TransformExecute

LEMMA ResponseReads ==
  ASSUME Typed, Typed', Sound(cfg), NEW c \in Cases, ReadOK(c), ResponseJSON(c)
  PROVE  ReadOK(c)'
<1>1. pc \in [Cases -> Places] /\ NoName \notin Names /\ ~Stale(c)
      /\ Kind(c) # "request" /\ Kind(c) # "transform"
  BY NamesAssumption DEF Typed, RestType, ControlType, ResponseJSON, Responses, Stale
<1>2. ASSUME UNCHANGED evaluation, pc[c] # "panicked" PROVE Left(c, NoName)
  BY <1>1, <1>2 DEF Left, ReadOK, Fresh, evaluation
<1>3. ASSUME NEW r, Reply(c, r), Left(c, NoName) PROVE ReadOK(c)'
  <2>1. pc'[c] = "idle" /\ UNCHANGED entries
    BY <1>1, <1>3 DEF Reply, Return, Goto
  <2> QED
    BY <1>3, <2>1, StandsOK
<1>4. CASE SelectResponse(c)
  <2>1. Left(c, NoName)
    BY <1>1, <1>4, InputLeft DEF SelectResponse
  <2>2. CASE /\ \E n \in Inputs(c) : Evaluate(c, n, 0)
             /\ Goto(c, "resolve") /\ UNCHANGED <<cfg, run, entries>>
    <3>1. evaluator'[c].name \notin {X(c).name, X(c).missed}
      BY <1>1, <1>4, <2>2, InputLeft DEF SelectResponse
    <3>2. X(c)' = X(c) /\ Grows(c, NoName)
      BY <2>2, NoGrowth DEF X, Exchanges
    <3> QED
      BY <2>1, <3>1, <3>2, LeftOK
  <2> QED
    BY <1>3, <1>4, <2>1, <2>2 DEF SelectResponse
<1>5. ASSUME NEW p, pc[c] = "resolve", AtKey(c, Resolved(c), p) PROVE ReadOK(c)'
  <2>1. Pending(c) /\ UNCHANGED evaluation
    BY <1>1, <1>5 DEF Pending, AtKey
  <2>2. X(c)' = X(c) /\ evaluator' = evaluator
    BY <1>5 DEF AtKey, X, Exchanges, evaluation
  <2>3. evaluator'[c].name \notin {X(c)'.name, X(c)'.missed}
    BY <2>1, <2>2 DEF ReadOK
  <2>4. Left(c, NoName) /\ Grows(c, NoName)
    BY <1>5, <2>1, PendingLeft, NoGrowth DEF AtKey
  <2> QED
    BY <2>3, <2>4, LeftOK
<1>6. CASE GetCachedResponse(c)
  BY <1>2, <1>3, <1>6 DEF GetCachedResponse, evaluation
<1>7. CASE SetCachedResponse(c)
  BY <1>2, <1>3, <1>7 DEF SetCachedResponse
<1> QED
  BY <1>4, <1>5, <1>6, <1>7 DEF ResponseJSON

LEMMA StepReads ==
  ASSUME Typed, Sound(cfg), NEW c \in Cases, ReadOK(c), Step(c)
  PROVE  ReadOK(c)'
<1>1. Typed'
  BY StepType
<1>2. CASE EndpointExecute(c)
  BY <1>1, <1>2, FrameReads, CachesReads, ServiceReads DEF EndpointExecute, Services
<1>3. CASE MongoExecute(c)
  BY <1>1, <1>3, FrameReads, CachesReads, ServiceReads DEF MongoExecute, Services
<1>4. CASE CacheExecute(c)
  BY <1>1, <1>4, FrameReads, CachesReads DEF CacheExecute
<1> QED
  BY <1>1, <1>2, <1>3, <1>4, FrameReads, LocalReads, TransformReads, ResponseReads DEF Step

\* A step is of one case: the others keep what they have.
EvaluationApart(c) ==
  \A d \in Cases \ {c} : evaluator'[d] = evaluator[d] /\ read'[d] = read[d]

RunApart(c) == cfg' = cfg /\ \A d \in Cases \ {c} : run'[d] = run[d]

LEMMA EvaluationIsApart ==
  ASSUME Typed, NEW c \in Cases, Step(c)
  PROVE  EvaluationApart(c)
<1>1. /\ evaluator \in [Cases -> [name : Names \cup {NoName}, at : Nat]]
      /\ read \in [Cases -> [name : Names \cup {NoName}, at : Nat, last : Nat, before : Nat]]
  BY DEF Typed, EvaluationType
<1>2. ASSUME UNCHANGED evaluation PROVE EvaluationApart(c)
  BY <1>2 DEF EvaluationApart, evaluation
<1>3. ASSUME NEW n, NEW b, Evaluate(c, n, b) \/ EvaluateFails(c, n) PROVE EvaluationApart(c)
  BY <1>1, <1>3 DEF EvaluationApart, Evaluate, Reading, EvaluateFails
<1>4. ASSUME NEW n, Reading(c, n, 0), evaluator' = [evaluator EXCEPT ![c] = Transformed(n)]
      PROVE  EvaluationApart(c)
  BY <1>1, <1>4 DEF EvaluationApart, Reading
<1>5. CASE (\E a \in Activities : Begin(c, a)) \/ Leave(c) \/ SetVars(c) \/ ReadInput(c)
             \/ ProcessResponseAction(c) \/ Panic(c)
  BY <1>2, <1>3, <1>5 DEF Begin, Leave, SetVars, ReadInput, ProcessResponseAction, Panic
<1>6. CASE ResolveCacheConfig(c) \/ ResolveResponseFromCache(c) \/ SaveResponseToCache(c)
             \/ CacheKey(c) \/ ExecuteGet(c) \/ ExecuteSet(c)
  BY <1>2, <1>6 DEF ResolveCacheConfig, ResolveResponseFromCache, SaveResponseToCache, CacheKey,
                    ExecuteGet, ExecuteSet, AtKey
<1>7. CASE EndpointExecute(c) \/ MongoExecute(c) \/ CacheExecute(c)
  BY <1>2, <1>3, <1>5, <1>6, <1>7 DEF EndpointExecute, EndpointRequest, EndpointInvoke,
       MongoExecute, MongoRequest, MongoInvoke, CacheExecute
<1>8. CASE KafkaExecute(c) \/ ScriptExecute(c) \/ EchoExecute(c) \/ JsonSchemaExecute(c)
             \/ RequestExecute(c)
  BY <1>2, <1>3, <1>5, <1>8 DEF KafkaExecute, KafkaProduce, ScriptExecute, ComputeScript,
       RunScript, EchoExecute, JsonSchemaExecute, RequestExecute
<1>9. CASE TransformExecute(c)
  BY <1>2, <1>3, <1>4, <1>9 DEF TransformExecute, TransformInvoke
<1>10. CASE ResponseJSON(c)
  BY <1>2, <1>3, <1>10 DEF ResponseJSON, SelectResponse, GetCachedResponse, SetCachedResponse,
       AtKey
<1> QED
  BY <1>5, <1>7, <1>8, <1>9, <1>10 DEF Step

LEMMA RunIsApart ==
  ASSUME Typed, NEW c \in Cases, Step(c)
  PROVE  RunApart(c)
<1>1. run \in [Cases -> [act : Activities, ex : Nat, before : Nat]]
  BY DEF Typed, RestType, RunType
<1>2. ASSUME UNCHANGED <<cfg, run>> PROVE RunApart(c)
  BY <1>2 DEF RunApart
<1>3. ASSUME UNCHANGED cfg, NEW a, NEW i, StartExchange(c, a, i) PROVE RunApart(c)
  BY <1>1, <1>3 DEF RunApart, StartExchange
<1>4. ASSUME SetRequest(c) \/ GiveUp(c) \/ Crash(c) \/ \E r : SetResponse(c, r) \/ Reply(c, r)
      PROVE  RunApart(c)
  BY <1>2, <1>4 DEF SetRequest, GiveUp, Crash, SetResponse, Reply
<1>5. CASE (\E a \in Activities : Begin(c, a)) \/ Leave(c) \/ SetVars(c) \/ ReadInput(c)
             \/ ProcessResponseAction(c) \/ Panic(c)
  BY <1>2, <1>3, <1>4, <1>5 DEF Begin, Leave, SetVars, ReadInput, ProcessResponseAction, Proceed,
       Panic
<1>6. CASE ResolveCacheConfig(c) \/ ResolveResponseFromCache(c) \/ SaveResponseToCache(c)
             \/ CacheKey(c) \/ ExecuteGet(c) \/ ExecuteSet(c)
  BY <1>2, <1>6 DEF ResolveCacheConfig, ResolveResponseFromCache, SaveResponseToCache, CacheKey,
                    ExecuteGet, ExecuteSet, AtKey
<1>7. CASE EndpointExecute(c) \/ MongoExecute(c) \/ CacheExecute(c)
  BY <1>4, <1>5, <1>6, <1>7 DEF EndpointExecute, EndpointRequest, EndpointInvoke,
       MongoExecute, MongoRequest, MongoInvoke, CacheExecute
<1>8. CASE KafkaExecute(c) \/ ScriptExecute(c) \/ EchoExecute(c) \/ JsonSchemaExecute(c)
             \/ RequestExecute(c) \/ TransformExecute(c)
  BY <1>2, <1>4, <1>5, <1>8 DEF KafkaExecute, KafkaProduce, ScriptExecute, ComputeScript,
       RunScript, EchoExecute, JsonSchemaExecute, RequestExecute, TransformExecute, TransformInvoke
<1>9. CASE ResponseJSON(c)
  BY <1>2, <1>4, <1>9 DEF ResponseJSON, SelectResponse, GetCachedResponse, SetCachedResponse,
       AtKey
<1> QED
  BY <1>5, <1>7, <1>8, <1>9 DEF Step

LEMMA OthersRead ==
  ASSUME Typed, ForeignInv, NEW c \in Cases, Step(c), NEW d \in Cases \ {c}, ReadOK(d)
  PROVE  ReadOK(d)'
<1>1. evaluator'[d] = evaluator[d] /\ read'[d] = read[d]
  BY EvaluationIsApart DEF EvaluationApart
<1>2. cfg' = cfg /\ run'[d] = run[d]
  BY RunIsApart DEF RunApart
<1>3. Effect(c)
  BY StepEffect
<1>4. pc'[d] = pc[d]
  BY <1>3 DEF Effect, Keyed, Goto, Typed, RestType, ControlType
<1>5. entries'[d] = entries[d]
  BY <1>3 DEF Effect, Given, Recorded, Typed, RestType, DataType
<1> QED
  BY <1>1, <1>2, <1>4, <1>5 DEF ReadOK, Fresh, Stale, Pending, Kind, X, Exchanges

ReadsInv == Sound(cfg) => \A c \in Cases : ReadOK(c)

LEMMA InitReads == Init => ReadsInv
<1> SUFFICES ASSUME Init PROVE ReadsInv
  OBVIOUS
<1>1. ASSUME NEW c \in Cases PROVE ReadOK(c)
  <2>1. entries[c][RequestName] = <<Answer(c, "ok")>>
    BY NamesAssumption DEF Init
  <2> QED
    BY <2>1, NamesAssumption DEF Init, ReadOK, Fresh, Pending, NoEvaluator
<1> QED
  BY <1>1 DEF ReadsInv

\* The steps of one case keep what the expressions of every case read.
LEMMA NextReads ==
  ASSUME Typed, ForeignInv, ReadsInv, Next
  PROVE  ReadsInv'
<1>1. ASSUME NEW c \in Cases, Step(c) PROVE ReadsInv'
  <2>1. cfg' = cfg
    BY <1>1, RunIsApart DEF RunApart
  <2>2. ASSUME Sound(cfg), NEW d \in Cases PROVE ReadOK(d)'
    <3>1. ReadOK(c) /\ ReadOK(d)
      BY <1>1, <2>2 DEF ReadsInv
    <3>2. CASE d = c
      BY <1>1, <2>2, <3>1, <3>2, StepReads
    <3>3. CASE d # c
      BY <1>1, <2>2, <3>1, <3>3, OthersRead
    <3> QED
      BY <3>2, <3>3
  <2> QED
    BY <2>1, <2>2 DEF ReadsInv
<1>2. CASE UNCHANGED <<cfg, pc, run, entries, evaluator, read>>
  BY <1>2 DEF ReadsInv, ReadOK, Fresh, Stale, Pending, Kind, X, Exchanges
<1> QED
  BY <1>1, <1>2 DEF Next, Finished, Expire, evaluation, vars

\* The evaluator kept from one activity to the next is found again by the name
\* of its entry, which has a new entry each time its activity runs: whatever
\* activities a case runs, in whatever order, and whichever of them fail, an
\* expression is evaluated on the entry used last.
THEOREM EvaluatorFresh == Spec => []ReadsLastEntry
<1> DEFINE Inv == Typed /\ ForeignInv /\ ReadsInv
<1>1. Init => Inv
  BY InitType, InitForeign, InitReads
<1>2. Inv /\ [Next]_vars => Inv'
  <2>1. Inv /\ Next => Inv'
    BY NextType, NextForeign, NextReads
  <2>2. ASSUME Inv, UNCHANGED vars PROVE ReadsInv'
    BY <2>2 DEF ReadsInv, ReadOK, Fresh, Stale, Pending, Kind, X, Exchanges, vars
  <2> QED
    BY <2>1, <2>2, NextType, NextForeign
<1>3. Inv => ReadsLastEntry
  BY DEF ReadsInv, ReadOK, ReadsLastEntry
<1> QED
  BY <1>1, <1>2, <1>3, PTL DEF Spec

(***************************************************************************)
(* Answers acted on.  An exchange has more entries of its name than there  *)
(* were before it, from its request or its cached answer on; what the      *)
(* evaluator is named for has an entry.                                    *)
(***************************************************************************)
Recording == {"call", "save", "act"}

\* The hypotheses of ActsOnItsAnswer.
Answering(g) == Sound(g) /\ g.silent = {} /\ \A a \in Activities : g.kind[a] # "script"

ActOK(c) ==
  /\ read[c].name # NoName => read[c].at > read[c].before
  /\ evaluator[c].name \in Names => Len(entries[c][evaluator[c].name]) > 0
  /\ run[c].before =< Len(entries[c][X(c).name])
  /\ pc[c] \in Recording => run[c].before < Len(entries[c][X(c).name])

\* What a step reads, before it makes an entry.
Looked(c) ==
  /\ read'[c] = read[c] \/ read'[c].before < read'[c].last
  /\ evaluator'[c].name \in Names => Len(entries[c][evaluator'[c].name]) > 0

\* It starts an exchange, or stays in one and is past its entry only with it.
Moved(c) ==
  \/ /\ UNCHANGED <<cfg, run>>
     /\ pc'[c] \in Recording =>
          \/ pc[c] \in Recording
          \/ Len(entries'[c][X(c).name]) > Len(entries[c][X(c).name])
  \/ /\ UNCHANGED <<cfg, entries>> /\ pc'[c] \notin Recording
     /\ \E a \in Activities, i \in Nat : StartExchange(c, a, i)

\* Entries are never removed.
LEMMA EntriesStay ==
  ASSUME Typed, ForeignInv, NEW c \in Cases, Step(c)
  PROVE  \A n \in Names : Len(entries'[c][n]) >= Len(entries[c][n])
<1>1. PICK r \in Answers :
        entries' = entries \/ \E n \in Names, q \in {r, Open} : Recorded(c, n, q)
  BY StepEffect DEF Effect, Given
<1>2. Open \in Answers
  BY DEF Open, Answers
<1>3. \A n \in Names : entries[c][n] \in Seq(Answers)
  BY DEF Typed, RestType, DataType
<1>4. CASE entries' = entries
  BY <1>3, <1>4
<1>5. ASSUME NEW n \in Names, NEW q \in Answers, Recorded(c, n, q), NEW m \in Names
      PROVE  Len(entries'[c][m]) >= Len(entries[c][m])
  <2>1. \/ entries'[c][m] = entries[c][m]
        \/ m = n /\ entries'[c][m] = Append(entries[c][m], q)
        \/ m = n /\ entries'[c][m] = [entries[c][m] EXCEPT ![Len(entries[c][m])] = q]
    BY <1>5 DEF Recorded, Typed, RestType, DataType
  <2>2. /\ Len(entries[c][m]) \in Nat
        /\ Len(Append(entries[c][m], q)) = Len(entries[c][m]) + 1
        /\ Len([entries[c][m] EXCEPT ![Len(entries[c][m])] = q]) = Len(entries[c][m])
    BY <1>3, AppendProperties, LastReplaced
  <2> QED
    BY <2>1, <2>2
<1> QED
  BY <1>1, <1>2, <1>4, <1>5

LEMMA ActStep ==
  ASSUME Typed, Typed', NEW c \in Cases, ReadOK(c)', ActOK(c), Looked(c), Moved(c),
         \A n \in Names : Len(entries'[c][n]) >= Len(entries[c][n])
  PROVE  ActOK(c)'
<1>1. /\ X(c).name \in Names /\ X(c)'.name \in Names
      /\ \A n \in Names : Len(entries[c][n]) \in Nat /\ Len(entries'[c][n]) \in Nat
  <2>1. cfg' \in ConfigType /\ run'[c].act \in Activities
    BY ConfigsAssumption DEF Typed, RestType, ControlType, RunType
  <2>2. Exchanges(c)' \in Seq(Exchange)
    BY <2>1 DEF ConfigType, Exchanges
  <2>3. X(c)' \in Exchange
    BY <2>2 DEF Typed, RestType, RunType, X
  <2>4. X(c)'.name \in Names
    BY <2>3 DEF Exchange
  <2> QED
    BY <2>4, ExchangeType DEF Typed, RestType, DataType
<1>2. /\ run \in [Cases -> [act : Activities, ex : Nat, before : Nat]]
      /\ run' \in [Cases -> [act : Activities, ex : Nat, before : Nat]]
      /\ read' \in [Cases -> [name : Names \cup {NoName}, at : Nat, last : Nat, before : Nat]]
  BY DEF Typed, RestType, RunType, EvaluationType
<1>3. (read[c].name # NoName => read[c].at > read[c].before)'
  BY <1>2 DEF Looked, ReadOK, ActOK
<1>4. (evaluator[c].name \in Names => Len(entries[c][evaluator[c].name]) > 0)'
  BY <1>1 DEF Looked
<1>5. CASE /\ UNCHANGED <<cfg, run>>
           /\ pc'[c] \in Recording =>
                \/ pc[c] \in Recording
                \/ Len(entries'[c][X(c).name]) > Len(entries[c][X(c).name])
  <2>1. X(c)' = X(c) /\ run'[c].before = run[c].before /\ run[c].before \in Nat
    BY <1>2, <1>5 DEF X, Exchanges
  <2> QED
    BY <1>1, <1>3, <1>4, <1>5, <2>1 DEF ActOK
<1>6. CASE /\ UNCHANGED <<cfg, entries>> /\ pc'[c] \notin Recording
           /\ \E a \in Activities, i \in Nat : StartExchange(c, a, i)
  <2>1. run'[c].before = Len(entries[c][X(c)'.name])
    BY <1>2, <1>6 DEF StartExchange, X, Exchanges
  <2> QED
    BY <1>1, <1>3, <1>4, <1>6, <2>1 DEF ActOK
<1> QED
  BY <1>5, <1>6 DEF Moved

\* What an evaluation reads has an entry; one that fails reads nothing.
LEMMA LookedAt ==
  ASSUME Typed, NEW c \in Cases, ActOK(c)
  PROVE  /\ UNCHANGED evaluation => Looked(c)
         /\ \A n \in Names, b \in Nat :
              Reading(c, n, b) /\ (b = 0 \/ b < Len(entries[c][n])) =>
                /\ read'[c].before < read'[c].last
                /\ Evaluate(c, n, b) => Looked(c)
         /\ \A n \in Names : EvaluateFails(c, n) => Looked(c)
<1>1. /\ evaluator \in [Cases -> [name : Names \cup {NoName}, at : Nat]]
      /\ read \in [Cases -> [name : Names \cup {NoName}, at : Nat, last : Nat, before : Nat]]
      /\ \A n \in Names : entries[c][n] \in Seq(Answers)
      /\ NoName \notin Names
  BY NamesAssumption DEF Typed, EvaluationType, RestType, DataType
<1>2. ASSUME UNCHANGED evaluation PROVE Looked(c)
  BY <1>2 DEF Looked, ActOK, evaluation
<1>3. ASSUME NEW n \in Names, NEW b \in Nat, Reading(c, n, b), b = 0 \/ b < Len(entries[c][n])
      PROVE  /\ read'[c].before < read'[c].last
             /\ Evaluate(c, n, b) => Looked(c)
  <2>1. Len(entries[c][n]) \in Nat /\ Len(entries[c][n]) > 0
    <3>1. CASE Named(c, n)
      BY <1>1, <3>1 DEF Named, ActOK
    <3>2. CASE entries[c][n] # <<>>
      BY <1>1, <3>2, EmptySeq
    <3> QED
      BY <1>3, <3>1, <3>2 DEF Reading
  <2>2. read'[c].before = b /\ read'[c].last = Len(entries[c][n])
    BY <1>1, <1>3 DEF Reading
  <2>3. Evaluate(c, n, b) => evaluator'[c].name = n
    BY <1>1 DEF Evaluate
  <2> QED
    BY <1>3, <2>1, <2>2, <2>3 DEF Looked
<1>4. ASSUME NEW n \in Names, EvaluateFails(c, n) PROVE Looked(c)
  BY <1>1, <1>4 DEF EvaluateFails, NoEvaluator, Looked, ActOK
<1> QED
  BY <1>2, <1>3, <1>4

LEMMA InputLooked ==
  ASSUME Typed, NEW c \in Cases, ActOK(c), NEW n \in Inputs(c),
         Evaluate(c, n, 0) \/ EvaluateFails(c, n)
  PROVE  Looked(c)
BY InputType, LookedAt DEF Evaluate

\* The moves of the helpers: between places that make no entry, to the
\* handler's answer with an entry, and from the answer on.
LEMMA StandsMoved ==
  ASSUME NEW c \in Cases, UNCHANGED <<cfg, run>>, pc[c] \in Recording \/ pc'[c] \notin Recording
  PROVE  Moved(c)
BY DEF Moved

LEMMA RecordMoved ==
  ASSUME Typed, NEW c \in Cases, NEW r \in Answers,
         entries' = [entries EXCEPT ![c][X(c).name] = Append(@, r)], UNCHANGED <<cfg, run>>
  PROVE  Moved(c)
<1>1. X(c).name \in Names
  BY ExchangeType DEF Typed, RestType
<1>2. entries[c][X(c).name] \in Seq(Answers)
  BY <1>1 DEF Typed, RestType, DataType
<1>3. entries'[c][X(c).name] = Append(entries[c][X(c).name], r)
  BY <1>1 DEF Typed, RestType, DataType
<1>4. Len(entries'[c][X(c).name]) > Len(entries[c][X(c).name])
  BY <1>2, <1>3, AppendProperties
<1> QED
  BY <1>4 DEF Moved

LEMMA GotoMoved ==
  ASSUME Typed, NEW c \in Cases, NEW p, Goto(c, p), UNCHANGED <<cfg, run>>, p \notin Recording
  PROVE  Moved(c)
BY StandsMoved DEF Goto, Typed, RestType, ControlType

LEMMA StopMoved ==
  ASSUME Typed, NEW c \in Cases,
         \/ GiveUp(c) \/ Crash(c) \/ \E r : Reply(c, r)
         \/ \E k, p : p \notin Recording /\ AtKey(c, k, p)
  PROVE  Moved(c)
BY GotoMoved DEF GiveUp, Crash, Reply, Return, AtKey, Recording

LEMMA FrameActs ==
  ASSUME Typed, NEW c \in Cases, ActOK(c),
         \/ \E a \in Activities : Begin(c, a)
         \/ Leave(c) \/ SetVars(c) \/ ReadInput(c) \/ Panic(c) \/ ProcessResponseAction(c)
  PROVE  Looked(c) /\ Moved(c)
<1>1. /\ pc \in [Cases -> Places] /\ run[c].act \in Activities
      /\ run[c].before \in Nat /\ run[c].ex \in Nat /\ X(c).name \in Names
  BY ExchangeType DEF Typed, RestType, ControlType, RunType
<1>2. ASSUME NEW p, Goto(c, p), p \notin Recording PROVE pc'[c] \notin Recording
  BY <1>1, <1>2 DEF Goto
<1>3. ASSUME NEW a \in Activities, Begin(c, a) PROVE Looked(c) /\ Moved(c)
  BY <1>2, <1>3, LookedAt DEF Begin, Moved, Recording
<1>4. CASE Leave(c) \/ Panic(c)
  BY <1>4, LookedAt, StopMoved DEF Leave, Panic
<1>5. CASE SetVars(c)
  BY <1>2, <1>5, LookedAt, InputLooked, GotoMoved DEF SetVars, Return, Recording
<1>6. CASE ReadInput(c)
  BY <1>2, <1>6, InputLooked, GotoMoved DEF ReadInput, Return, AfterInput, Recording
<1>7. CASE ProcessResponseAction(c)
  <2>1. Looked(c)
    <3>1. CASE Evaluate(c, X(c).name, run[c].before)
      <4>1. run[c].before < Len(entries[c][X(c).name])
        BY <1>7 DEF ProcessResponseAction, ActOK, Recording
      <4> QED
        BY <1>1, <3>1, <4>1, LookedAt DEF Evaluate
    <3> QED
      BY <1>1, <1>7, <3>1, LookedAt DEF ProcessResponseAction
  <2>2. CASE Proceed(c)
    <3>1. CASE Goto(c, "input") /\ StartExchange(c, run[c].act, run[c].ex + 1)
      BY <1>1, <1>2, <1>7, <2>1, <3>1 DEF ProcessResponseAction, Moved, Recording
    <3> QED
      BY <1>7, <2>1, <2>2, <3>1, GotoMoved DEF ProcessResponseAction, Proceed, Return, Recording
  <2>3. CASE Return(c) /\ UNCHANGED run
    BY <1>7, <2>1, <2>3, GotoMoved DEF ProcessResponseAction, Return, Recording
  <2> QED
    BY <1>7, <2>1, <2>2, <2>3 DEF ProcessResponseAction
<1> QED
  BY <1>3, <1>4, <1>5, <1>6, <1>7

LEMMA CachesActs ==
  ASSUME Typed, NEW c \in Cases, ActOK(c),
         ResolveCacheConfig(c) \/ ResolveResponseFromCache(c) \/ SaveResponseToCache(c)
           \/ CacheKey(c) \/ ExecuteGet(c) \/ ExecuteSet(c)
  PROVE  Looked(c) /\ Moved(c)
<1>1. cache[key[c]] \in Answers /\ Miss \in Answers
      /\ \A s \in {"ok", "error", "miss"} : Answer(c, s) \in Answers
  BY AnswerType DEF Typed, RestType, DataType
<1>2. UNCHANGED <<cfg, run>> /\ UNCHANGED evaluation
  BY DEF ResolveCacheConfig, ResolveResponseFromCache, SaveResponseToCache, CacheKey, ExecuteGet,
         ExecuteSet, AtKey
<1>3. Looked(c)
  BY <1>2, LookedAt
<1>4. CASE ResolveCacheConfig(c) \/ CacheKey(c)
  BY <1>3, <1>4, StopMoved DEF ResolveCacheConfig, CacheKey, Recording
<1>5. CASE ResolveResponseFromCache(c)
  <2>1. CASE AddEntry(c, X(c).name, cache[key[c]])
    BY <1>3, <1>1, <1>2, <2>1, RecordMoved DEF AddEntry
  <2> QED
    BY <1>3, <1>2, <1>5, <2>1, GotoMoved DEF ResolveResponseFromCache, Return, Recording
<1>6. CASE ExecuteGet(c)
  <2>1. CASE \E r \in Answers : AddEntry(c, X(c).name, r)
    BY <1>3, <1>2, <2>1, RecordMoved DEF AddEntry
  <2> QED
    BY <1>3, <1>1, <1>2, <1>6, <2>1, GotoMoved DEF ExecuteGet, Return, Recording
<1>7. CASE ExecuteSet(c)
  <2>1. \E r \in Answers : AddEntry(c, X(c).name, r)
    BY <1>1, <1>7 DEF ExecuteSet
  <2> QED
    BY <1>3, <1>2, <2>1, RecordMoved DEF AddEntry
<1>8. CASE SaveResponseToCache(c)
  BY <1>3, <1>2, <1>8, StandsMoved DEF SaveResponseToCache, Recording
<1> QED
  BY <1>3, <1>4, <1>5, <1>6, <1>7, <1>8

\* A request and its response.
LEMMA ExchangeMoved ==
  ASSUME Typed, NEW c \in Cases,
         SetRequest(c) \/ (pc[c] = "call" /\ \E r : SetResponse(c, r))
  PROVE  Moved(c)
<1>1. CASE SetRequest(c)
  BY <1>1, RecordMoved, AnswerType DEF SetRequest, Typed, RestType
<1>2. ASSUME pc[c] = "call", NEW r, SetResponse(c, r) PROVE Moved(c)
  BY <1>2, StandsMoved DEF SetResponse, Recording
<1> QED
  BY <1>1, <1>2

LEMMA ServiceActs ==
  ASSUME Typed, Answering(cfg), NEW c \in Cases, ActOK(c),
         \/ EndpointRequest(c) \/ EndpointInvoke(c) \/ MongoRequest(c) \/ MongoInvoke(c)
         \/ KafkaExecute(c) \/ EchoExecute(c) \/ JsonSchemaExecute(c) \/ TransformExecute(c)
         \/ RequestExecute(c) \/ ResponseJSON(c)
  PROVE  Looked(c) /\ Moved(c)
<1>1. ASSUME UNCHANGED evaluation \/ \E n \in Inputs(c) : Evaluate(c, n, 0) \/ EvaluateFails(c, n)
      PROVE  Looked(c)
  BY <1>1, LookedAt, InputLooked
<1>2. CASE EndpointRequest(c) \/ EndpointInvoke(c)
  BY <1>1, <1>2, ExchangeMoved, StopMoved DEF EndpointRequest, EndpointInvoke
<1>3. CASE MongoRequest(c) \/ MongoInvoke(c)
  BY <1>1, <1>3, ExchangeMoved, StopMoved DEF MongoRequest, MongoInvoke
<1>4. CASE KafkaExecute(c)
  BY <1>1, <1>4, ExchangeMoved, StopMoved, FrameActs DEF KafkaExecute, KafkaProduce
<1>5. CASE EchoExecute(c)
  BY <1>1, <1>5, ExchangeMoved, StopMoved DEF EchoExecute, Answering
<1>6. CASE JsonSchemaExecute(c)
  BY <1>1, <1>6, ExchangeMoved DEF JsonSchemaExecute
<1>7. CASE TransformExecute(c)
  <2>1. Moved(c)
    BY <1>7, ExchangeMoved DEF TransformExecute, TransformInvoke
  <2>2. ASSUME NEW n \in Inputs(c), Reading(c, n, 0),
               evaluator' = [evaluator EXCEPT ![c] = Transformed(n)]
        PROVE  Looked(c)
    <3>1. read'[c].before < read'[c].last
      BY <2>2, LookedAt, InputType
    <3>2. evaluator'[c].name = NoName
      BY <2>2 DEF Transformed, NoEvaluator, Typed, EvaluationType
    <3> QED
      BY <3>1, <3>2, NamesAssumption DEF Looked
  <2> QED
    BY <1>1, <1>7, <2>1, <2>2 DEF TransformExecute, TransformInvoke
<1>8. CASE RequestExecute(c)
  BY <1>1, <1>8, StopMoved DEF RequestExecute
<1>9. CASE ResponseJSON(c)
  <2>1. CASE SelectResponse(c)
    <3>1. Looked(c)
      BY <1>1, <2>1 DEF SelectResponse
    <3>2. CASE Goto(c, "resolve") /\ UNCHANGED <<cfg, run>>
      BY <3>1, <3>2, GotoMoved DEF Recording
    <3> QED
      BY <2>1, <3>1, <3>2, StopMoved DEF SelectResponse
  <2>2. ASSUME NEW p \in {"lookup", "store"}, AtKey(c, Resolved(c), p) PROVE Looked(c) /\ Moved(c)
    BY <1>1, <2>2, StopMoved DEF AtKey, Recording
  <2>3. CASE GetCachedResponse(c)
    BY <1>1, <2>3, StopMoved DEF GetCachedResponse
  <2>4. CASE SetCachedResponse(c)
    BY <1>1, <2>4, StopMoved DEF SetCachedResponse
  <2> QED
    BY <1>9, <2>1, <2>2, <2>3, <2>4 DEF ResponseJSON
<1> QED
  BY <1>2, <1>3, <1>4, <1>5, <1>6, <1>7, <1>8, <1>9

LEMMA StepActs ==
  ASSUME Typed, ForeignInv, Answering(cfg), NEW c \in Cases, ReadOK(c)', ActOK(c), Step(c)
  PROVE  ActOK(c)'
<1>1. Typed' /\ \A n \in Names : Len(entries'[c][n]) >= Len(entries[c][n])
  BY StepType, EntriesStay
<1>2. Kind(c) # "script"
  BY ExchangeType DEF Answering, Kind, Typed, RestType
<1>3. Looked(c) /\ Moved(c)
  <2>1. CASE EndpointExecute(c) \/ MongoExecute(c) \/ CacheExecute(c)
    BY <2>1, FrameActs, CachesActs, ServiceActs DEF EndpointExecute, MongoExecute, CacheExecute
  <2> QED
    BY <1>2, <2>1, FrameActs, ServiceActs DEF Step, ScriptExecute
<1> QED
  BY <1>1, <1>3, ActStep

LEMMA OthersAct ==
  ASSUME Typed, ForeignInv, NEW c \in Cases, Step(c), NEW d \in Cases \ {c}, ActOK(d)
  PROVE  ActOK(d)'
<1>1. evaluator'[d] = evaluator[d] /\ read'[d] = read[d]
  BY EvaluationIsApart DEF EvaluationApart
<1>2. cfg' = cfg /\ run'[d] = run[d]
  BY RunIsApart DEF RunApart
<1>3. Effect(c)
  BY StepEffect
<1>4. pc'[d] = pc[d]
  BY <1>3 DEF Effect, Keyed, Goto, Typed, RestType, ControlType
<1>5. entries'[d] = entries[d]
  BY <1>3 DEF Effect, Given, Recorded, Typed, RestType, DataType
<1> QED
  BY <1>1, <1>2, <1>4, <1>5 DEF ActOK, X, Exchanges

ActsInv == Answering(cfg) => \A c \in Cases : ActOK(c)

LEMMA NextActs ==
  ASSUME Typed, ForeignInv, ReadsInv', ActsInv, Next
  PROVE  ActsInv'
<1>1. ASSUME NEW c \in Cases, Step(c) PROVE ActsInv'
  <2>1. cfg' = cfg
    BY <1>1, RunIsApart DEF RunApart
  <2>2. ASSUME Answering(cfg), NEW d \in Cases PROVE ActOK(d)'
    <3>1. ActOK(c) /\ ActOK(d) /\ ReadOK(c)'
      BY <1>1, <2>1, <2>2 DEF ActsInv, ReadsInv, Answering
    <3>2. CASE d = c
      BY <1>1, <2>2, <3>1, <3>2, StepActs
    <3>3. CASE d # c
      BY <1>1, <2>2, <3>1, <3>3, OthersAct
    <3> QED
      BY <3>2, <3>3
  <2> QED
    BY <2>1, <2>2 DEF ActsInv
<1>2. CASE UNCHANGED <<cfg, pc, run, entries, evaluator, read>>
  BY <1>2 DEF ActsInv, ActOK, X, Exchanges
<1> QED
  BY <1>1, <1>2 DEF Next, Finished, Expire, evaluation, vars

LEMMA InitActs == Init => ActsInv
<1> SUFFICES ASSUME Init PROVE ActsInv
  OBVIOUS
<1>1. ASSUME NEW c \in Cases PROVE ActOK(c)
  <2>1. run[c].before = 0 /\ pc[c] = "idle" /\ evaluator[c].name = NoName /\ read[c].name = NoName
    BY DEF Init, NoEvaluator
  <2>2. X(c).name \in Names /\ \A n \in Names : entries[c][n] \in Seq(Answers)
    BY InitType, ExchangeType DEF Typed, RestType, DataType
  <2> QED
    BY <2>1, <2>2, NamesAssumption DEF ActOK, Recording
<1> QED
  BY <1>1 DEF ActsInv

\* The actions of an activity evaluate an answer of their own exchange: an entry
\* made since it began, whether the service, the cache or neither answered,
\* when no script is run and no echo is silent.
THEOREM ActsOnOwnAnswer == Spec => []ActsOnItsAnswer
<1> DEFINE Inv == Typed /\ ForeignInv /\ ReadsInv /\ ActsInv
<1>1. Init => Inv
  BY InitType, InitForeign, InitReads, InitActs
<1>2. Inv /\ [Next]_vars => Inv'
  <2>1. Inv /\ Next => Inv'
    BY NextType, NextForeign, NextReads, NextActs
  <2>2. Inv /\ UNCHANGED vars => Inv'
    <3>1. Inv /\ UNCHANGED vars => Typed' /\ ForeignInv'
      BY NextType, NextForeign
    <3>2. ASSUME Inv, UNCHANGED vars PROVE ReadsInv' /\ ActsInv'
      BY <3>2 DEF ReadsInv, ReadOK, Fresh, Stale, Pending, Kind, ActsInv, ActOK, X, Exchanges, vars
    <3> QED
      BY <3>1, <3>2
  <2> QED
    BY <2>1, <2>2
<1>3. Inv => ActsOnItsAnswer
  BY DEF ActsInv, ActOK, Answering, ActsOnItsAnswer
<1> QED
  BY <1>1, <1>2, <1>3, PTL DEF Spec
=============================================================================
