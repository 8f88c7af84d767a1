----------------------------- MODULE Activities -----------------------------
(***************************************************************************)
(* The activities of an orchestration at work (executable/*activity): how  *)
(* each kind reads its input through the evaluator of its case, records    *)
(* the exchange as a HAR entry, asks a cache or a service, and evaluates   *)
(* its on-response actions on the answer.  Several cases run at once; each *)
(* has its own entries and evaluator, all share the caches.  The nested    *)
(* and the loop activity are module NestedCase's.                          *)
(*                                                                         *)
(* External: the services and caches (an entry may expire at any time, any *)
(* call may fail), the order of the activities (module Orchestration's),   *)
(* and whether an expression, a key or a template can be resolved.         *)
(*                                                                         *)
(* The entries of one name are a sequence: their numbers have no gaps      *)
(* (RecordInv of NestedCaseProofs).                                        *)
(***************************************************************************)
EXTENDS Naturals, Sequences

CONSTANTS
  Cases,
  Activities,
  Names,        \* names of entries: activities, activity@endpoint, producer ids
  RequestName,  \* "request", the entry a case begins with
  Requests,     \* what a case may be asked: the values a cache key is made of
  Unresolved,   \* stands in a key for a value that could not be resolved
  Templates,    \* templates of cache keys
  NoTemplate,
  NoName,       \* the name of no entry
  Configs

\* Kinds with an evaluator of their input whatever their configuration.
Responses == {"response", "response-get", "response-set"}
Services == {"endpoint", "mongo"}
Readers == Services \cup Responses \cup {"kafka", "script", "cache-get", "cache-set"}
Kinds == Readers \cup {"request", "nop", "echo", "json-schema", "transform"}

\* missed is the entry of a lookup that found nothing, <activity>;cache=true.
Exchange == [name : Names, missed : Names, template : Templates \cup {NoTemplate}]

\* inputs are the values input-source may have, which can be an expression;
\* vars, the activities with process-vars; silent, the echoes not in the HAR;
\* bound bounds how many activities each case runs.
ConfigType ==
  [kind : [Activities -> Kinds], inputs : [Activities -> SUBSET Names],
   vars : SUBSET Activities, silent : SUBSET Activities,
   exchanges : [Activities -> Seq(Exchange)], bound : [Cases -> Nat]]

ASSUME NamesAssumption ==
  /\ RequestName \in Names /\ NoName \notin Names
  /\ Unresolved \notin Requests /\ NoTemplate \notin Templates
ASSUME ConfigsAssumption ==
  \A g \in Configs : g \in ConfigType /\ \A a \in Activities : g.exchanges[a] # <<>>

VARIABLES
  cfg,       \* the configuration all cases run
  asks,      \* what each case is asked
  pc,        \* where its handler is
  run,       \* the activity, the exchange it is at, the entries before it
  runs,      \* how many activities it has run
  entries,   \* Entries of the case, by name
  evaluator, \* ExpressionEvaluator: the reference it is for, the entry it read
  resp,      \* harResponse
  key,       \* cacheCfg.Key
  read,      \* history: the last evaluation
  cache,     \* what the caches hold
  reply      \* what the caller of the case gets

vars == <<cfg, asks, pc, run, runs, entries, evaluator, resp, key, read, cache, reply>>
evaluation == <<evaluator, read>>

Answers == [status : {"none", "open", "ok", "error", "miss"}, of : Requests \cup {Unresolved}]
NoAnswer == [status |-> "none", of |-> Unresolved]
Open == [status |-> "open", of |-> Unresolved]
Miss == [status |-> "miss", of |-> Unresolved]
Keys == (Templates \cup {NoTemplate}) \X (Requests \cup {Unresolved})
NoKey == <<NoTemplate, Unresolved>>
NoEvaluator == [name |-> NoName, at |-> 0]
Places == {"idle", "vars", "input", "resolve", "lookup", "store", "request", "call", "save",
           "act", "panicked"}

Kind(c) == cfg.kind[run[c].act]
Inputs(c) == cfg.inputs[run[c].act]
Exchanges(c) == cfg.exchanges[run[c].act]
X(c) == Exchanges(c)[run[c].ex]
Answer(c, s) == [status |-> s, of |-> asks[c]]
LastOf(c, n) == entries[c][n][Len(entries[c][n])]
IsOpen(c, n) == entries[c][n] # <<>> /\ LastOf(c, n).status = "open"

Init ==
  /\ cfg \in Configs
  /\ asks \in [Cases -> Requests]
  /\ pc = [c \in Cases |-> "idle"]
  /\ run \in [Cases -> [act : Activities, ex : {1}, before : {0}]]
  /\ runs = [c \in Cases |-> 0]
  /\ entries = [c \in Cases |-> [n \in Names |->
                   IF n = RequestName THEN <<Answer(c, "ok")>> ELSE <<>>]]
  /\ evaluator = [c \in Cases |-> NoEvaluator]
  /\ resp = [c \in Cases |-> NoAnswer]
  /\ key = [c \in Cases |-> NoKey]
  /\ read = [c \in Cases |-> [name |-> NoName, at |-> 0, last |-> 0, before |-> 0]]
  /\ cache = [k \in Keys |-> NoAnswer]
  /\ reply = [c \in Cases |-> NoAnswer]

Goto(c, p) == pc' = [pc EXCEPT ![c] = p]

\* Execute returns, with or without an error: what runs next is up to the engine.
Return(c) == Goto(c, "idle")

GiveUp(c) == Return(c) /\ UNCHANGED <<cfg, asks, run, runs, entries, resp, key, cache, reply>>

\* A nil pointer: the goroutine of the case panics.
Crash(c) ==
  /\ Goto(c, "panicked")
  /\ UNCHANGED <<cfg, asks, run, runs, entries, resp, key, cache, reply>>

\* Mutated StartExchange: an activity goes on at the index where the one before it ended.
StartExchangeStale(c, a, i) ==
  /\ run' = [run EXCEPT ![c] = [act |-> a, ex |-> IF i = 1 THEN @.ex ELSE i,
                                before |-> Len(entries[c][cfg.exchanges[a][i].name])]]
  /\ resp' = [resp EXCEPT ![c] = NoAnswer]
  /\ key' = [key EXCEPT ![c] = NoKey]

\* The ith exchange; its answer and key are variables of the loop's body.
StartExchange(c, a, i) ==
  /\ run' = [run EXCEPT ![c] = [act |-> a, ex |-> i,
                                before |-> Len(entries[c][cfg.exchanges[a][i].name])]]
  /\ resp' = [resp EXCEPT ![c] = NoAnswer]
  /\ key' = [key EXCEPT ![c] = NoKey]

Caches(c) == Kind(c) \in Services /\ X(c).template # NoTemplate

AfterInput(c) ==
  IF Caches(c) \/ Kind(c) \in {"cache-get", "cache-set"} THEN "resolve" ELSE "request"

\* SetHarEntry: an entry with its response.
AddEntry(c, n, r) ==
  /\ entries' = [entries EXCEPT ![c][n] = Append(@, r)]
  /\ resp' = [resp EXCEPT ![c] = r]

\* SetHarEntryRequest, then SetHarEntryResponse on the entry used last.
SetRequest(c) ==
  /\ entries' = [entries EXCEPT ![c][X(c).name] = Append(@, Open)]
  /\ Goto(c, "call")
  /\ UNCHANGED <<cfg, asks, run, runs, resp, key, cache, reply>>

SetResponse(c, r) ==
  /\ entries' = [entries EXCEPT ![c][X(c).name] = [@ EXCEPT ![Len(@)] = r]]
  /\ resp' = [resp EXCEPT ![c] = r]
  /\ Goto(c, IF r.status = "ok" /\ Caches(c) THEN "save" ELSE "act")
  /\ UNCHANGED <<cfg, asks, run, runs, key, cache, reply>>

\* A status without an entry for it.
Unrecorded(c, s) == Goto(c, "act") /\ resp' = [resp EXCEPT ![c] = Answer(c, s)]

(***************************************************************************)
(* GetEvaluatorByHarEntryReference: the evaluator of the case, if it is    *)
(* named for the reference, or a new one of the entry used last.  Without  *)
(* an entry it fails and leaves the evaluator alone; with one that cannot  *)
(* be parsed it drops it; an entry without a response is a nil pointer.    *)
(***************************************************************************)
Named(c, n) == evaluator[c].name = n

EvaluatedAt(c, n) == IF Named(c, n) THEN evaluator[c].at ELSE Len(entries[c][n])

Reading(c, n, before) ==
  /\ Named(c, n) \/ (entries[c][n] # <<>> /\ ~IsOpen(c, n))
  /\ read' = [read EXCEPT ![c] = [name |-> n, at |-> EvaluatedAt(c, n),
                                  last |-> Len(entries[c][n]), before |-> before]]

Evaluate(c, n, before) ==
  /\ Reading(c, n, before)
  /\ evaluator' = [evaluator EXCEPT ![c] = [name |-> n, at |-> EvaluatedAt(c, n)]]

EvaluateFails(c, n) ==
  /\ ~Named(c, n) /\ ~IsOpen(c, n)
  /\ evaluator' = [evaluator EXCEPT ![c] = IF entries[c][n] = <<>> THEN @ ELSE NoEvaluator]
  /\ UNCHANGED read

\* Names a handler evaluates where it is, and those whose body it reads.
Reads(c) ==
  IF pc[c] = "act" THEN {X(c).name}
  ELSE IF \/ pc[c] = "input"
          \/ pc[c] = "vars" /\ run[c].act \in cfg.vars
          \/ pc[c] = "request" /\ Kind(c) \in Services
          \/ pc[c] = "call" /\ Kind(c) = "transform"
       THEN Inputs(c) ELSE {}

ReadsBody(c) ==
  \/ pc[c] = "request" /\ Kind(c) \in {"json-schema", "transform"}
  \/ pc[c] = "call" /\ Kind(c) = "json-schema"
  \/ pc[c] = "store" /\ Kind(c) = "cache-set"

\* A handler meets an entry whose response is nil.
Panic(c) ==
  /\ \/ \E n \in Reads(c) : ~Named(c, n) /\ IsOpen(c, n)
     \/ ReadsBody(c) /\ \E n \in Inputs(c) : IsOpen(c, n)
  /\ Crash(c)
  /\ UNCHANGED evaluation

\* GetBodyInHarEntry, whose errors are logged, finds no nil response.
Body(c) == \E n \in Inputs(c) : ~IsOpen(c, n)

(***************************************************************************)
(* The frame of Execute.                                                   *)
(***************************************************************************)
Begin(c, a) ==
  /\ pc[c] = "idle" /\ runs[c] < cfg.bound[c]
  /\ Goto(c, "vars")
  /\ runs' = [runs EXCEPT ![c] = @ + 1]
  /\ StartExchange(c, a, 1)
  /\ UNCHANGED <<cfg, asks, entries, evaluation, cache, reply>>

\* Not enabled, late, without its metrics group or the value of input-source; a
\* nop, in any case.
Leave(c) ==
  /\ pc[c] = "vars" /\ GiveUp(c)
  /\ UNCHANGED evaluation

SetVars(c) ==
  /\ pc[c] = "vars" /\ Kind(c) # "nop"
  /\ LET next == IF Kind(c) \in Readers THEN "input" ELSE "request" IN
     \/ run[c].act \notin cfg.vars /\ Goto(c, next) /\ UNCHANGED evaluation
     \/ /\ run[c].act \in cfg.vars
        /\ \/ \E n \in Inputs(c) : Evaluate(c, n, 0) /\ (Goto(c, next) \/ Return(c))
           \/ \E n \in Inputs(c) : EvaluateFails(c, n) /\ Return(c)
  /\ UNCHANGED <<cfg, asks, run, runs, entries, resp, key, cache, reply>>

\* GetEvaluator, and what is resolved with it: a request of a producer, for one.
ReadInput(c) ==
  /\ pc[c] = "input"
  /\ \/ \E n \in Inputs(c) : Evaluate(c, n, 0) /\ (Goto(c, AfterInput(c)) \/ Return(c))
     \/ \E n \in Inputs(c) : EvaluateFails(c, n) /\ Return(c)
  /\ UNCHANGED <<cfg, asks, run, runs, entries, resp, key, cache, reply>>

(***************************************************************************)
(* The on-response actions: none for the status, or one with variables and *)
(* errors to evaluate, which may end the activity.                         *)
(***************************************************************************)
Proceed(c) ==
  IF run[c].ex < Len(Exchanges(c))
  THEN Goto(c, "input") /\ StartExchange(c, run[c].act, run[c].ex + 1)
  ELSE Return(c) /\ UNCHANGED <<run, resp, key>>

ProcessResponseAction(c) ==
  /\ pc[c] = "act"
  /\ \/ UNCHANGED evaluation /\ Proceed(c)
     \/ /\ Evaluate(c, X(c).name, run[c].before)
        /\ Proceed(c) \/ (Return(c) /\ UNCHANGED <<run, resp, key>>)
     \/ EvaluateFails(c, X(c).name) /\ Return(c) /\ UNCHANGED <<run, resp, key>>
  /\ UNCHANGED <<cfg, asks, runs, entries, cache, reply>>

(***************************************************************************)
(* The caches.                                                             *)
(***************************************************************************)
Resolved(c) == <<X(c).template, asks[c]>>

\* The key stays what it was in the configuration.
Raw(c) == <<X(c).template, Unresolved>>

AtKey(c, k, p) ==
  /\ key' = [key EXCEPT ![c] = k] /\ Goto(c, p)
  /\ UNCHANGED <<cfg, asks, run, runs, entries, evaluation, resp, cache, reply>>

\* The error is ignored: the cache is asked under a key not resolved.
ResolveCacheConfigUnchecked(c) ==
  /\ pc[c] = "resolve"
  /\ AtKey(c, Resolved(c), "lookup") \/ AtKey(c, Raw(c), "lookup")

\* A service whose key cannot be resolved is called, and its answer saved.
ResolveCacheConfig(c) ==
  /\ pc[c] = "resolve"
  /\ AtKey(c, Resolved(c), "lookup") \/ AtKey(c, Raw(c), "request")

\* A hit has no entry.
ResolveResponseFromCacheUnrecorded(c) ==
  /\ pc[c] = "lookup"
  /\ \/ /\ cache[key[c]].status = "ok" /\ UNCHANGED entries
        /\ resp' = [resp EXCEPT ![c] = cache[key[c]]] /\ Goto(c, "act")
     \/ cache[key[c]].status # "ok" /\ AddEntry(c, X(c).missed, Miss) /\ Goto(c, "request")
     \/ UNCHANGED <<entries, resp>> /\ Return(c)
  /\ UNCHANGED <<cfg, asks, run, runs, evaluation, key, cache, reply>>

\* The entry of a hit stands for the call; a cache that fails ends the activity.
ResolveResponseFromCache(c) ==
  /\ pc[c] = "lookup"
  /\ \/ cache[key[c]].status = "ok" /\ AddEntry(c, X(c).name, cache[key[c]]) /\ Goto(c, "act")
     \/ cache[key[c]].status # "ok" /\ AddEntry(c, X(c).missed, Miss) /\ Goto(c, "request")
     \/ UNCHANGED <<entries, resp>> /\ Return(c)
  /\ UNCHANGED <<cfg, asks, run, runs, evaluation, key, cache, reply>>

Stored(c, r, stored) == cache' = IF stored THEN [cache EXCEPT ![key[c]] = r] ELSE cache

\* What a service answered with status 200, under the key as it is.
SaveResponseToCache(c) ==
  /\ pc[c] = "save"
  /\ \E stored \in BOOLEAN : Stored(c, resp[c], stored)
  /\ Goto(c, "act")
  /\ UNCHANGED <<cfg, asks, run, runs, entries, evaluation, resp, key, reply>>

Expire(k) ==
  /\ cache[k] # NoAnswer
  /\ cache' = [cache EXCEPT ![k] = NoAnswer]
  /\ UNCHANGED <<cfg, asks, pc, run, runs, entries, evaluation, resp, key, read, reply>>

(***************************************************************************)
(* Services: endpoints and Mongo.                                          *)
(***************************************************************************)
EndpointRequest(c) ==
  /\ pc[c] = "request"
  /\ \/ \E n \in Inputs(c) : Evaluate(c, n, 0) /\ (SetRequest(c) \/ GiveUp(c))
     \/ \E n \in Inputs(c) : EvaluateFails(c, n) /\ GiveUp(c)

\* If the client cannot be made the answer is the cache's miss, or nil.
EndpointInvoke(c) ==
  /\ pc[c] = "call" /\ UNCHANGED evaluation
  /\ \/ \E s \in {"ok", "error"} : SetResponse(c, Answer(c, s))
     \/ resp[c] = Miss /\ SetResponse(c, Miss)
     \/ resp[c] = NoAnswer /\ Crash(c)

EndpointExecute(c) ==
  /\ Kind(c) = "endpoint"
  /\ \/ ReadInput(c) \/ ResolveCacheConfig(c) \/ ResolveResponseFromCache(c)
     \/ EndpointRequest(c) \/ EndpointInvoke(c) \/ SaveResponseToCache(c)

\* The statement is loaded first, then resolved.
MongoRequest(c) ==
  /\ pc[c] = "request"
  /\ \/ \E n \in Inputs(c) : Evaluate(c, n, 0) /\ (SetRequest(c) \/ GiveUp(c))
     \/ \E n \in Inputs(c) : EvaluateFails(c, n) /\ GiveUp(c)
     \/ UNCHANGED evaluation /\ GiveUp(c)

MongoInvoke(c) ==
  /\ pc[c] = "call" /\ UNCHANGED evaluation
  /\ \E s \in {"ok", "error"} : SetResponse(c, Answer(c, s))

MongoExecute(c) ==
  /\ Kind(c) = "mongo"
  /\ \/ ReadInput(c) \/ ResolveCacheConfig(c) \/ ResolveResponseFromCache(c)
     \/ MongoRequest(c) \/ MongoInvoke(c) \/ SaveResponseToCache(c)

(***************************************************************************)
(* Producers, scripts, echoes, schemas, transformations.                   *)
(***************************************************************************)
\* Produce has no entry when its broker, or its producer, is not there.
KafkaProduce(c) ==
  /\ pc[c] = "call" /\ UNCHANGED evaluation
  /\ (\E s \in {"ok", "error"} : SetResponse(c, Answer(c, s))) \/ Crash(c)

KafkaExecute(c) ==
  /\ Kind(c) = "kafka"
  /\ \/ ReadInput(c)
     \/ pc[c] = "request" /\ SetRequest(c) /\ UNCHANGED evaluation
     \/ KafkaProduce(c)

\* A script that cannot be computed has no entry; its actions run all the same.
ComputeScript(c) ==
  /\ pc[c] = "input"
  /\ \/ \E n \in Inputs(c) :
          /\ Evaluate(c, n, 0)
          /\ (Goto(c, "request") /\ UNCHANGED resp) \/ Unrecorded(c, "error")
     \/ \E n \in Inputs(c) : EvaluateFails(c, n) /\ Unrecorded(c, "error")
  /\ UNCHANGED <<cfg, asks, run, runs, entries, key, cache, reply>>

\* The variables of a script that leaves none are nil; those that cannot be
\* marshalled leave it without an answer, and with the status of success.
RunScript(c) ==
  /\ pc[c] = "call" /\ UNCHANGED evaluation
  /\ \/ \E s \in {"ok", "error"} : SetResponse(c, Answer(c, s))
     \/ Crash(c)
     \/ /\ Unrecorded(c, "ok")
        /\ UNCHANGED <<cfg, asks, run, runs, entries, key, cache, reply>>

ScriptExecute(c) ==
  /\ Kind(c) = "script"
  /\ \/ ComputeScript(c)
     \/ pc[c] = "request" /\ SetRequest(c) /\ UNCHANGED evaluation
     \/ RunScript(c)

\* An echo not in the HAR has no entry; one whose variables cannot be
\* marshalled leaves it without a response.
EchoExecute(c) ==
  /\ Kind(c) = "echo" /\ UNCHANGED evaluation
  /\ \/ pc[c] = "request" /\ run[c].act \notin cfg.silent /\ SetRequest(c)
     \/ /\ pc[c] = "request" /\ run[c].act \in cfg.silent /\ Unrecorded(c, "ok")
        /\ UNCHANGED <<cfg, asks, run, runs, entries, key, cache, reply>>
     \/ pc[c] = "call" /\ (SetResponse(c, Answer(c, "ok")) \/ GiveUp(c))

JsonSchemaExecute(c) ==
  /\ Kind(c) = "json-schema" /\ Body(c) /\ UNCHANGED evaluation
  /\ \/ pc[c] = "request" /\ SetRequest(c)
     \/ pc[c] = "call" /\ SetResponse(c, Answer(c, "error"))
     \/ /\ pc[c] = "call" /\ \E n \in Inputs(c) : entries[c][n] # <<>> /\ ~IsOpen(c, n)
        /\ SetResponse(c, Answer(c, "ok"))

\* The evaluator keeps its name with another body.
TransformedKeepsName(n) == [name |-> n, at |-> 0]

\* The evaluator a transformation modifies is not any entry's any more.
Transformed(n) == NoEvaluator

TransformInvoke(c) ==
  /\ pc[c] = "call"
  /\ \/ \E n \in Inputs(c), s \in {"ok", "error"} :
          /\ Reading(c, n, 0)
          /\ evaluator' = [evaluator EXCEPT ![c] = Transformed(n)]
          /\ SetResponse(c, Answer(c, s))
     \/ \E n \in Inputs(c) : EvaluateFails(c, n) /\ SetResponse(c, Answer(c, "error"))

TransformExecute(c) ==
  /\ Kind(c) = "transform"
  /\ \/ pc[c] = "request" /\ Body(c) /\ SetRequest(c) /\ UNCHANGED evaluation
     \/ TransformInvoke(c)

\* The variables of a request are validated.
RequestExecute(c) ==
  /\ Kind(c) = "request" /\ pc[c] = "request" /\ GiveUp(c)
  /\ UNCHANGED evaluation

(***************************************************************************)
(* The cache activity.                                                     *)
(***************************************************************************)
CacheKey(c) ==
  /\ pc[c] = "resolve"
  /\ \/ AtKey(c, Resolved(c), IF Kind(c) = "cache-get" THEN "lookup" ELSE "store")
     \/ AtKey(c, NoKey, "idle")

\* The entry is that of the hit, or of the miss; without one the get has failed.
ExecuteGet(c) ==
  /\ pc[c] = "lookup"
  /\ \/ AddEntry(c, X(c).name, IF cache[key[c]].status = "ok" THEN cache[key[c]] ELSE Miss)
        /\ Goto(c, "act")
     \/ UNCHANGED <<entries, resp>> /\ Return(c)
  /\ UNCHANGED <<cfg, asks, run, runs, evaluation, key, cache, reply>>

ExecuteSet(c) ==
  /\ pc[c] = "store" /\ Body(c)
  /\ \E stored \in BOOLEAN :
       /\ Stored(c, Answer(c, "ok"), stored)
       /\ AddEntry(c, X(c).name, Answer(c, IF stored THEN "ok" ELSE "error"))
  /\ Goto(c, "act")
  /\ UNCHANGED <<cfg, asks, run, runs, evaluation, key, reply>>

CacheExecute(c) ==
  /\ Kind(c) \in {"cache-get", "cache-set"}
  /\ ReadInput(c) \/ CacheKey(c) \/ ExecuteGet(c) \/ ExecuteSet(c)

(***************************************************************************)
(* The response activity that ran last is asked for its response; the      *)
(* boundary may run after it.                                              *)
(***************************************************************************)
Reply(c, r) ==
  /\ Return(c) /\ reply' = [reply EXCEPT ![c] = r]
  /\ UNCHANGED <<cfg, asks, run, runs, entries, resp, key>>

SelectResponse(c) ==
  /\ pc[c] = "input" /\ UNCHANGED cache
  /\ \/ \E n \in Inputs(c) :
          /\ Evaluate(c, n, 0)
          /\ \/ Kind(c) = "response" /\ Reply(c, Answer(c, "ok"))
             \/ Reply(c, Answer(c, "error"))
             \/ /\ Kind(c) # "response" /\ Goto(c, "resolve")
                /\ UNCHANGED <<cfg, asks, run, runs, entries, resp, key, reply>>
     \/ \E n \in Inputs(c) : EvaluateFails(c, n) /\ Reply(c, Answer(c, "error"))

\* A cache that fails is a miss, whose response may fail too.
GetCachedResponse(c) ==
  /\ Kind(c) = "response-get" /\ UNCHANGED <<evaluation, cache>>
  /\ \/ pc[c] = "lookup" /\ cache[key[c]].status = "ok" /\ Reply(c, cache[key[c]])
     \/ pc[c] = "lookup" /\ \E s \in {"miss", "error"} : Reply(c, Answer(c, s))
     \/ pc[c] = "resolve" /\ Reply(c, Answer(c, "error"))

\* A response is given whether it can be stored or not.
SetCachedResponse(c) ==
  /\ Kind(c) = "response-set" /\ UNCHANGED evaluation
  /\ \/ /\ pc[c] = "store" /\ Reply(c, Answer(c, "ok"))
        /\ \E stored \in BOOLEAN : Stored(c, Answer(c, "ok"), stored)
     \/ pc[c] = "resolve" /\ Reply(c, Answer(c, "ok")) /\ UNCHANGED cache

ResponseJSON(c) ==
  /\ Kind(c) \in Responses
  /\ \/ SelectResponse(c)
     \/ pc[c] = "resolve"
        /\ AtKey(c, Resolved(c), IF Kind(c) = "response-get" THEN "lookup" ELSE "store")
     \/ GetCachedResponse(c) \/ SetCachedResponse(c)

\* Nothing is left to do.
Finished ==
  /\ \A c \in Cases : pc[c] = "panicked" \/ (pc[c] = "idle" /\ runs[c] = cfg.bound[c])
  /\ UNCHANGED vars

Step(c) ==
  \/ \E a \in Activities : Begin(c, a)
  \/ Leave(c) \/ SetVars(c) \/ ProcessResponseAction(c) \/ Panic(c)
  \/ EndpointExecute(c) \/ MongoExecute(c) \/ KafkaExecute(c) \/ ScriptExecute(c)
  \/ EchoExecute(c) \/ JsonSchemaExecute(c) \/ TransformExecute(c) \/ RequestExecute(c)
  \/ CacheExecute(c) \/ ResponseJSON(c)

Next == (\E c \in Cases : Step(c)) \/ (\E k \in Keys : Expire(k)) \/ Finished

Spec == Init /\ [][Next]_vars

(***************************************************************************)
(* Properties.                                                             *)
(***************************************************************************)
TypeOK ==
  /\ cfg \in Configs /\ asks \in [Cases -> Requests]
  /\ pc \in [Cases -> Places] /\ runs \in [Cases -> Nat]
  /\ run \in [Cases -> [act : Activities, ex : Nat, before : Nat]]
  /\ \A c \in Cases : run[c].ex \in 1..Len(Exchanges(c))
  /\ entries \in [Cases -> [Names -> Seq(Answers)]]
  /\ evaluator \in [Cases -> [name : Names \cup {NoName}, at : Nat]]
  /\ resp \in [Cases -> Answers] /\ key \in [Cases -> Keys]
  /\ read \in [Cases -> [name : Names \cup {NoName}, at : Nat, last : Nat, before : Nat]]
  /\ cache \in [Keys -> Answers] /\ reply \in [Cases -> Answers]

\* No activity reads the entries it makes, and those that have no evaluator of
\* their input get one from their variables, before they make an entry.
Sound(g) ==
  \A a \in Activities :
    /\ \A i \in 1..Len(g.exchanges[a]) :
         {g.exchanges[a][i].name, g.exchanges[a][i].missed} \cap (g.inputs[a] \cup {RequestName}) = {}
    /\ g.kind[a] \in {"json-schema", "echo"} => a \in g.vars
    /\ g.kind[a] = "transform" => a \in g.vars \/ g.inputs[a] = {RequestName}

\* The evaluator of a case is kept from one activity to the next and found
\* again by the name of its entry (wfcase-eval.go:18), and a name has a new
\* entry each time its activity runs.  An expression is still evaluated on the
\* entry used last, never on that of an earlier run.
ReadsLastEntry == Sound(cfg) => \A c \in Cases : read[c].at = read[c].last

\* The actions of an activity evaluate an answer of the same exchange, whether
\* it is a service's, a cache's or a miss.  (A script that cannot be computed
\* runs its actions on the answer it gave before, script-activity.go:162, and
\* an echo not in the HAR has none.)
ActsOnItsAnswer ==
  (Sound(cfg) /\ cfg.silent = {} /\ \A a \in Activities : cfg.kind[a] # "script")
    => \A c \in Cases : read[c].name # NoName => read[c].at > read[c].before

\* Cases share the caches: no case is given, and none records or acts on, the
\* answer to another's request, although an answer is saved under its key even
\* when the key could not be resolved (endpoint-activity.go:240, mongo-activity.go:184).
NoForeignAnswer ==
  \A c \in Cases :
    /\ \A r \in {resp[c], reply[c]} : r.status = "ok" => r.of = asks[c]
    /\ \A n \in Names : \A i \in 1..Len(entries[c][n]) :
         entries[c][n][i].status = "ok" => entries[c][n][i].of = asks[c]
=============================================================================
