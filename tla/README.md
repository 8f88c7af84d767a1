# A formal model of tpm-chorus

tpm-chorus runs *orchestrations*: graphs of activities (HTTP endpoints, Kafka,
MongoDB, caches, scripts, transformations, nested orchestrations, loops) that
turn a request into a response, while a *case* keeps every exchange as an HTTP
archive (HAR) entry. Reporters send the archives away, and pipeline sinks send
the results of streams of cases.

This directory holds TLA+ modules of the parts of it that have state, order and
failure, TLC configurations that check them, and proofs that TLAPS checks.
`PROJECT.json` is the index: components, runs, what each definition models
(file and lines), hazards, findings, theorems.

To check something, in this directory:

    tlc -workers 2 -config MCNestedCase.cfg MCNestedCase
    tlapm NestedCaseProofs.tla

## 1. The system

| part | source | state it keeps | operations |
|---|---|---|---|
| engine | `orchestration/executable/orchestration/orchestration.go`, `executable/executable.go`, `path.go` | the graph, the start activity; of a run: current activity, timing | `NewOrchestration`, `IsValid`, `Execute`, `ExecuteBoundary`, `Activity.Next`, `ProcessResponseActionByStatusCode` |
| path selection | `wfcase/wfexpressions/vars.go` | none | `EvalToBool` under `exactly-one` and `at-least-one` |
| nested orchestrations, loops | `nested-orchestration-activity.go`, `loop-activity.go` | control flow of the loop, collected responses, the child case | `Execute`, `executeNestedOrchestration`, `InitLoopControlFlow`, `HasNext`, `Next` |
| case and HAR entries | `wfcase/wfcase.go`, `wfcase-har.go` | map of entries, variables, deadline and timing | `NewWorkflowCase`, `NewChild`, `SetHarEntry*`, `Compute*IndexedHarEntryId`, `GetHarData` |
| evaluator cache, variables | `wfcase-eval.go`, `var-resolver.go`, `vars.go`, `globals/globals.go` | one cached evaluator per case; variables; globals in a cache service | `GetEvaluatorByHarEntryReference`, `SetVarsFromCase`, `Set`, `SetGlobalVar` |
| activities | `executable/*activity` | configuration only; connections and caches are services | `Execute` of each type |
| definitions, builder | `config/orchestration.go`, `config/dagbld`, activity definitions | the definition being built | `AddActivity`, `AddPath`, `Optimize`, unmarshallers, `DagBuilder` |
| repository | `config/repo` | none after loading | `NewOrchestrationBundleFromFolder` |
| registries | `xforms/jq`, `xforms/kz`, `jsonschemaregistry` | maps shared by all requests | `Add`, `Get`, `Transform` |
| operators, functions | `xforms/kz/operators`, `funcs` | none | pure functions on documents, dates, amounts |
| file reporter | `reporter/dummy-reporter.go` | queue, count of queued items, mutex, wait group | `Start`, `Stop`, `Report`, `doWorkLoop` |
| Kafka reporter | `reporter/kafka-reporter.go` | the same, and a producer | the same, `monitorProducerEvents` |
| Kafka sink | `pipeline/plexecutable/sinks/kafkasink` | buffer, statistics, producer | `Sink`, `Flush`, `Clear`, `Reset`, `Close`, `MonitorProducerEvents` |
| Mongo sink | `pipeline/plexecutable/sinks/mongosink` | batch, statistics | the same five |
| pipeline definitions | `pipeline/plconfig` | none | YAML |

How they meet. A caller builds an orchestration, makes a case, calls `Execute`
and answers with the response activity the walk ended on; then it runs the
boundary and hands the case to a reporter. Within a request everything is one
goroutine: the hard parts there are orders of calls, errors between two steps
and names that collide. Several requests run at once and meet in the reporter,
the registries, the globals and the caches. A reporter has a work goroutine, and
with Kafka a monitor of delivery reports; a Kafka sink has one monitor for each
producer it has had. Those are the real concurrency of the program.

What must hold, part by part: a valid graph leads to a response and not to the
boundary; a path is followed because the policy allows it; a deadline is
exceeded by little; a case keeps what it has recorded; a loop answers with its
children's answers; a failure that the configuration names surfaces; a report
accepted is handled once, in order, before the shutdown completes; nobody waits
for ever; a sink hands over in order, and announces what it loses.

## 2. The modules

| module | models | builds on |
|---|---|---|
| `ReportLog` | abstract: what a reporter promises | |
| `WorkQueue` | the queue both reporters repeat: mutex, counter, channel, wait group, work loop, `Stop` | refines `ReportLog` |
| `DummyReporter`, `KafkaReporter` | the two reporters in full | extend `WorkQueue` |
| `PathSelection` | `evalExpressionSetToBool` as a fold, and what the policies mean | |
| `Orchestration` | construction, validation, walk, boundary, deadline | extends `PathSelection` |
| `HarEntries` | the map of HAR entries: ids, numbers, set, copy into a parent | |
| `NestedCase` | nested orchestration and loop activities over a case and its children | extends `HarEntries` |
| `Activities` | what each kind of activity does in its case: evaluator, entries, caches, services, on-response actions | |
| `SinkStage` | abstract: what a sink stage promises its driver | |
| `KafkaSink` | the Kafka sink, its driver, its monitors | refines `SinkStage` |
| `MongoSink` | the Mongo sink, its driver, the server of its bulk writes | refines `SinkStage` |
| `DagBuilder` | definitions in the making, statements, `Build`, `Optimize` | |
| `Amounts` | sums, formats and conversions of amounts, on texts | |
| `KazaamOperators` | the array operators, criteria and `set-properties` | |
| `ArrayCalls` | one call of each of these operators, the arguments they may get, and what the answers mean | extends `KazaamOperators` |
| `FunctionCalls` | the same for the builder and the amounts | extends `ArrayCalls`; instantiates `DagBuilder`, `Amounts`, `PathSelection`, `Orchestration` |
| `MC*` | instances for TLC | extend one module each |
| `WorkQueueProofs`, `OrchestrationProofs`, `NestedCaseProofs`, `ActivitiesProofs`, `KafkaSinkProofs`, `MongoSinkProofs`, `ArrayCallsProofs` | theorems | extend one module each |
| `ReporterProofs` | theorems about the two reporters | extends both reporters and `WorkQueueProofs` |

Some definitions are another one with a plausible bug (`TargetPlain` beside
`Target`, `AdvanceNot` beside `Advance`): `PROJECT.json` lists them under
"mutants" with the property that must notice each, and nothing else uses them.

### Reporters

`Report` takes `qmu`, compares `queuedItems` with four fifths of the queue
(`Quota`), counts the item and sends on the channel *while it holds the mutex*;
`done` needs the same mutex. A section of the mutex that cannot block is one
step; the send is a step of its own (`ReportAdmit`, then `ReportSend`), so that
the deadlock which the reserve of 20% prevents would be visible. `Stop` closes
the channel without the mutex, at any moment: `ReportPanic` is the send on a
closed channel, after which the deferred unlock runs. `Work` is the body of the
loop, refined by each reporter: the file reporter's `WorkWrites` allows every
outcome of `os.WriteFile` (truncated, old or new content); the Kafka reporter
hands the message to a producer, whose delivery reports the monitor counts.
`KafkaExit` closes the producer without a flush, which drops what is in flight.

### Engine

`Construct`/`Reject` are `NewOrchestration` with `IsValid`, a check of every
configuration for dangling names, outputs and a start activity. `Begin`, the
four `Execute*` actions and the three `Next_*` actions are the loop of
`Execute`: the activity runs, is disabled, is late or fails; then the
constraints of its paths take any truth values, errors included, and
`PathSelection!Select` chooses. `BoundaryStep` runs the listed names with the
error remembered, and `BoundaryPanic` is the nil executable behind a name that
nobody has checked. Time is a number up to `Horizon`, beyond which times are
not told apart.

### Nested orchestrations and loops

One action per stretch of code between two choices: `BeginNested`, `BeginLoop`
and `BeginFails` up to the child or the head of the loop; `LoopNext`,
`LoopNextFails`, `LoopEnd` at the head; the child's activities, its answer or
its error, and its boundary (`ChildStep`); `Merge`, where entries get names of
the parent in the order of a Go map; `RespondNil` and `RespondError` for
`ProcessResponseActionByStatusCode`. An id such as `sub#0@ep#1` is the sequence
of its parts. The order of the map matters only when two entries get the same
name; `Merged` then lets each of them be the last.

The child's own orchestration is not embedded: `Orchestration` says how it
walks, and here it leaves entries and ends with an answer or an error. That
choice keeps every order of entries and all failures, and no graph.

### Activities

Each kind's `Execute` is an action named for it (`EndpointExecute`,
`ScriptExecute`, ...) whose alternatives are the stretches of the handler between
two effects on shared state; `pc` says where the handler is: its variables,
its input, the key of its cache, the look-up, the request, the call, the save of
the answer, the on-response actions. An activity runs a list of *exchanges* (the
endpoints, the producers; one for the other kinds), each with an entry name.
`entries` is the `Entries` map by name, each name a sequence because numbers have
no gaps, which `NestedCaseProofs` proves. `evaluator` is
`WfCase.ExpressionEvaluator`: the reference it was made for, and the number of
the entry it read. `Evaluate` and `EvaluateFails` are
`GetEvaluatorByHarEntryReference`, with the early return for an evaluator of the
same name; `Panic` and `Crash` are the nil responses that the handlers follow.
`read` only records what the last evaluation saw.

`Leave` is every return before the first effect: disabled, late, no metrics group.
A service (HTTP, Mongo, producer, cache) succeeds or fails in one step; a cache
entry may expire between any two steps. What may be resolved or not (an
expression, a template, a key) is a choice. A key is its template and the request
it was resolved for, or the raw template.

### Kafka sink

The driver calls the five operations in any order; each is split where the
producer or the monitor can act in between (`send`, `await`, `settle`, `shut`,
`renew`). The producer takes or refuses messages, reports each at most once and
may report after `Flush` gave up. `MonitorRead` and `MonitorWrite` are the two
halves of an increment without a lock, so that a `Clear` of the driver may fall
between them.

### Mongo sink

`SinkAccept` and `SinkRefuse` are `Sink` up to its return, with the HAR entry it
leaves open when the statement makes no write model. `Flush` has three ways to
go: nothing to write; no service or collection (the batch is gone and no error is
counted); and the bulk write, in which the server carries out one statement at a
time (`Write`) until it ends (`BulkWriteEnds`) or fails (`BulkWriteFails`, which
is also the answer that does not arrive after everything was done). `server` and
`result` count what was done to the collection, apart from the counters of
`StatsInfo`. The options of an unordered write are built and never passed
(`mongo.go:156`), so every write is ordered; `Close` leaves the batch unwritten;
the count of discarded messages is replaced, not added to.

Both sinks refine `SinkStage`: what was accepted is held, handed over in the
order of the calls, or given up with everything held at that moment; nothing
comes twice, and nothing comes back.

### Builder

A statement is a record of its kind (`S`, `Goto`, `Block`, `If`, `Switch`), a
definition one of its activities, paths and start. `In` and `Out` are where a
statement begins and ends; `NopsOf` and `PathsOf` are `AddNopActivity` and
`Paths` of each kind, `AddPaths` and `Optimize` the rest of `Build`.
`FunctionCalls!Exec` is what the statements mean on their own, `Walk` what the
engine does with the paths that were built, by `PathSelection!Select`.

What the builder cannot do shows in the model as it is, and `BuiltIsAccepted`
bounds it. `Optimize` removes nops from the list it ranges over and panics for
some legal programs (`config/orchestration.go:545`), but only for those where
several nops, the one added last among them, have no path from the request
(`Hanging`): an `if` around a `switch` of which every case jumps away. An else or
a case that is a block of a single jump is an error, and without a block that
begins with a jump (`JumpsFirst`) there is none. An `if` with an else needs `at-least-one`; one without an else
dead-ends when its condition is false. `AddActivity` makes the activity added
last the start (`config/orchestration.go:323`): a definition of two or more
activities read from JSON is then refused by `IsValid`, a request that is not
listed first is dropped without a word (the errors of `AddActivity` are ignored
there), and one read from YAML is not checked at all.

### Amounts and array operators

A text of an amount is a sequence of digits and marks, since what goes wrong is
in the texts: `Evaluate`, `Convert`, `Split`, `FormatAs`, `Parse`, `AdjustScale`
and `Formatted` cut and pad as the code does. `FunctionCalls!Value` is the
reference: the number a text stands for, in millionths. Every argument the code
takes is compared with it, texts, integers, nil and other types (`Written`), but
for these, for which the code does not keep the value and which the properties
name:

- a sum whose negative total is less than a unit of the target, or less than ten
  of them in decimal format, since the conversions count the sign as a digit: the
  answer may be no number at all (`-`, `0.-7`), and `SumExact` still says that it
  is no other number;
- a `Format` of a negative integer (`Misread`): its sign stays with the number, so
  that `negate` does not turn it (`amt-fmt.go:47`), and the comparisons with 10,
  100 and 10000 (`util.go:47`) take it for a small one. `-120` cents in decimal
  format is `0.-120`;
- a `Format` of more than three decimals, of which one is dropped;
- a comparison of amounts that are not written with digits alone (`AmtCmp`
  compares characters).

An integer in `decimal-2` or `decimal-3` counts in cents or thousandths, nil and
the types that `evaluate` does not know, `float64` among them, count nothing:
`SumExact` says so. `AmtFmtConv` has no exception: it answers every numeral of
its format, integer and `float64`, and the lone mark, and fails otherwise.

An item of an array is its type, its identity and the property looked at, with
the JSON type of that property (`of`).
`FilterArrayItems`, `ShiftArrayItems`, `DistinctItems`, `ReduceArray`,
`SortArray`, `LenArrays`, `MergeItems`, `AddItems` and `SetProperties` are the
operators, with the errors that some of them drop: `add-array-items`,
`merge-arrays` and a nested `len-arrays` answer although an item failed, and
`set-properties` on each item of an array that is not there loses the document
(`Lost`). The operators are compared with one another where they must agree:
filter and shift (but for the index, which filter counts over the items it has
accepted and shift over all), distinct and reduce (but for names that are no
strings, which distinct takes by their text and reduce refuses), the lengths, the
sum and the merge. An array of objects is left unsorted, without an error, if the
first property is a null or some other has a value of another type than the
first (`sort-array.go:107`, `Stops`); an array of numbers comes back empty.
`SortStable` inserts one item after the other, as `sort.SliceStable` does with up
to 20; for more, the two answer the same only where the comparison is an order,
that is, with at most one null. `set-properties` is compared with itself called twice: a value that is
there survives `ifMissing`, and the second call changes nothing. TLC refutes the
second half for two kinds of properties, which `SetOnce` therefore excludes
(`sound`): one with the value null, which the next property finds missing; and
one whose criterion fails on an item, where the loop stops without a word and
leaves items that the same property sets the next time.
`ArrayCalls!WellFormed` says which arguments there are: every item has an
identity of its own, a string has a value, a criterion is one of the three kinds
of `criteria.go`; nothing bounds the lengths. `FilterTurn`, `ShiftTurn` and
`SetProperty` are the bodies of the loops.

## 3. What is checked

| run | bounds | shows |
|---|---|---|
| `dummy_reporter` | 5 callers, queue of 3 | the mutex and the channel do not deadlock, slots are accounted, no accepted report is lost, repeated or reordered, `Stop` ends the loop |
| `kafka_reporter` | 3 callers, queue of 2, 1 library error | every outcome is counted once by one of two goroutines; both end |
| `orchestration` | all graphs of 3 listed paths over 4 names, with dangling names, flags, both policies; a diamond with a back edge and a default | what is accepted ends on a response, off the boundary, on allowed paths, at most one activity late; acyclic requests end |
| `boundary_request` | the graphs with a request activity that has the boundary flag | violated: the walk ends on it (finding) |
| `default_path` | the graphs of `orchestration` | violated: a default listed first wins under `at-least-one` (finding) |
| `nested_case` | 6 configurations: children of up to 3 entries, 2 activities, 4 children, loops up, with a step of two, breaking, with step 0 and -1 | nothing recorded is replaced or lost, responses in order, no open entry for later activities, configured errors surface, loops that count upwards end |
| `loop_start` | a loop from 1 to 3 | violated: `start` is never used (finding) |
| `activities` | one case, four activities in any order, eight configurations with all kinds and inputs that read one another's entries; two cases with a request each, two activities each, one cache template | expressions are evaluated on the entry used last; actions on the answer just recorded; no case is given or records the answer to another's request |
| `kafka_sink` | 5 definitions: synchronous or not, buffers of 1, 2 and 3, up to 4 messages and one reset | the promise of `SinkStage`, losses announced, a failure stops the stage, nothing pending after a good `Flush`, monitors end |
| `kafka_sink_counters` | asynchronous, no buffer, 2 messages | violated: counters incomplete after a good `Flush` (finding) |
| `mongo_sink` | 3 kinds of statement, up to 4 messages, discarded counts of 0 and 1 | the promise of `SinkStage`; no statement is lost without an error of `Flush`; the counters are what was done to the collection as long as no error is counted, and never above it |
| `function_calls` | programs of an `if` or a `switch` with branches of six shapes, alone or in an outer statement, three conditions, from YAML and from JSON; amounts of up to five digits, as texts, integers, floats and nil; arrays of up to four items, with properties of two types, up to four arrays, up to two properties | a built program runs on the engine as it is written, for every truth of its conditions, `IsValid` accepts it, and only certain programs are refused or panic; amounts keep their value; the array operators agree with one another |

**Bounds.** Five callers and a queue of 3 exceed the channel by two, so that
callers are accepted, refused and caught by `Stop` in one behaviour. Below a
queue of 5 the reserve is empty: 3 is the hard case of `Quota`. Three paths over
four names contain every local shape that validation or selection tells apart
(two alternatives, chain, self loop, back edge, dangling end); the diamonds add
a join. Four messages fill a buffer of three and begin another. Two activities
in the parent, each with children, make the second one meet the numbers the
first one has used; three entries in a child make two of them collide beside the
request. Four activities let each of two activities run twice with the other in
between, which is what a stale evaluator needs; an answer of another case needs
a save and a look-up in each of two cases. Four messages in `mongo_sink` let a
bulk write of three fail in the middle and another one follow. A statement inside
another one shows every way in which a begin, an end and a jump are passed on to
the outer statement; a third level would pass on the same. The amounts lie on
both sides of every border of the conversions (no digit left of it, one, more);
those whose last digit is exactly a half are left out, because the code rounds
binary fractions and the model exact ones. Three items with six values of the
property, or four with four, contain two equal ones in any place, a null, a
missing one and a greater one, and a value of another type. Every bound is a constant or a field
of the configuration, and the module says so.

**Fairness.** The reporters: weak fairness of each goroutine's next step, as Go
schedules a runnable goroutine; strong fairness of `Done`, since a mutex of Go
hands itself to a goroutine that has waited (starvation mode) while callers
take and release it. `Start` and `Stop` are not fair, nobody has to call them;
producers owe no delivery report. The engine and `NestedCase`: weak fairness of
`Next`, one goroutine that runs. It says nothing on *which* branch is taken:
`AcyclicEnds` and `LoopEnds` hold because of the graph and of the range.
`Activities` has safety properties only, without fairness.
`KafkaSink`: weak fairness of the call in progress and of the monitors, none of
the driver's next call or of the producer. `MongoSink`: weak fairness of the
bulk write, which the server answers or the driver gives up; no property of the
run rests on it. `FunctionCalls` has none.

**Deadlock** is not checked because every component really stops: a reporter
that has exited, a request that has been answered, a stage that is closed, a
case whose bounded activities are over, a function that has answered.

## 4. Findings

Where the code does other than its own comments and messages say; each is a run
that TLC violates.

1. `default_path`: under `at-least-one` the first true constraint is returned
   (`vars.go:236`), so that an empty default listed first wins over later
   guards; the comment at `vars.go:247` describes the contrary.
2. `boundary_request`: a request activity flagged as boundary passes `IsValid`
   and becomes the start; the walk ends on it and the callers `log.Fatal`.
3. `kafka_sink_counters`: with asynchronous delivery the driver reads and
   clears the statistics while the monitor holds an event it has not counted.
4. `loop_start`: a loop starts at 0 whatever its `start`, and with a negative
   step it counts upwards and never ends.

## 5. What is proved

For every value of the constants, with no bound on cases, queue, graphs,
names or entries.

**Queue** (`WorkQueueProofs`). `QueueInv` is inductive. A sender is the only
holder of the mutex; `queuedItems` is the sum of what is buffered, in the
worker, in a sender, and lost to a panic; the accepted cases are those handled,
the current one and the buffer, in that order; the wait group is up while the
loop runs. From it: `NeverBlocks` (when the quota lets a caller through, the
buffer has room, because it holds fewer than `queuedItems` elements),
`Accounted`, `Drained`, `AcceptedOnce` (no case is accepted twice, since its
goroutine is past the send), and `RefinesReportLog`: each step of the queue is a
step of `ReportLog` or a stutter. Assumed: `QueueSize` is a natural number, `NoCase`
is not a case. `ReporterProofs` lifts them to the file reporter and adds that every
case is counted once (`FileCounted`). `Drained` and `FileCounted` are no properties of the run: they
are proved, and what TLC would see of them is in `ImplementsReportLog`.

**Kafka reporter** (`ReporterProofs`). `IsQueue`: it is a queue of
`WorkQueue`, so that all of the above holds for it. `KafkaInv` is inductive on
top of `QueueInv`: the producer is open while the work loop runs and holds cases
of that loop, the monitor outlives the loop and leaves no event behind, and
error events have a code of their own. From it `OutcomesAreConserved`: each case
the loop dealt with is counted once by one of the two goroutines, waits in an
event, is in flight or was dropped by the `Close`. The step that hands a case to
the producer needs that the case is new, which is `AcceptedOnce`.
`SettledCounts` is the safety part of `StopSettles`: when both goroutines have
ended, the counter accounts for every case and every error event.

**Engine** (`OrchestrationProofs`). `EngineInv`: the graph in use is one that
`IsValid` accepted (no path dangles, every activity is valid, the start is a
configured request activity), the walk stays on configured activities, without
the boundary flag if no request activity has it, and a walk that ended well is
on an activity without outgoing paths. `EngineInvariant`, `TypeCorrect` and
`BoundedOvershoot` (a deadline is exceeded by at most the duration of one
activity) hold for every set of configurations. `EndsOnResponse` and
`StaysOffBoundary` suppose that no request activity has the boundary flag
(`RequestsWalk`), which nothing in the code checks; the run `boundary_request`
shows that the hypothesis is needed.

`StepsRunOut` is the safety half of `AcyclicEnds`. On a graph whose paths lead
forward along a ranking of the activities, each step of the engine leaves fewer
steps to take, at most two for each activity still ahead and one for each of the
boundary (`StepsLeft`, `FewerSteps`). The hypothesis is on the graph of each
request and not on the constants, so it needs no assumption on `Configs`. What
TLC adds is that the engine never stops before the end.

`PathsAllowed`: the loop over the constraints follows a path that the policy
allows, and fails only if it allows none, whatever the number of paths and the
results of their constraints. The loop is a fold over a finite set of paths, and
`Chosen` says what it has found after a subset of them: the first constraint
that is not false decides, and under `exactly-one` there must be no other.
`ChosenTurn` shows that one turn on the greatest path leads from `Chosen` of the
rest to `Chosen` of the whole; `ScanIs` concludes for the fold, since a set of
paths on which the two differ would have a smallest one (`SmallestSubset`, from
the well-foundedness of the subsets of a finite set). `SelectIs` compares the
result with `Selectable`, the meaning of the policies.

**Case** (`NestedCaseProofs`). `RecordIsKept`: no step replaces an entry or
changes a response. A search for a free number finds one (`FirstAvailableIsFree`,
by counting), but that is not enough: `SetHarEntryResponse` finds its entry
again by searching for the *last number in use*, and that is the entry just made
only if numbers have no gaps. So the inductive invariant `RecordInv` says that
the numbers of every name are used without gaps, that an entry of a child comes
with the entry of its run, that a child has its request entry while it runs, and
that an open loop is the entry of its name used last and has no response. The
copy of a child's entries keeps all of it in whatever order the map is read
(`MergedAdds`) since they go under a fresh number of another name. Assumed: the
loop's body name (`<name>-body`) and the nested activity's name are not the
loop's.

The invariant `AnswerInv` carries the answers. `EntriesReachParent`: no entry a
child has made is lost, whatever the order in which its map is read (`ChildInv`:
the entries of a child have different names in the parent, and the merge moves
as many as there are). `ActivitiesAnswered`: while nothing has failed, the only
entry without a response is that of the loop under way (`OpenInv`), so an
activity that is over has been answered. `LoopCollectsInOrder`: what the loop
has collected is what the record says of its runs, in ascending order
(`CollectInv`, with `ByInv`: the entries of a run are made while it runs). These
three except histories in which two entries of a child were to have one name
(`ambiguous`): there the code does lose one. `ErrorSurfaces`: a failure whose
only matching action has an error without a guard ends the activity with it.

**Activities** (`ActivitiesProofs`). `EvaluatorFresh`: no expression is evaluated
on an earlier entry than the last of its name, although the evaluator is found
again by its name alone. The name check (`wfcase-eval.go:18`) is harmless only
because something always moves the evaluator away between two entries of one
name, and the inductive invariant `ReadsInv` says what. The evaluator is fresh
(it read the last entry of its name) or of no name. From its input to its entry
(`Pending`) an activity holds an evaluator that is not of the names it is about
to make an entry of, because it has evaluated its input; so a new entry makes no
evaluator stale. One exception (`Stale`): a transformation without variables may
hold that of its own name until it evaluates its input, the request, a moment
later. The theorem holds for configurations that are
`Sound`: no activity reads the entries it makes, and the kinds that have no
evaluator of their input (schema, echo, transformation) get one from their
variables. Without that the code does evaluate a stale entry: a JSON schema
activity without variables that runs twice in a row acts on its first answer.
`NoForeign`: the invariant `ForeignInv` says that a key which was resolved is
the one of the case's own request, that an answer in a cache belongs to the
request of its key unless the key is raw, and that no handler looks up a raw
key. `ActsOnOwnAnswer`: the actions of an activity evaluate an entry made since
its exchange began, on every path from the call, the cache or neither. `ActsInv`
says how: an exchange notes how many entries of its name there are when it
begins; it reaches the call, the save and the actions only by making an entry
of that name; and what it reads then is the last one, by `ReadsInv`. It supposes,
as the property does, no script and no silent echo (see the hazards). Assumed: `request` is a name, the values that stand for "none" are outside
their sets, every activity has an exchange.

**Kafka sink** (`KafkaSinkProofs`). `SinkInv` is inductive, and has four ideas.
The driver hands over its messages in order, so what is held and what was handed
over are rising, and everything held comes later than everything handed over
(`OrderInv`). The counters: the outcomes counted, those a monitor is about to
count and the events still in a channel are together at most the messages whose
outcome the producer has told; the same holds for the value a monitor has read
and will write back, hence a lost update or a `Clear` in between makes a counter
too small, never too large (`CountInv`, which `TypeCorrect` needs for its bounds).
With synchronous delivery no message is in flight and no monitor runs, a counted
failure leaves nothing to send, and a loss is announced by the call that met it
(`SynchInv`). `Flush` returns without an error only if it found nothing pending,
and nothing is sent until the next call (`FlushInv`). From it: `LossIsAnnounced`,
`FlushSettlesAll`, `FailureStopsStage` and `RefinesSinkStage`, the whole of
`ImplementsSinkStage`: each step keeps the stage as it is, or maps to `Accept`,
`HandOver` or `GiveUp`. Assumed: buffers are not empty, the bounds are natural
numbers.

**Mongo sink** (`MongoSinkProofs`). `SinkInv` is inductive. The order of the
messages carries it: the driver hands them over one after the other, so the
batch, what is held and what was written are rising sequences, what is held is
exactly what is buffered and comes after everything written (`HeldInv`,
`HandedInv`). The counters follow: a failed bulk write drops at least one
message that no later one can have, hence the bound on the errors (`ErrorsInv`),
and during a bulk write the server is ahead of the counters by what that write
did, unless an earlier one failed (`EffectsInv`). From it: `TypeCorrect`,
`FlushIsTruthful`, `CountersAreTrusted`, and `RefinesSinkStage`: five kinds of
steps (`StepKind`) map to `Accept`, `HandOver`, `GiveUp` or a stutter. Assumed:
the operations are op types, the bounds are natural numbers; the theorems hold
for every bound.

**Array operators** (`ArrayCallsProofs`). `SelectionsHold` and `ArraysHold`:
`ItemsSelected` and `ArraysAccountedFor` hold for arrays, criteria and properties
of any number, in every behaviour of `ArraySpec`. The invariant `CallAnswered`
only says that an answer is the one of its operator; the work is in the
operators, which are folds over sequences. The library defines a fold by a
recursive function on *sets of indexes*. `LoopExists` proves that such a function
exists, and the lemmas named `...IsWalk` conclude that a fold is a walk: a
function on `0..n` whose first value is the start and whose next is a turn of
the loop. A fact about the last value then needs an induction on the index
(`Reaches`), which comes from `SmallestSubset`, the well-foundedness of the
subsets of a finite set. Two walks side by side show that two operators agree:
filter and shift (`FilterFits`), a shift that filters and one that does not
(`WholeFits`), the merged arrays and the sum of their lengths (`SumFits`), the
merge and the function of its name, which goes on where the merge stops
(`FunctionFits`). For the sort, `InsertOrders`: an insertion keeps the order,
ties by place included, if the item comes from behind all that are there;
`SortCases` tells when the sort is reached at all: no null in front and every
value of the type of the first (`Comparable`). For
`set-properties`, three steps: a document that is good at the end was good
before every property (`Documented`); what happens between any two of them is
that values are written where there were none (`ManyWrite`); so a property that
was asked for, or refused, is refused at the end (`NotAgain`, `NoneAgain`), and
the walk through the properties twice stands still in its second half
(`SetFits`). Assumed: `CallsAssumption`, the arguments are well formed.
`FunctionCalls` adds answers to calls of other kinds, which are steps
`Elsewhere` of `ArraySpec`.

**Only model-checked.** Liveness (`StopEnds`, `StopSettles`, `AcyclicEnds`,
`LoopEnds`, `MonitorsEnd`, and the fair half of `ImplementsReportLog`), which
this prover does not reach (of `AcyclicEnds`, `StepsRunOut` proves that the steps
run out); and `BuiltRunsAsWritten`, `BuiltIsAccepted` and
`AmountsKeepTheirValue` of `FunctionCalls`. Programs are recursive data, and
`DagBuilder` has `RECURSIVE` operators, which rule out a proof in any module that
reaches them. The value of an amount is a matter of powers of ten, and none of
the provers knows a fact about `^`.
Every invariant and every action property of the other runs is a theorem.

## 6. What is not modelled, and the plan

Outside for good: formatting (templates, dates, bodies, masking, metrics,
tracing), the repository reader and the pipeline definitions (read once, no
state), the drivers of pipelines (other repositories), the client libraries.

Next, in this order:

1. `Globals` and `Registries`: variables kept in a cache service and shared by
   requests, maps written without a lock.
2. `EndpointCall`: retries and waits of one HTTP call, which `Activities` takes
   as one step; the order of the guards of a response activity.
3. The variables a child is given (`SetVarsFromCase`, `var-resolver.go`).

Theorems to come: the walks of `Amounts` (the digits that `AdjustScale` keeps),
once powers are a function of the module; the rest needs liveness rules.

Limits of the present models: a child of a child is the pair of entries it
leaves, not a third level of execution; the expressions of guards are truth
values; a call to a service is one outcome; `Activities` runs its activities in
any order, without a graph and without nested orchestrations, and
`ActsOnItsAnswer` leaves out configurations with a script (one that cannot be
computed acts on its earlier answer) or with an echo kept out of the HAR; the deadline of a child
does not end its parent's; a crash of the process is not modelled, because
nothing is persisted that would be read again.
