# A verification of operatorpkg

operatorpkg is a library of parts for Kubernetes operators written with
controller-runtime. This directory models the parts that keep state or run
concurrently, checks them with TLC on small instances and proves the most
important properties with TLAPS for instances of every size.

* `tlc -workers 2 -config MCX.cfg MCX` runs a configuration, `tlapm XProofs.tla`
  checks the proofs about `X`.
* `PROJECT.json` lists the components, the runs, the theorems, the source lines
  each definition stands for, the hazards the properties are aimed at, and for
  each property a plausible bug (`...Mutant`) that breaks it.

## 1. Inventory

| Component (source) | State | Operations | Correct if |
|---|---|---|---|
| ConditionSet (`status/condition_set.go`, `condition.go`) | the condition list of one object, with generation and deletion timestamp | `For`, `Set`, `SetTrue/False/Unknown[WithReason]`, `Clear` | the root condition says what its dependents say, for the right generation; times and generations only grow; the list is complete |
| Status controller (`status/controller.go`, `metrics.go`) | last observed conditions, labels, finalizers and terminating object per request; gauges, counters, histograms | `reconcile`: found, NotFound, error | gauges show exactly what was seen last and converge to what is stored; counters and histograms balance; nothing is forgotten |
| Reconciler wrapper (`reconciler`, `reasonable`) | a failure count per request | the four answers of a reconciler | a Requeue is never lost, failures are forgotten by success, delays are those of `Requeue: true` |
| Singleton controllers (`singleton`) | one buffered event | `Source`, `AsReconciler` | the controller never stops running |
| Lease hijacker (`leaderelection`) | the Lease, a copy of it, a sleep | Get, Update, Sleep, handover | one leader at a time, and it is the hijacker |
| Events controller (`events`) | `startTime`, a counter | `NewController`, `Register`, `Reconcile` | an occurrence is counted once, over restarts and handovers |
| Mock function (`mock`) | output, error with its counts, inputs, call counters | `Invoke`, `Reset`, `Set`, `Pop` | counts and inputs agree under concurrent calls, an error is returned once, an output is returned by calls of its time |
| Metrics (`metrics`, `aws/metrics`) | a value per label set and Prometheus vector; a log per EMF metric | `Inc`, `Add`, `Set`, `Observe`, `Delete`, `DeletePartialMatch`, `Reset` over several backends; client-go's result and latency adapters with `parsePath` | the backends of a metric agree, and a request is counted under what it was |
| Partial unstructured (`unstructured`) | none, but the result may share maps with the object | `ToPartialUnstructured` | exactly the paths asked for are converted, in any order, and the object is left alone |
| Structured errors (`serrors`), AWS middleware (`aws/middleware`) | the values of errors that others wrap | `Wrap`, `WithValues`, `UnwrapValues`, the logger, `StructuredErrorHandler` | the logger gets every value, the answer of the service included, and repeats none |
| Status adapter (`status/unstructured_adapter.go`) | none | conversion of a condition list | nothing is lost |
| Helpers (`object`, `option`, `context`, `env`, `controller`, `test`, deep copies) | none | | |

How they interact. Operator code changes an object's conditions through a
ConditionSet and writes them to the API server; the status controller reads the
object from an informer's cache and turns differences into metrics and events.
The events controller counts Events that anybody records. Both run under the
work queue of controller-runtime, as do wrapped reconcilers and singletons,
whose answers the wrapper translates for that queue. The lease hijacker decides
which process runs all of them. Their metrics may go to several backends, among
them the metrics that client-go feeds with the requests of all of these parts;
the labels of the status metrics come from a partial conversion of the object.
Errors of services are wrapped by the AWS middleware and logged with their
values. The mock stands for services in tests.

What is hard here: verdicts that are stale because the spec changed or the
object is being deleted; caches that lag and skip states, so that an object may
be another one of the same name; two failure counts for one request; clocks that
disagree and answers that are slow during an election; restarts and handovers;
goroutines that race for a mock or between the backends of a metric; maps
yielded in random order and shared with the cache. `PROJECT.json` lists each at
its line under "hazards".

## 2. Modules

| Module | Models | Proofs | Instance |
|---|---|---|---|
| `ConditionSet` | `status/condition_set.go` | `ConditionSetProofs` | `MCConditionSet` |
| `StatusController` | `status/controller.go` with informer, queue and API server | `StatusControllerProofs` | `MCStatusController` |
| `NativeRequeue` | abstract: what `Requeue: true` promised | | |
| `Requeue` | `reconciler`, `singleton` and the work queue | `RequeueProofs` | `MCRequeue` |
| `LeaseHijacker` | `leaderelection` with client-go's electors | `LeaseHijackerProofs` | `MCLeaseHijacker` |
| `Events` | `events` with replicas, elections and the API server | `MetricsProofs` | `MCEvents` |
| `MockFunction` | `mock` | `MockFunctionProofs` | `MCMockFunction` |
| `PartialUnstructured` | `unstructured` and the metric labels made from it | `PartialUnstructuredProofs` | `MCPartialUnstructured` |
| `StructuredErrors` | `serrors`, `aws/middleware` | `StructuredErrorsProofs` | itself |
| `RequestLatency` | `metrics/metrics.go`: a request's labels, as operators | `MetricsProofs` | |
| `Metrics` | `metrics`, `aws/metrics`; composes vectors, EMF logs and `RequestLatency` | `MetricsProofs` | `MCMetrics` |

### ConditionSet

`conds` is what each type says, `order` the list order, `todo` how far `For` has
come, `generation`, `deleting` and `now` the object's metadata and the clock.
`Stamped`, `Modifies` and `Store` are the body of `Set` (transition time, the
`DeepEqual` early return, the generation bump of a deleting object); `Set` adds
`recomputeRootCondition` (`Verdict`, `Unhealthy`), `SetOrder` the two sorts.
`StableSort` is Go's stable sort, given by the place of each entry: one more
than the number of entries that the less function, or else their present order,
puts before it. `Earlier` is the less function of `Set`. Each setter, `Clear`
and each turn of the loop in `For` is an action; `UpdateSpec`, `Delete` and
`Tick` are the world around. Messages are kept only for the root, as the set of
dependents they name. `Settable` is what types operator code passes to the
setters; `RootDerived` says the root is not one.

### StatusController

`api` is what the API server stores, `cache` what the informer has seen;
`Deliver(k)` copies one object over any number of writes. `queue` and `delayed`
are the work queue. `observed` stands for `observedConditions` and
`observedGaugeLabels`, which are always written together; the other maps have
their names. A gauge is the set of its series; values are left out. The two
condition gauges get the same calls and are one variable, once for the per-kind
gauges and once for the deprecated ones, which lack the additional label; the
deprecated termination gauge gets the same calls as the per-kind one and never a
label in a pattern. An object's `uid` tells it from the earlier ones of its
name; `Existing` objects may be there, and terminating, when the controller
starts. `Matches` is Prometheus's rule that a label the gauge does not have
matches nothing. One reconcile is one step: the queue never runs two for one
request, requests share no state but counters, and the Get is the only input and
comes first. History variables (`vanished`, `appeared`, `noticed`, `replaced`)
record what the balance properties compare with: `noticed` the objects seen
terminating, `replaced` those whose place in `terminatingObjects`
(`controller.go:260`) was taken by another one; `entangled` holds the requests
whose label and a condition changed between the same two looks.

### Requeue and NativeRequeue

The answers of `AsReconcilerWithRateLimiter` are four actions, in the order of
its tests; `QueueResult` and `QueueRateLimited` are what controller-runtime does
with the result. `Delay[n]` is any limiter's answer after n failures. `pending`
holds the sources' first events, `errors` the errors of the present streak. Any
request may fail and requeue in any order.

`NativeRequeue` has one limiter, which counts the errors and the Requeues of a
streak together. Its `Spec` is the promise of the singleton's comment; the
wrapper keeps it as long as nobody mixes the two (`MCRequeueMixed`), because an
answer without an error clears the queue's count and the wrapper's never hears
of errors. Its `SplitSpec` is what the wrapper does keep, and what `Requeue`
refines with `requeues <- failures`: a streak of one kind has exactly the same
delays, in a mixed one the delay is that of no more failures than the streak has,
and of a Requeue that of no fewer than its Requeues.

### LeaseHijacker

A process is an elector or a hijacker; a restart is another process, as
identities are fresh. A hijacker goes start, read, updating, sleeping,
candidate. `HijackUpdate` is the API server's write and `HijackReturn` its
answer, from which the sleep counts; the client has no timeout, so any time may
pass in between, and `late` says how much has. The conflict of its Update is
`HijackConflict`, which panics; any other error of it is an `Exit`. The electors
are client-go's: `Observe` notes the local time at which a change was first
seen, `Acquire` renews or takes over, `deadline` bounds how long a leader leads
without renewing. `Skew` lets clocks disagree by up to `MaxSkew`.

### Events

Replicas are runs of a process: constructed (`startTime`), leading, ended. The
leader's queue gets what the predicate lets through. `Second` cuts an Event's
time to the second. `counted` and `skipped` record who decided what about which
occurrence.

### MockFunction

Every access to a locked or atomic field is one step; `pc` says where in
`Invoke` a caller is, `resetting` how far `Reset` has come. `Set` takes nil too
and may come at any time. `Quiescent` says whether tests reset only between
calls, as the comment on `Reset` asks for. The history `during` holds the outputs
that the function had during each caller's call.

### PartialUnstructured

A document is the set of the paths of its leaves. `Convert` starts a call and
the three `Extract` actions handle one field path each, in any order, since the
controller passes the values of a Go map: a missing field, a path of one name,
whose value goes into the result as it is (`whole`), and a longer one, which is
merged below its first name. The recursion is folded into one step: every
inner level starts from an empty map, so only the outermost merge meets
anything. `typed` tells a struct, where merging into a shared value panics,
from an Unstructured, where it writes into the object.

### StructuredErrors

`errs` is the sequence of all errors made, an error being named by its index, so
`WithValues` changes what everything above it reports. The loops are recursive
functions of the error: `chain` is the loop over `errors.Unwrap`, `visited` the
loop of `UnwrapValues`, which also looks at the elements of joins (`Elements` is
`multierr.Errors`), and `reach` all that an error wraps. `UnwrapValues(e, k)` is
the list that comes out for a key, appended one by one (`Collected`).
`HandleDeserialize` is the AWS handler; of the answers it has `Met` the last one
stays. Errors of other packages (plain, wrapping one, joining two, the SDK's)
are external. `Join` joins any two errors, an error with itself included, as a
retry loop may: `errors.Join` nests a join, `multierr.Append` takes over its
elements. `KeysApart` says that callers do not use the middleware's keys, which
have a prefix of their own.

### RequestLatency and Metrics

`URLTemplate` is client-go's replacement of names by `{namespace}` and `{name}`
(`Namespace` and `Name`), which counts segments; `parsePath` and `ObservedVerb`
are what the adapter makes of it, `RequestLabels` what the request was.
`WellFormed` says what requests client-go makes: only a request with a resource
has a namespace or a name, an update and a subresource have a name, and no group,
resource or subresource is spelled `{name}`.

In `Metrics` the loops of `metrics/multi.go` are a step for each backend:
`todo[c]` holds the next step of a caller's call, `Step` carries it out, and
`Onward` is the turn of the loop that follows, so two callers' calls interleave
between backends. A request of client-go's puts the updates it makes into `todo`
at once, one for each answer and one for the latency. `Prometheus` and `EMF` are
what a step does to a vector and a log. `contended` records the series at which
calls that do not commute have overlapped, until a call that sets or drops the
series; `dropped` the series that a call has dropped, and `served` the requests
made with their answers. `LabelsAssumption` says that the label sets of a vector
have the same names, as they have in the code, where a vector is made with its
label names, and that the additional properties of EMF metrics are no labels.

## 3. Runs

No configuration checks deadlock: all of these systems may come to rest, and do
when a bound is reached.

| Run | Instance | Shows |
|---|---|---|
| `condition_set` | two dependents, one sorting before and one after the root, an independent type, 3 generations, 2 times | `RootMatchesDependents`, `ReadyIffDependentsReady`, `RootIsFreshest`, `ReadySinceDependentsReady`, `DeletionBumpsTogether`, `KnownStayPresent`, `ListsEveryCondition`, `NeverRewinds` |
| `status_controller` | one object, there or not and terminating or not at the start, two labels, three condition values, 3 writes, fair | `ConditionSeriesExact`, `DeprecatedSeriesKept`, `TerminationRemembered`, `TerminationsObserved`, `TransitionsBalance`, `FinalizersAnnounced`, `NeverForgotten`, `Converges` |
| `requeue` | a watched request and a singleton, each of which fails and requeues, exponential limiter, 4 failures of each kind, fair | `NoLostRequeue`, `CountsFollowAnswers`, `AskedRunsAgain`, `BacksOffAsNative` |
| `lease_hijacker` | two electors, two hijackers, one with its clock ahead, answers of any delay, 5 time units | `OneLeader`, `HijackWins` |
| `events` | two runs of a process, one Event of the kind and one of another, 2 steps per second, fair | `CountedByOne`, `EventuallyCounted` |
| `mock_function` | three callers, 4 calls, Set and Set(nil) at any time, resets between calls | `ErrorOnce`, `CallsAccounted`, `ReturnsOutputOfCall` |
| `partial_unstructured` | every object over 8 paths of up to 3 names, every set of up to 3 field paths, 2 conversions | `ConvertsExactly`, `ConversionIsPure`, `OnlyRequested` |
| `structured_errors` | two keys, 4 operations | `ReportsWrapped`, `AnswerReported` |
| `metrics` | two callers, 3 calls; a gauge with two vectors and a log, a counter with a vector and a log, a summary with two vectors; 8 kinds of request, answered at once or after a retry | `BackendsAgree`, `RequestsCounted` |

Why the bounds are enough. Conditions: a verdict is compared with the present
generation only; three generations hold a spec change and the deletion in either
order, and two times tell before from after. Status controller: three writes
reach set, delete and create again, every pair of changes within one look, and,
from an object that is terminating at the start, a second terminating one in its
place. Requeue: with four failures of each kind the delay reaches the limiter's
maximum, and errors and Requeues mix in every order. Lease: `GiveUp + MaxSkew =
LeaseDuration` is the tightest timing the configuration of client-go allows, and
5 units hold a hijack, an answer slower than the head start and the next
election. Mock: a race needs two callers, the third is a bystander, and the
fourth call the next one of somebody. Conversion: two conversions of one object
show what the first has done to it, and three paths hold a pair that clashes and
a bystander. Errors: four operations build a join of wrapped errors under a
wrapper, or a middleware over two answers. Metrics: two calls that cross and a
third that repairs. The theorems below do not have these bounds.

Fairness. `Converges`: the informer delivers and timers fire (weak fairness),
and a request that keeps coming due is at some time reconciled without an error
(strong fairness: `Get` may fail any number of times, but not for ever).
`AskedRunsAgain`: timers fire. `EventuallyCounted`: the workers serve the queue.
controller-runtime guarantees each of these while the process runs.

Symmetry is used for electors, for mock callers and for the callers of metrics,
in runs without liveness. `MCStatusControllerKeys` runs the status controller
with two objects whose labels do not change and 3 writes, where
`DeprecatedSeriesExact`, `TransitionsBalance` and `FinalizersAnnounced` hold
too.

### Disagreements between comments and code

Three runs expect a violation:

* `deprecated_relabelled`: `controller.go:296` says that the deprecated series
  go "only when there is a change in the condition status"; if the labels change
  in the same look, they stay. `DeprecatedSeriesKept` says what is left to hold.
* `partial_siblings`: `unstructured.go:12`, "only converts specific field
  paths"; of two paths such as `metadata.labels.x` and `metadata.labels.y` one is
  lost, and which one changes with the order of a map, so that the gauge's labels
  change from one reconcile to the next.
* `events_handover`: `events/controller.go:54`, "we don't duplicate metrics on
  controller restart or lease handover"; a standby's `startTime` is that of its
  construction, and it counts again.

Further configurations show smaller ones, each with one violated property:
`MCConditionSetRootLast` ("Order the root status condition at the end": not
after `Clear`), `MCConditionSetSetFalse` ("sets the status of conditionType and
the root condition to False": not for an independent type),
`MCStatusControllerRecreated` (`metrics.go:130`, "The current amount of time in
seconds that an object has been in terminating state": an object created again
between two looks keeps the series of the one before),
`MCStatusControllerReplaced` (`metrics.go:151`, "The amount of time taken by an
object to terminate completely": a terminating object that another one of its
name replaces between two looks is never observed), `MCLeaseHijackerLate`
(`leasehijacker.go:52`, "Make our lease longer to guarantee we win the next
election": while the answer to the Update is late an elector takes the lease,
and the hijacker sleeps on), `MCLeaseHijackerConflict` (`leasehijacker.go:21`,
"your local process will forcibly become leader": a renewal between Get and
Update makes it panic), `StructuredErrorsJoined` (`serrors.go:66`, "from every
wrapped error": values wrapped below an element of a join are lost),
`MCMetricsKind` (`metrics.go:105`, "the resource is not the namespace": the
status of a namespace is counted under the kind `status`),
`MCStatusControllerRelabelled` (two termination series of one object),
`MCRequeueMixed` (`singleton/controller.go:35`, "the same behavior as Requeue:
True": a Requeue after an error waits as if there had been no error),
`MCRequeueBucket` (a limiter that answers zero loses a Requeue),
`MCEventsSecond` (what occurs in the second of the start is skipped),
`MCMockFunctionRace` (`atomic.go:10`, "makes setting and retrieving the values
race free": a Set(nil) between `IsNil` and `Clone` yields a zero value),
`MCMockFunctionAgain` (a second error set without a Reset is never returned).

## 4. Theorems

Every `TypeCorrect` theorem is `Spec => []TypeOK`, and the others rest on it.

* **ConditionSet.** `Freshness` conjoins `RootIsFreshest`,
  `DeletionBumpsTogether`, `KnownStayPresent` and `RootVisitedFirst` (`For` looks
  at the root before any other type); each needs the others, since a Set that
  bumps all generations, or returns early, relies on a root that is there and at
  least as fresh. `RootFreshness`, `DeletionBump` and `KnownPresence` follow.
  `RootIsDerived` adds what the root says and since when; from it `RootVerdict`,
  `RootSince` and `ReadyMeansReady`, under `RootDerived`. `Forward` is the action
  property `NeverRewinds`. `ListComplete` is `ListsEveryCondition`: a stable sort
  by a less function that is a strict weak order compares the entries by a strict
  total order, in such an order every place from 1 to n is taken once
  (`PlacesDistinct`: the later of two has more before it, and n different places
  below n + 1 are all of them), so sorting loses and repeats nothing
  (`ArrangedLists`); and what is sorted is the old list without the type that is
  set, and that type. The less function of `Set` is such an order only because
  there is one root in the list, which is what the property says of the list
  before.
* **StatusController.** `GaugesExact` shows for any set of objects, types and
  labels that what is left after the deletions is exactly the series just set;
  `DeprecatedGaugesKept` that the deprecated gauges lose none of them, and keep
  no other unless the request is `entangled`. `RequestsKept`, `TerminationKept`.
  `TerminationsCounted`, `CountersBalance` and `FinalizersCounted` count the
  requests of a finite set that remember an object, hold a status or hold a
  finalizer: a reconcile changes one request, so each count moves by one at most
  (`OneMember`), with the counter that belongs to it. A termination that is
  noticed is observed, remembered or replaced, and one that is replaced is lost.
* **Requeue.** `SuccessForgets`, for any limiter and any mix of answers;
  `RequeueKept` and the refinement `ImplementsNative` under `PositiveDelay`, for
  any mix of answers too: `MCRequeueBucket` shows that the assumption is needed.
  The invariant `Streaks` relates the two limiters to the streak: the queue's
  counts no more than its errors, and exactly those while there was no Requeue in
  it. From it `ErrorCount` and `RequeueCount` say how many failures each delay
  stands for.
* **LeaseHijacker.** `MutualExclusion` and `HijackersWin` under `SafeTiming`
  (`GiveUp + MaxSkew <= LeaseDuration`), however late an answer is. `HijackWins`
  says by how much the lease outlasts the sleep: an elector takes it before the
  sleep ends only if the answer took longer than `Extra - MaxSkew`. `OneLeader`
  alone is not inductive. The invariant adds: a leader that does not hold the
  lease any more has a deadline that the holder's sleep, the duration of the
  lease as others first saw it, or a hijacker's up-to-date copy of it covers
  (`Covered`, `SleepFits`, `HolderFits`, `CopyFits`), and how the history of
  writes relates to the lease (`History`).
* **Events** (in `MetricsProofs`, which extends both modules, as what Events
  counts is a metric too; so Events' specification is named `EventsSpec`).
  `EventsTypeCorrect`, and `RestartCountsNothingTwice`: without standbys,
  whatever a run has counted occurred before the next run started.
* **MockFunction.** `ErrorReturnedOnce`: errors returned are among the calls
  counted, of which there is one at most (`Counted`). `OutputsAsSet` holds whoever
  sets, unsets or resets next to the calls; its invariant `Witnessed` says what a
  caller at each step of `Invoke` has already seen: the present output is one of
  the call, an output was there when it is to be cloned, and nil when the
  transformer is to run. `BooksBalance` holds under `Quiescent`, from which
  `Calm` follows: nobody is in `Invoke` during a Reset. It counts the
  callers that are between recording their input and counting their call
  (`Books`): each step of `Invoke` moves one caller into or out of that set,
  with the counter that belongs to it, and what a Reset has emptied stays empty
  until it is done (`Emptied`).
* **PartialUnstructured.** `Exact`, `Pure` and `NothingElse`, for objects of any
  depth and any number of paths. The invariant of `Exact` says what the result is
  half way: exactly the leaves that the paths handled so far ask for. It is
  inductive only together with `Pure`, because a merge into a shared map would
  change what later paths read; and both need that the paths differ within two
  names.
* **StructuredErrors.** `WrappedReported` and `AnswerKept`, for any keys and any
  number of errors, under `KeysApart`. The invariant `Built` says that an error
  wraps earlier ones only, a join two and any other at most one, and everything
  else is induction on the index of an error. The prover cannot instantiate the
  library's induction theorems, so `Induction` is stated for a set of indices
  and proved from its least counterexample, and `Recursion` builds from it the
  function that a recursive definition describes: `ChainDefined`,
  `VisitedDefined` and `ReachDefined` say that the loops are what their
  definitions say, and so that they end. `WrappedReported` needs no more than
  `Built`: with flat joins the loop shows every structured error that is
  reached, once unless it was joined with itself (`JoinedTwice`), an outer one
  before those it wraps (`Shows`, proved for a join and for a link of a chain),
  and collecting keeps that (`CollectedGathers`). `AnswerKept` needs that later
  errors have later answers (`Ordered`) and that an error that went through the
  handler holds, for every answer on its way, one that is no later (`Handled`).
  `AnswerReported` itself is not inductive, as it says nothing of an error
  before it is wrapped, and a new error extends the loops, but changes none over
  the errors before it (`ChainKept`).

* **Metrics.** `BackendsTellTheSame` and `EveryRequestCounted`, for any callers,
  metrics, backends in any order, labels, requests and answers. Both properties
  are about moments at which no call is under way, so neither is inductive; the
  invariants add what the calls under way have still to do.

  `Typed` is the type invariant and the shape of `todo`: a direct call is at one
  backend, and if it drops series they are in `dropped`; a request's steps are on
  the client metrics, which have one backend.

  `AgreeInv` looks at one series of one metric at a time, through what concerns
  it: the calls under way that hit it (`Work`), which vectors have it (`Having`)
  and what each backend says of it (`Saying`, for a log the replay of its
  entries). A series that is not contended is `Agreeing`: the calls under way
  commute, and either one of them sets or drops the series and every backend it
  has been at shows it (`Sweeping`), or what a backend says and the increments
  still to come to it are together the same at every backend (`Even`). A call
  that starts either meets nothing and begins to sweep (`StartsOver`) or adds its
  increment everywhere (`StartsIncrement`); a step moves an increment from what
  is to come into what is said (`MovesIncrement`) or sweeps one backend more
  (`MovesSet`, `MovesDrop`); at the last backend a sweep leaves all of them even.
  A log has not heard of a drop, so from then on its word counts for a gauge
  only, and only while some vector has the series (`Counts`).

  `CountInv`: what a series of the client metrics counts and what the calls under
  way will add to it are together what the requests made stand for. When nothing
  is under way, a request stands for one in the series of `ObservedLabels` and for
  its answers in the series of their codes; `ObservedIsRequest` shows that for a
  request that is not `Ambiguous` these labels are `RequestLabels`, by going
  through the shapes a path can have before and after client-go's template.

  The sums are over the callers in some order (`Over`), or over a sequence, and
  are recursive functions: `TotalIs` gives what they come to from the running
  sums, and `TotalAppend`, `TotalTail` and `TotalChange` are what the proofs use,
  again by induction stated for a set of numbers (`UpTo`).

Only model-checked: liveness (`Converges`, `AskedRunsAgain`,
`EventuallyCounted`), which TLAPS does not do here. Every invariant and every
action property that a passing run checks, and the refinement, is a theorem.

## 5. Not modelled

The status adapter reads and writes a condition list field by field; it would
add to ConditionSet only that times are cut to the second. Options, contexts,
environment variables and object helpers keep no state; test helpers and
generated code are left out. Of the modelled parts:

* status controller: gauge values, the text of events and the object an event
  refers to (`controller.go:239` records Finalized on an empty object);
* events controller: how often one replica counts the same occurrence again
  after a resync or an update (`events/controller.go:56`);
* metrics: registration, the JSON of EMF entries, the panics on labels that do
  not fit a vector and on failing writes, and whether an entry without
  dimensions (`emf.go:56`, `Add`) is meant; `With` and the update after it are
  one step, as an update of a series that is dropped in between is lost, which
  is the order in which it comes first;
* structured errors: the text and the sorting of keys, so that a key with a
  plural s may meet another one (`serrors.go:93`), and the panic on arguments
  that are no pairs;
* partial conversion: an empty field path, which panics, and empty maps.

## 6. Plan

1. Done: ConditionSet, StatusController, Requeue, LeaseHijacker, Events,
   MockFunction; then PartialUnstructured, StructuredErrors, RequestLatency and
   Metrics.
2. Done: every invariant and action property of a passing run is a theorem.
3. Compose StatusController with ConditionSet, with generations and transition
   times, so that observed durations and the adapter's rounding to seconds can
   be talked about; a bag of counts in Events; a condition type that becomes a
   dependent with a new release.
