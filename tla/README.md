# A verification of promcore-cpp in TLA+

promcore-cpp is a C++ client library for Prometheus: a program registers families
of metrics, updates the metrics from any thread, and a scrape collects them all and
writes them as text. This directory holds TLA+ modules for the parts of the library
that keep state, TLC configurations that check them on small instances, and proofs
for every value of the constants. Source paths below are relative to `core/`.

## 1. Inventory

| component | state | operations | used by / uses | module |
|---|---|---|---|---|
| Registry (`src/registry.cc`) | a vector of owned families per metric type, `insert_behavior_`, a mutex | `Add` (private, called by `Builder::Register`), `Remove`, `Collect` | calls `Family::Collect` with its mutex held | `Registry`; its lock in `Scrape` |
| Family (`src/family.cc`) | map from labels to owned metrics, constant labels, a mutex | `Add`, `Remove`, `Has`, `Collect` | calls `Collect` of each metric with its mutex held; calls the name checks | `Family`; its lock in `Scrape` |
| Gauge (`src/gauge.cc`) | one `std::atomic` | `Increment`, `Decrement`, `Set`, `SetToCurrentTime`, `Value`, `Collect` | held by Counter and Histogram | `Gauge` |
| Counter (`src/counter.cc`) | a gauge | `Increment`, `Reset`, `Value`, `Collect` | Histogram has one per bucket | `Counter` |
| Histogram (`src/histogram.cc`) | counters, a gauge, a mutex | `Observe`, `ObserveMultiple`, `Reset`, `Collect` | | `Histogram` |
| Summary (`src/summary.cc`, `src/detail/time_window_quantiles.cc`) | count, sum, a ring of sketches, time of the last rotation, a mutex | `Observe`, `Collect` | reads `steady_clock` | `Summary` |
| CKMSQuantiles (`src/detail/ckms_quantiles.cc`) | sorted sample, buffer of 500 | `insert`, `get`, `reset` | used under the mutex of a Summary | `CKMSQuantiles` |
| Builder (`src/detail/builder.cc`) | name, help, labels of one thread | setters, `Register` | calls `Registry::Add` | `Exposition` |
| name checks (`src/check_names.cc`) | none | `CheckMetricName`, `CheckLabelName` | called by Family | `CheckNames` |
| TextSerializer (`src/text_serializer.cc`) | locale and precision of a stream | `Serialize` | reads the result of `Registry::Collect` | `TextFormat`, `TextSerializer` |
| Info, data types (`client_metric.h`, `metric_family.h`) | none | `Collect` of Info | made by `Collect`, read by the serializer | `Exposition`, `TextFormat` |
| LabelHasher (`hash.h`, `labels.h`) | none | a hash of labels | the map of Family | not modelled |

What is hard in this code, and for each component what makes it correct:

* **Registry.** Check-then-insert over several containers under one mutex; four
  exceptions inside the critical section; `Remove` identifies a family by an address
  that the allocator may reuse. Correct: names are unique over all types, every
  family has one owner, a scrape sees one state of the registry, every call releases
  the mutex.
* **Family.** It inserts first and checks the labels afterwards. Correct: nobody ever
  sees a metric that is going to be refused, a refused one leaves nothing behind.
* **Gauge, Counter.** A compare-exchange loop. Correct: no update is lost or doubled,
  some thread always makes progress, a counter goes down by `Reset` only.
* **Histogram.** Several counters that a scrape must see together; fractional,
  negative and ill-sized batches.
* **Summary.** A lazy rotation that catches up with a clock which does not stand
  still. Correct: an answer is computed from the right window.
* **CKMSQuantiles.** Index arithmetic in insertion and compression. Correct: no value
  is lost, the answers of one sketch are in order and within the tolerated error.
* **Registry, families and metrics together.** A scrape holds up to three mutexes while
  the other calls destroy families and metrics and the mutexes inside them. Correct:
  nothing dangles, nobody waits in a circle, a scrape is regular: what stayed is
  reported, with a value it had meanwhile.
* **Names, labels and text together.** Labels come from the family, from the metric
  and from the serializer; series names get suffixes; numbers lose digits. Correct: one
  sample per series, one type per name, closed histograms.
* **TextSerializer on a caller's stream.** The stream has settings of its own, fails,
  throws, and is used again. Correct: the caller's settings come back, the text does not
  depend on them, a cut text is never taken for a whole one.

The complete list of hazards, each at its line and with the properties that cover it,
is in `PROJECT.json`.

## 2. Modules

`Xxx.tla` models a component, `XxxSpec.tla` (for the gauge: `AtomicCell.tla`) states
what it promises, `MCXxx.tla` gives it small constants, `Xxx_proofs.tla` holds proofs;
those about TextSerializer and Exposition, which meet in `TextFormat`, are in `Text_proofs.tla`.

    AtomicCell <= Gauge <- Counter        RegistrySpec  <= Registry     Summary
    HistogramSpec <= Histogram            FamilySpec    <= Family       CKMSQuantiles

    Scrape:      registry, families, metrics as locks and lives
    Exposition:  CheckNames + registry, families, metrics as atomic objects + TextFormat
    TextSerializer:  TextFormat on a stream

(`A <= B`: B is shown to implement A.)

The models of components with a mutex are split in the same way: a call is *invoked* with
its arguments, *locks* the mutex, takes one step per access another thread could meet,
*unlocks*, and *returns*. `pc[t]` says where thread `t` is. The steps inside a critical
section are kept apart although the mutex serializes them: that it does is what is to
be checked.

**Registry.** A family is named by the address of its heap object; `families[T]` is the
vector of type `T`, `heap` maps the live addresses to (type, name, constant labels).
`AddCheckOtherType`, `AddFind`, `AddNew`/`AddNewThrows` are the three parts of
`Registry::Add`; `RemoveFind`, `RemoveErase` those of `Remove`; `CollectFamily` is one
iteration of `CollectAll`, `CollectNextType` its end. `AddNew` may take any address not in
use. `refs` are the references the program may still use; `stale` marks threads that
hold an address erased behind their back. The seven metric types are a constant,
`TypeOrder`. `RegistrySpec` is an atomic table from names to families; the refinement
mapping looks up the one family of each name.

**Family.** A metric is the address of its object. `spare[t]` is the object `Add` has
constructed before taking the mutex. `FamilySpec` is an atomic map. The mapping `Table`
leaves out a metric that is inserted and not yet checked, and `Response` delays an
answer until its operation has taken effect: the step that checks the labels is the
linearization point of `Add`, although the insertion is an earlier one.

**Gauge, Counter.** The number type is a parameter (a set with `Plus`, `Times`, `Less`).
`Load`, `Exchange`, `Retry` are the accesses of `Change`, which as built is the loop also
for `int64_t`: `__cpp_lib_atomic_float` is not defined in C++17. `AtomicCell` has additions,
assignments and reads that happen at one instant. `Counter` extends `Gauge` by the guard
of `Increment` and by `Reset`.

**Histogram.** `Observe` looks up the bucket before it locks (`FindBucket`), then adds to the
sum and to the bucket; `ObserveMultiple`, `Reset` and `Collect` go through the buckets one
by one. The counters are private and touched under the mutex only, so an update of one
is a single step. Counts are integers in units of 1/`Unit`, so that fractional increments
and the truncation in `Collect` exist. `log` is a history variable: the updates since the
last reset. `HistogramSpec` computes a scrape from that list by comparing each observed
value with each bound, not by the code's index; where fractions were counted it allows
the scrape to be less than one observation per bucket too low.

**Summary.** `ReadClock`, `Rotate` (one iteration), `RotateDone` are `rotate()`, called by `insert`
and by every `get`; `Tick` may happen between any two steps. An age bucket is the set of
observations it was given since its reset; the answer to a quantile is that set with the
clock reading it was asked at.

**CKMSQuantiles.** One step per operation, as the mutex of the summary covers it. The
search, the insertion and the compression are translated with their index arithmetic
(positions count from 1). Errors and quantiles are percentages and exact fractions, so
rounding of doubles is abstracted. `std::sort` is modelled by its result: at position k is the
least value that k entries of the batch do not exceed (`Sorted`). Targets 0 and 1, for which the code divides by zero,
are in: an infinite or NaN error never is the least one.

**Scrape.** The composition at the level of the mutexes. `owner` maps each mutex, the
registry's, a family's or a metric's, to the thread that holds it. A call walks down:
`Register`, `RemoveFamily` take the registry's; `AddMetric`, `RemoveMetric` a family's; an
`Update` that of a histogram or summary, or none (`Atomic`); a scrape takes the registry's,
visits one family after the other (`VisitFamily`, `LeaveFamily`) and in each one metric
after the other (`VisitMetric`, `ReadMetric`), holding what is above. Removal ends the life
of a family with all its metrics. `Allowed` is the contract of `registry.h:88-90`: the
program starts no call on something that another of its calls is destroying. A scrape is
under no contract. What an object holds is one number that grows. `floor`, `kept` and `ever`
are history: for each scrape, the values at its beginning, the metrics that have been there
ever since, and those that have been there at some time since.

**CheckNames, TextFormat, Exposition.** The composition from `Builder` to text.
`CheckNames` has the character rules; a name is a sequence of characters, where a word such
as `le` counts as one. `TextFormat` turns a scrape, in the records of `metric_family.h` and
`client_metric.h`, into lines: suffixes, added labels, the closing bucket, the type word,
and `Printed`, what a double is read back as from its 16 digits. In `Exposition` the registry,
families and metrics are atomic objects, as the other modules show that they may be
regarded (for Summary, the quantiles are any number); here they have names, labels,
boundaries and values. The text is a function of the state: what a scrape would give now.

**TextSerializer.** `Serialize(std::ostream&, ...)` on a stream with any locale, precision,
exception mask and state, which may fail in the middle of any line; afterwards the caller
may call again on the stream as it was left. `std::ostream` is external and behaves as the
standard says. `written` is what the buffer has taken, with the settings it was written
with. Its specification is `StreamSpec`, so that one module can extend both it and Exposition.

Definitions marked "Not the code" are wrong variants of the definition that follows
them. Replacing the one by the other shows that a property notices that mistake; no
specification uses them.

## 3. Model checking

| run | instance | what it shows |
|---|---|---|
| `registry` | 2 threads, 2 types, 2 names, 2 label sets, 2 addresses | `NamesUnique`, `Ownership`, `AddReturnsItsFamily`, `ScrapeComplete`; `Linearizable`: the registry implements the atomic table; `SomeCallReturns`: the mutex is always released |
| `registry_reuse` | the same | violated: see 5.1 |
| `family` | 2 threads, 3 addresses, 4 label sets (2 good, one reserved for histograms, one constant label) | `Ownership`, `NeverSeenInvalid`, `CleanWhenFree`, `Linearizable` |
| `gauge` | 2 threads, two's complement of 3 bits, all operands | `Linearizable`, `LockFree` |
| `counter_double` | 2 threads, floating point with 2 significant bits, infinities and a NaN | `NeverNegative`, `OnlyResetLowers` |
| `histogram` | 2 threads, boundaries (1, 2) and none, five values including a NaN, four batches, 2 updates between resets | `Linearizable`: no torn scrape, every value in its bucket; `OnlyResetLowers` |
| `summary` | 2 threads, 2 quantiles, 3 age buckets of 2 ticks (`max_age` 7, so that the division leaves a rest), 10 ticks, 2 observations | `WindowBounds`, `NothingComesBack`, `ScrapeConsistent`, `RotationEnds` |
| `ckms` | targets 50±10 and 90±10 percent, 4 values, buffer of 3, 7 insertions | `NothingLost`, `KeepsMaximum`, `QuantilesOrdered` |
| `ckms_accuracy` | targets 50±10 and 90±5 percent, 4 values, the code's buffer of 500, 6 insertions | violated: see 5.2 |
| `scrape` | 2 threads, a family of counters and one of histograms, one label set, values up to 1 | `NoDangling`, `NoCircularWait`, `ScrapeRegular`; `SomeCallReturns` over three levels of locks |
| `exposition` | 5 types, 4 names (`h`, `h_count`, one with `__`, none), 5 label sets (with `le`, `quantile`, a bad name), 2 families, 2 metrics, 2 updates of each | `LabelNamesUnique`, `TypeOnce`, `SeriesUniqueIfApart`, `HistogramsClosed` |
| `text_serializer` | 5 scrapes, among them histograms whose scrape has no buckets, a last bucket +Inf or none; 2 locales, 2 precisions; throwing and not, good and bad; calls repeated without end | `StreamRestored`, `OneFormat`, `NothingMissing`, `HistogramClosed` |

**Why the bounds are enough.** Every operation involves at most one call that holds a
mutex or has read an atomic and one that interferes, so two threads show each
interleaving of interest. Two types, names and addresses are the least with which a name
can clash in the own and in another type and an address can be reused while another is
live. Three bits hold an overflow in both directions. The three-bucket histogram has a
first, a middle and the open last bucket, and two updates are needed to tear a scrape.
Ten ticks let the summary's ring turn more than once after a pause. Seven insertions with
a buffer of three reach two full flushes, flushes by `get` in between and, with a tolerance of
10 at both targets, merges at both ends of the sketch. In `scrape`, a family with a lock in
its metrics and one without are the two ways down; a third thread could close a longer
circle of waits, which the proof excludes for any number. In `exposition`, a collision
needs two families or two metrics, and two observations make two buckets differ.

Named bounds in guards: `MaxUpdates` (Histogram, Exposition), `MaxObservations` and `MaxTime`
(Summary), `MaxInserts` (CKMSQuantiles), `MaxValue` (Scrape), `MaxFamilies` and `MaxMetrics`
(Exposition); Registry, Family, Gauge and TextSerializer need none.

**Fairness.** A thread inside an operation keeps running (weak fairness of `Run(t)`): the
operating system schedules every thread. In Registry and Summary a free mutex that is
wanted is granted to somebody (weak fairness of `\E t : Lock(t)`). In Scrape, where there are
several mutexes, each thread takes a mutex that *stays* free (weak fairness of `Lock(t)`). In
either case nothing is said of a waiter that others keep overtaking: `std::mutex` promises
no more. No thread has to call, and the clock does not have to advance. Hence the liveness
properties say that *some* call returns, that *some* update completes, and that a rotation
ends.

**Conditions in properties.** Three properties hold under a condition, and in each case
the code breaks them without it: `SeriesUniqueIfApart` needs `NamesApart` (5.3) and `BoundsApart`
(5.4), `StreamRestored` a stream that does not throw (5.5). Each is a contract with the user that
the repository does not spell out; what the property shows is that there is no other way to
break it.

## 4. Proofs

`tlapm` checks the theorems below for all constants that satisfy the named assumptions:
`NoOneAssumption` (the owner of a free mutex is no thread), `ForeignAssumption` (a pointer that
is not the family's is no address of its own), `TypeOrderAssumption` and `RejectedAssumption`
(Registry), `NumbersAssumption` (Gauge: the arithmetic stays in the number type),
`UnitAssumption` and `ArgumentsAssumption` (Histogram: lists are finite), `WindowAssumption` (Summary:
at least one age bucket and an interval of at least one tick), `QuantilesAssumption` (Summary: the
number of quantiles is finite), `TargetsAssumption`, `ValuesAssumption` and `BoundsAssumption` (CKMSQuantiles:
targets between 0 and 100 percent, finitely many numbers, a buffer of at least one place),
`ObjectsAssumption` (Scrape: registry, families and metrics are different things),
`LinesAssumption` (a text is finite) and `ClassicAssumption` (TextSerializer), `TypesAssumption` (each
metric type has one place in a registry) and `ArgumentsAssumption` (names, boundaries and quantiles are
vectors, labels are finite maps; Exposition).

Each module proves `Invariance`, `Spec => []IInv`, with one lemma per action, and draws
the properties from it (Text_proofs has two, `StreamInvariance` and `ExpositionInvariance`). `IInv` is `TypeOK`, the properties themselves where they are part of the
induction, and what is named here.

Most scrapes add up, concatenate or merge a sequence. `tlapm` has no induction rule that takes a
predicate, so the modules that reason about data carry their own: the lemma `Induction`, that a
set of numbers with 0 and with n + 1 for every n in it has all of them (from the least number it
would leave out, `WFMin`), and from it `FoldExists`, `RunningExists` and `SameResult`, by which a fold
of the community modules is the last of a row of intermediate results. A fact about a sum is then
a fact about one step of the row.

**Registry_proofs.** `NamesUnique` is not inductive by itself: `AddNew` keeps it only because of
what `AddCheckOtherType` and `AddFind` saw before. `IInv` therefore adds

* `Exclusive`: exactly the thread between `Lock` and `Unlock` holds the mutex;
* `CallMatches`: a thread runs the body of the operation it called;
* `ChecksHold`: what the checks established is still true when it is relied on;
* `RepliesLive`: a reference on its way to the caller is live unless marked stale,

and `Ownership`, without which erasing one slot could leave an owner of a dead family.
`QuietStep` covers the steps that change neither the families nor the heap, `FinishStep` the
answers that carry no reference; `Splice`, `EraseAt` and `EraseUnique` say what removing a
position does to a sequence without duplicates. Results: `TypeCorrect`, `UniqueNames`,
`SoleOwner`, `AddCorrect`.

A second invariant, `RInv`, is about what a call has seen and done so far, and rests on the first.
`Phases` says which calls have an answer (from the step that decides it to the return) and which
threads hold part of a scrape (none before its first step); `Gathered`, that a scrape which has come to position n of type T has the families of the types before T and the first n of
T, once each. As the vectors do not change while it holds the mutex, at its end that is the
whole table: `CompleteScrape`. `Atomic` is the refinement of `RegistrySpec`, one operation of the table
or a stutter for each action.

**Family_proofs.** The invariant (`Holding`, `Places`, `Clean`, `Private`) says that labels that are
not valid are in the map only while the `Add` that is going to refuse them holds the mutex,
and that its object is nobody else's. Results: `TypeCorrect`, `SoleOwner`, `OnlyValidSeen`,
`CleanAfterwards`, and `Atomic`: the family implements `FamilySpec`. Each action is shown to be
one operation of the atomic map or a stutter under the mapping `Table`, `Response`
(`SilentSteps`, `RemoveRefines`, `HasRefines`, `CollectDoneRefines`, ...). A `Remove` after
which the map has the same entries and an `Add` of labels that exist are the delicate cases: that
no invalid entry is around when another thread takes effect comes from `Clean`.

**Gauge_proofs.** `Atomic` is the refinement `Spec => Linearizable`: every access is an operation
of the atomic cell or a stutter, the failed exchange being a stutter, for any closed number
type. `CounterMonotone` shows `OnlyResetLowers` for number types in which adding an amount
that is not negative does not lower (true of doubles with rounding and of integers that
do not overflow, false of those that wrap), `CounterNeverNegative` shows `NeverNegative` where
sums keep their sign. Both need `CounterInv`: the operand of a pending addition is not
negative.

**Histogram_proofs.** `Exclusive` and `CallMatches` (a batch in use has passed the size check
for these very buckets, `Fits`) give `TypeCorrect`, that no index leaves its array.
`SeriesAreCounters` shows `OnlyResetLowers` for any boundaries and batches, over any numbers that
are `Summable`.

`HInv` relates the counters to the list of updates. `Sorted`: the boundaries are in order, so that the
bucket `std::lower_bound` finds is the one whose bounds enclose the value; `LogFits`: the updates have
one increment per bucket; `Agrees` and `Half`: counters and sum are those of the list, but for what an
update that is half done has added to them, or reset, so far; `Placed`: a bucket looked up before
the lock is still the right one after it, loops start at the first bucket, and only finished calls
have an answer; `Collected`: the buckets that a scrape has are whole, do not fall from one to the
next, and are less than one observation per bucket short of the exact count.
`Agreeing` proves it and `Atomic` that the histogram implements `HistogramSpec`. Both assume
`Arithmetic(Numbers)`: sums stay in `Numbers`, the order is transitive, and of two neighbouring boundaries the first is at
least the second or less (no boundary is a NaN; an observed value may be).

**Summary_proofs.** What a bucket holds was put there when its index meant something else, so
the invariant goes by `Ahead(b)`, the number of turns until bucket `b` is the current one.
`Edge(b)` is the instant it was emptied, computed from that; `Sorted`: the bucket holds the
observations after its edge and no earlier ones (on the edge itself either may be); `Nested`: the
sooner a bucket is current, the more it holds; `Punctual`: the rotation is not ahead of the clock, and
no interval behind its reading when a bucket is used. From them follow `Window` (`WindowBounds`: all
of the last `age_buckets - 1` intervals, nothing older than `max_age`) and `Forgotten`
(`NothingComesBack`) for every number of buckets and every `max_age`. `TInv` has `Balanced` (`count_`,
`sum_` and the list of observations differ by what the thread between `Count` and `Insert` still has
to do) and `Gathered` (a scrape has asked for the quantiles up to its position); it gives
`Consistent`: count and sum of a scrape are those of the observations that were complete when it
took the mutex.

**CKMSQuantiles_proofs.** `IInv` is the three properties of the run and the bound on insertions;
they are inductive together and the lemmas use them in the form `Sketch`: items in order, whose weights
(`g`) add up to `count_`, with the buffer as many values as were inserted, among them the greatest.
`PlaceIs` says where one value goes: the search resumes where the last one ended, which is right
because the batch is sorted and the item it resumes at is not greater (`Behind`). `PlaceAll` and
`InsertBatchKeeps` extend that to a batch, `MergeShrinks` and `CompressKeeps` say that merging keeps
weight, order and last item whatever the tolerated errors are. Results: `TypeCorrect`, `Lossless`,
`MaximumKept`. `Ordered` shows `QuantilesOrdered` for targets with `quantile + error <= 1` and
`quantile < 1` (`InReach`): then rank plus half the tolerated error does not fall when the rank
rises (`StaysBeyond`, by whether each rank is in front of or behind a target), so that the search for
the higher quantile stops no earlier. A higher target bends that line down; runs with
such targets have not shown an answer out of order, so whether the condition is needed is open.

**Scrape_proofs.** `Control` says which mutexes a thread holds, by where it is; `Living`, that what
a call is about is alive and no other call may end its life; `Counting`, what a scrape knows so
far. `NothingDangles` follows from `Living`, and from `Control` that a scrape has the mutex a
destroyer would need. `NoDeadlock` holds for sets of threads of any size: in a set in which all wait for one
another nobody waits for a metric (its holder waits for nothing), hence nobody for a family,
hence nobody for the registry. `RegularScrapes` follows from `Counting`.

**Text_proofs, the stream.** `Kept`, where the caller's settings are at each point, and `Reached`,
how many lines the buffer can have, give `Restored`, `Uniform` and `Complete` for any scrapes,
locales and precisions. `ClosedOnce` (`HistogramClosed`) is about the text itself. For one histogram
a sequence of lines has none that closes it (`None`) or exactly one (`One`); `JoinedLines` says
what joining two such sequences gives, and `Flattened`, by induction over the rows of `FlattenSeq`,
what joining many gives. `HistogramLines` and `PlainLines` then settle one metric, `FamilyLines` a
family, `TextLines` the scrape. It assumes of every scrape what decides whether two lines can
look alike: `IsScrape` (its parts are vectors), `OwnNames` (no two families have a name, no two
metrics of a family have labels, and no family has the name of another's buckets) and `OwnBounds`
(of a histogram's buckets only the last may be, or read as, +Inf). TLC checks the three on the scrapes
of the run, and `RegistryScrapes`, below, proves them of those of a registry.

**Text_proofs, the registry.** The invariant of Exposition, `IInv`, says what families and metrics look
like, that the names differ over all types (`NamesUnique`) and that every label has passed the
checks, also against the constant labels of its family (`LabelsChecked`). TLC found it to hold with
the constants of the run `exposition` before it was proved. The actions change one family each, so
`ByFamily` restates it family by family; `RegisterStep`, `RemoveFamilyStep`, `AddMetricStep`,
`RemoveMetricStep` and `UpdateStep` keep it.

The properties are about the text, which is a function of the whole state, so most of the work is to
say where a line comes from. `Placing`: every element of a flattened sequence comes from one place of one
of its parts, and different elements from different places. Applied to the families of a type, to the
types, to the metrics of a family and to the families of a scrape (`CollectAllIs`, `CollectIs`, `FamilyText`,
`TextIs`) it gives each line its family and each sample its metric and its place there (`MetricText`). `LabelIs` says which label pairs a sample has:
the family's, the metric's and at most one the serializer adds. From there:

* `TypesDeclaredOnce`: lines that declare one name come from one family, by `NamesUnique`.
* `LabelNamesNeverMeet`: the three sources of labels are disjoint by `LabelsChecked` and the reserved
  names.
* `SeriesAreUnique`: under `NamesApart` equal sample names mean one family and one suffix
  (`NamesTell`, `SuffixTells`), equal labels one metric (`LabelsTell`), and under `BoundsApart` an equal
  bound one line of it (`SamePlace`).
* `HistogramsAreClosed`: each bucket is the one before plus a count that is not negative (`Cumulative`,
  from `Sums`), and the last one is the sum of all counts.

`RegistryScrapes` puts the two halves together: under `NamesApart` and `BoundsApart` a registry's scrape
satisfies what `ClosedOnce` assumes, so a caller gets each histogram closed by exactly one
line.

**Only model-checked.** Liveness (`SomeCallReturns`, `LockFree`, `RotationEnds`), which the prover
cannot treat. The accuracy of the sketch has nothing to prove, as the code does not keep
it (5.2).

## 5. Where code and documentation differ

Shown by a run:

1. `Registry::Remove` (`registry.cc:199-209`) goes by address. If two threads remove the same
   family and a third family gets its address in between, the second call removes that
   one and returns true (`registry.h:95`). The caller holds an invalidated reference then,
   which `registry.h:88-90` warns of; the return value is what misleads.
2. `CKMSQuantiles` exceeds its tolerated error (`summary.h:51-53`). After 1, 1, 2, 2 the 90th
   percentile with 5 percent tolerance is 1. The compiled code agrees with the model on
   such sequences: observing 9, 8, ..., 1 with a query after each gives 1 as the median
   with 10 percent tolerance. The cause is the uncertainty given to new items: the tests at
   `ckms_quantiles.cc:116` are off by one, and `allowableError + 1` is more than the error
   budget has room for. The property grants one rank for rounding.

Met while modelling; the models contain the behaviour of the code:

3. A family `h_count` and a histogram `h` in one registry give two samples of one series
   (`text_serializer.cc:150`). Names of families are unique, names of series are not. Removing
   `NamesApart` from `SeriesUniqueIfApart` shows it.
4. Two boundaries that differ in the 17th digit read the same, as the precision is
   `max_digits10 - 1` (`text_serializer.cc:226`); a boundary of +Inf gives a second bucket +Inf
   (`histogram.cc:86`). Removing `BoundsApart` shows both.
5. A stream with an exception mask is left with the serializer's locale and precision
   (`text_serializer.cc:225-233`), which the next call then takes for the caller's.
6. Integer gauges run the compare-exchange loop as double gauges do (`gauge.cc:36-39`);
   the repository's README (58-71) says they are a single `lock add`.
7. An `int64_t` counter can overflow (`gauge.cc:37`); `counter.h:16`: "can only increase".
8. A histogram bucket is the interval (b_n-1, b_n], as Prometheus defines `le`;
   `histogram.h:40-41` and `54-56` describe [b_n, b_n+1).
9. A scrape of a summary may have a higher quantile with a lower value, although one sketch never
   answers so: `Collect` asks for one quantile after the other (`summary.cc:31`), and each `get`
   compresses again (`ckms_quantiles.cc:33-39`). With targets 0.25±0.4 and 0.35±0.6, the compiled code
   does so on 23, 19, a query, 26, a query, 7, 5, 17, 29, 2: it answers 17 and 5. No document says
   otherwise.
10. A metric name that begins with `__` matches the regular expression given in
   `check_names.cc:38` and is refused by the code below it.

## 6. Not modelled

* LabelHasher: a pure function over the unspecified `std::hash`. The map needs equal hashes of
  equal labels, which a function of an ordered `std::map` has by construction.
* NaN among histogram boundaries: the test for order lets it pass (`histogram.cc:18`), and what
  `std::lower_bound` finds in a list that is not ordered is undefined.
* Flags of the stream such as `std::hex`, which the serializer neither sets nor restores.
* Escaping of label values and help texts, which is injective, and the digits of numbers beyond
  what a text reads back as.
* Rounding of doubles in the histogram's counts and in the sketch; allocation failure outside
  `Registry::Add`; an interval of 0 ticks or 0 age buckets in Summary (see the hazards).
* Tests, benchmarks and build files.

## 7. Plan

All modules of the plan exist. What a continuation could add, in this order:

1. A weaker condition than `InReach`, or a sketch that shows it to be needed.
2. Several quantiles of one scrape from different windows (`summary.cc:31`) as a property of
   what *is* promised, once the documentation promises something.
