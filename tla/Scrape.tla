------------------------------- MODULE Scrape -------------------------------
(***************************************************************************)
(* The composition of Registry, Family and the metrics at the level of     *)
(* their mutexes. Registry::Collect holds the registry's mutex for the     *)
(* whole scrape, calls the Collect of one family after the other, which    *)
(* holds the family's mutex, and that calls the Collect of one metric      *)
(* after the other; histograms and summaries have a mutex again, counters  *)
(* and gauges are atomic. Meanwhile other threads register and remove      *)
(* families, add and remove metrics and update them.                       *)
(*                                                                         *)
(* Modules Registry, Family, Gauge, Histogram and Summary show one object  *)
(* each; here are the objects' lives and locks, and a number per metric.   *)
(***************************************************************************)
EXTENDS Naturals

CONSTANTS
  Threads,
  registry,     \* the one registry
  Families,     \* families, each with its name and type
  LabelSets,    \* arguments of Family::Add
  Atomic,       \* the families of counters and gauges
  MaxValue,     \* bound: updates of a metric
  NoOne         \* the owner of a free mutex

ASSUME NoOneAssumption == NoOne \notin Threads

Metrics == Families \X LabelSets

ASSUME ObjectsAssumption ==
  /\ registry \notin Families \cup Metrics /\ Families \cap Metrics = {}
  /\ Families # {} /\ LabelSets # {}

Mutexes == {registry} \cup Families \cup Metrics

VARIABLES
  registered,  \* the families that are in the registry
  metrics,     \* the metrics that are in a family
  value,       \* the number in each of them
  owner,       \* who holds each mutex
  pc,          \* where each thread is
  op,          \* the call it is executing
  at,          \* the metric, and with it the family, the call is about now
  done,        \* scrape: the families collected
  samples,     \* scrape: the metrics collected
  sample,      \* scrape: their values
  floor,       \* history: for a scrape, the values at its beginning
  kept,        \* history: the metrics that have been there all the time since
  ever         \* history: the metrics that have been there at any time since

objects == <<registered, metrics, value>>
control == <<owner, pc, op, at>>
scrape  == <<done, samples, sample>>
history == <<floor, kept, ever>>
vars    == <<objects, control, scrape, history>>

FamilyOps == {"Register", "RemoveFamily"}
MetricOps == {"AddMetric", "RemoveMetric"}
Ops == FamilyOps \cup MetricOps \cup {"Update", "Scrape", "none"}

FamilyOf(m) == m[1]

\* For calls that are about a family, not about one of its metrics.
Whole(f) == <<f, CHOOSE l \in LabelSets : TRUE>>

NoWhere == Whole(CHOOSE f \in Families : TRUE)

Zeros == [m \in Metrics |-> 0]

MetricsOf(f) == {m \in metrics : FamilyOf(m) = f}

Init ==
  /\ registered = {} /\ metrics = {}
  /\ value = Zeros
  /\ owner = [l \in Mutexes |-> NoOne]
  /\ pc = [t \in Threads |-> "idle"]
  /\ op = [t \in Threads |-> "none"]
  /\ at = [t \in Threads |-> NoWhere]
  /\ done = [t \in Threads |-> {}]
  /\ samples = [t \in Threads |-> {}]
  /\ sample = [t \in Threads |-> Zeros]
  /\ floor = [t \in Threads |-> Zeros]
  /\ kept = [t \in Threads |-> {}]
  /\ ever = [t \in Threads |-> {}]

-----------------------------------------------------------------------------
(* Calls. The program uses no reference that one of its own calls has       *)
(* invalidated or is about to invalidate (registry.h:88-90); a scrape is    *)
(* nobody's reference and may happen at any time.                           *)

Calling(t) == pc[t] \notin {"idle", "return"}

UsesFamily(o) == o \in {"RemoveFamily", "AddMetric", "RemoveMetric", "Update"}
UsesMetric(o) == o \in {"RemoveMetric", "Update"}

\* Call o on m ends the life of something that call p on n uses.
Kills(o, m, p, n) ==
  \/ o = "RemoveFamily" /\ UsesFamily(p) /\ FamilyOf(m) = FamilyOf(n)
  \/ o = "RemoveMetric" /\ UsesMetric(p) /\ m = n

Allowed(o, m) ==
  /\ UsesFamily(o) => FamilyOf(m) \in registered
  /\ UsesMetric(o) => m \in metrics
  /\ \A u \in Threads : Calling(u) =>
       ~Kills(o, m, op[u], at[u]) /\ ~Kills(op[u], at[u], o, m)

Begin(t, o, m, label) ==
  /\ pc[t] = "idle"
  /\ Allowed(o, m)
  /\ pc' = [pc EXCEPT ![t] = label]
  /\ op' = [op EXCEPT ![t] = o]
  /\ at' = [at EXCEPT ![t] = m]
  /\ UNCHANGED <<objects, owner>>

\* Not the code: Registry::Remove does not take the mutex.
EntryUnlocked(o) ==
  CASE o \in {"Register", "Scrape"}         -> "lock_registry"
    [] o = "RemoveFamily"                   -> "in_registry"
    [] o \in {"AddMetric", "RemoveMetric"}  -> "lock_family"

\* The first thing a call does.
Entry(o) ==
  CASE o \in {"Register", "RemoveFamily", "Scrape"} -> "lock_registry"
    [] o \in {"AddMetric", "RemoveMetric"}          -> "lock_family"

\* An update or a read of a counter or gauge takes no mutex.
AtMetric(m) == IF FamilyOf(m) \in Atomic THEN "in_metric" ELSE "lock_metric"

Call(t) ==
  /\ \/ \E o \in FamilyOps, f \in Families : Begin(t, o, Whole(f), Entry(o))
     \/ \E o \in MetricOps, m \in Metrics : Begin(t, o, m, Entry(o))
     \/ \E m \in Metrics : value[m] < MaxValue /\ Begin(t, "Update", m, AtMetric(m))
  /\ UNCHANGED <<scrape, history>>

CallScrape(t) ==
  /\ Begin(t, "Scrape", NoWhere, Entry("Scrape"))
  /\ floor' = [floor EXCEPT ![t] = value]
  /\ kept' = [kept EXCEPT ![t] = metrics]
  /\ ever' = [ever EXCEPT ![t] = metrics]
  /\ UNCHANGED scrape

-----------------------------------------------------------------------------
(* Mutexes                                                                  *)

Wanted(t) ==
  CASE pc[t] = "lock_registry" -> registry
    [] pc[t] = "lock_family"   -> FamilyOf(at[t])
    [] pc[t] = "lock_metric"   -> at[t]

Waiting(t) == pc[t] \in {"lock_registry", "lock_family", "lock_metric"}

Inside(label) == CASE label = "lock_registry" -> "in_registry"
                   [] label = "lock_family"   -> "in_family"
                   [] label = "lock_metric"   -> "in_metric"

\* std::lock_guard<std::mutex>
Lock(t) ==
  /\ Waiting(t)
  /\ owner[Wanted(t)] = NoOne
  /\ owner' = [owner EXCEPT ![Wanted(t)] = t]
  /\ pc' = [pc EXCEPT ![t] = Inside(@)]
  /\ UNCHANGED <<objects, op, at, scrape, history>>

\* The thread leaves the scope of the guard of l and goes on.
Unlock(t, l, label) ==
  /\ owner' = [owner EXCEPT ![l] = NoOne]
  /\ pc' = [pc EXCEPT ![t] = label]
  /\ UNCHANGED <<op, at>>

Goto(t, label) == pc' = [pc EXCEPT ![t] = label] /\ UNCHANGED <<owner, op, at>>

\* The metrics that are there now, as every scrape under way has to see it.
Watch ==
  /\ kept' = [t \in Threads |-> kept[t] \cap metrics']
  /\ ever' = [t \in Threads |-> IF op[t] = "Scrape" THEN ever[t] \cup metrics' ELSE {}]
  /\ UNCHANGED floor

-----------------------------------------------------------------------------
(* Registry                                                                 *)

\* Registry::Add. A family that is there stays as it is.
Register(t) ==
  /\ pc[t] = "in_registry" /\ op[t] = "Register"
  /\ registered' = registered \cup {FamilyOf(at[t])}
  /\ Unlock(t, registry, "return")
  /\ UNCHANGED <<metrics, value, scrape, history>>

\* Not the code: the metrics stay when their family goes.
RemoveFamilyOnly(t) ==
  /\ pc[t] = "in_registry" /\ op[t] = "RemoveFamily"
  /\ registered' = registered \ {FamilyOf(at[t])}
  /\ Unlock(t, registry, "return")
  /\ UNCHANGED <<metrics, value, scrape, history>>

\* Registry::Remove destroys the family, its metrics and their mutexes.
RemoveFamily(t) ==
  /\ pc[t] = "in_registry" /\ op[t] = "RemoveFamily"
  /\ registered' = registered \ {FamilyOf(at[t])}
  /\ metrics' = metrics \ MetricsOf(FamilyOf(at[t]))
  /\ value' = [m \in Metrics |-> IF FamilyOf(m) = FamilyOf(at[t]) THEN 0 ELSE value[m]]
  /\ Unlock(t, registry, "return")
  /\ Watch
  /\ UNCHANGED scrape

\* CollectAll goes on to a family. Module Registry has the order.
VisitFamily(t) ==
  /\ pc[t] = "in_registry" /\ op[t] = "Scrape"
  /\ \E f \in registered \ done[t] : at' = [at EXCEPT ![t] = Whole(f)]
  /\ pc' = [pc EXCEPT ![t] = "lock_family"]
  /\ UNCHANGED <<objects, owner, op, scrape, history>>

EndScrape(t) ==
  /\ pc[t] = "in_registry" /\ op[t] = "Scrape"
  /\ registered \subseteq done[t]
  /\ Unlock(t, registry, "return")
  /\ UNCHANGED <<objects, scrape, history>>

-----------------------------------------------------------------------------
(* Family                                                                   *)

\* Not the code: the new object replaces the one that has the labels.
AssignMetric(t) ==
  /\ pc[t] = "in_family" /\ op[t] = "AddMetric"
  /\ metrics' = metrics \cup {at[t]}
  /\ value' = [value EXCEPT ![at[t]] = 0]
  /\ Unlock(t, FamilyOf(at[t]), "return")
  /\ Watch
  /\ UNCHANGED <<registered, scrape>>

\* Family::Add; the labels are accepted, or there is no metric in the end.
AddMetric(t) ==
  /\ pc[t] = "in_family" /\ op[t] = "AddMetric"
  /\ metrics' \in {metrics, metrics \cup {at[t]}}
  /\ Unlock(t, FamilyOf(at[t]), "return")
  /\ Watch
  /\ UNCHANGED <<registered, value, scrape>>

\* Not the code: the family, locked, tells the registry.
RemoveMetricThenRegistry(t) ==
  /\ pc[t] = "in_family" /\ op[t] = "RemoveMetric"
  /\ metrics' = metrics \ {at[t]}
  /\ value' = [value EXCEPT ![at[t]] = 0]
  /\ Goto(t, "lock_registry")
  /\ Watch
  /\ UNCHANGED <<registered, scrape>>

\* Family::Remove destroys the metric and its mutex.
RemoveMetric(t) ==
  /\ pc[t] = "in_family" /\ op[t] = "RemoveMetric"
  /\ metrics' = metrics \ {at[t]}
  /\ value' = [value EXCEPT ![at[t]] = 0]
  /\ Unlock(t, FamilyOf(at[t]), "return")
  /\ Watch
  /\ UNCHANGED <<registered, scrape>>

\* Family::Collect goes on to a metric.
VisitMetric(t) ==
  /\ pc[t] = "in_family" /\ op[t] = "Scrape"
  /\ \E m \in MetricsOf(FamilyOf(at[t])) \ samples[t] :
       /\ at' = [at EXCEPT ![t] = m]
       /\ pc' = [pc EXCEPT ![t] = AtMetric(m)]
  /\ UNCHANGED <<objects, owner, op, scrape, history>>

LeaveFamily(t) ==
  /\ pc[t] = "in_family" /\ op[t] = "Scrape"
  /\ MetricsOf(FamilyOf(at[t])) \subseteq samples[t]
  /\ done' = [done EXCEPT ![t] = @ \cup {FamilyOf(at[t])}]
  /\ Unlock(t, FamilyOf(at[t]), "in_registry")
  /\ UNCHANGED <<objects, samples, sample, history>>

-----------------------------------------------------------------------------
(* Metrics                                                                  *)

LeaveMetric(t, label) ==
  IF FamilyOf(at[t]) \in Atomic THEN Goto(t, label) ELSE Unlock(t, at[t], label)

\* Increment, Set, Observe
Update(t) ==
  /\ pc[t] = "in_metric" /\ op[t] = "Update"
  /\ value' = [value EXCEPT ![at[t]] = @ + 1]
  /\ LeaveMetric(t, "return")
  /\ UNCHANGED <<registered, metrics, scrape, history>>

\* T::Collect
ReadMetric(t) ==
  /\ pc[t] = "in_metric" /\ op[t] = "Scrape"
  /\ samples' = [samples EXCEPT ![t] = @ \cup {at[t]}]
  /\ sample' = [sample EXCEPT ![t][at[t]] = value[at[t]]]
  /\ LeaveMetric(t, "in_family")
  /\ UNCHANGED <<objects, done, history>>

Return(t) ==
  /\ pc[t] = "return"
  /\ pc' = [pc EXCEPT ![t] = "idle"]
  /\ op' = [op EXCEPT ![t] = "none"]
  /\ at' = [at EXCEPT ![t] = NoWhere]
  /\ done' = [done EXCEPT ![t] = {}]
  /\ samples' = [samples EXCEPT ![t] = {}]
  /\ sample' = [sample EXCEPT ![t] = Zeros]
  /\ floor' = [floor EXCEPT ![t] = Zeros]
  /\ kept' = [kept EXCEPT ![t] = {}]
  /\ ever' = [ever EXCEPT ![t] = {}]
  /\ UNCHANGED <<objects, owner>>

-----------------------------------------------------------------------------
Run(t) ==
  \/ Register(t) \/ RemoveFamily(t) \/ VisitFamily(t) \/ EndScrape(t)
  \/ AddMetric(t) \/ RemoveMetric(t) \/ VisitMetric(t) \/ LeaveFamily(t)
  \/ Update(t) \/ ReadMetric(t) \/ Return(t)

Next == \E t \in Threads : Call(t) \/ CallScrape(t) \/ Lock(t) \/ Run(t)

\* The scheduler runs every thread, and a mutex that stays free is taken.
Spec == Init /\ [][Next]_vars /\ \A t \in Threads : WF_vars(Lock(t)) /\ WF_vars(Run(t))

-----------------------------------------------------------------------------
(* Properties                                                               *)

\* Types; and every metric belongs to a family that is alive.
TypeOK ==
  /\ \A m \in metrics : FamilyOf(m) \in registered
  /\ registered \in SUBSET Families
  /\ metrics \in SUBSET Metrics
  /\ value \in [Metrics -> Nat]
  /\ owner \in [Mutexes -> Threads \cup {NoOne}]
  /\ pc \in [Threads -> {"idle", "lock_registry", "lock_family", "lock_metric",
                         "in_registry", "in_family", "in_metric", "return"}]
  /\ op \in [Threads -> Ops]
  /\ at \in [Threads -> Metrics]
  /\ done \in [Threads -> SUBSET Families]
  /\ samples \in [Threads -> SUBSET Metrics]
  /\ sample \in [Threads -> [Metrics -> Nat]]
  /\ floor \in [Threads -> [Metrics -> Nat]]
  /\ kept \in [Threads -> SUBSET Metrics]
  /\ ever \in [Threads -> SUBSET Metrics]

Alive(l) == l = registry \/ l \in registered \/ l \in metrics

\* No thread ever waits for or holds a mutex, or is inside an object, that has
\* been destroyed: it suffices that the program itself uses no removed object,
\* the library protects its scrapes (registry.cc:47 and 196, family.cc:62 and 90).
NoDangling ==
  /\ \A t \in Threads : Waiting(t) => Alive(Wanted(t))
  /\ \A l \in Mutexes : owner[l] # NoOne => Alive(l)
  /\ \A t \in Threads : pc[t] = "in_family" => FamilyOf(at[t]) \in registered
  /\ \A t \in Threads : pc[t] = "in_metric" => at[t] \in metrics

\* No threads wait for each other, in a circle of any length.
NoCircularWait ==
  \A S \in (SUBSET Threads) \ {{}} :
    \E t \in S : Waiting(t) => owner[Wanted(t)] \notin S

\* What a scrape has to do with the metrics while they come, go and count. It
\* reports each metric that was there all the time, and none that never was
\* there meanwhile; and of the former a value between the one at the beginning
\* and the one now. (One instant for all metrics is not promised.)
ScrapeRegular ==
  \A t \in Threads : pc[t] = "return" /\ op[t] = "Scrape" =>
    /\ kept[t] \subseteq samples[t] /\ samples[t] \subseteq ever[t]
    /\ \A m \in kept[t] : floor[t][m] <= sample[t][m] /\ sample[t][m] <= value[m]

-----------------------------------------------------------------------------
(* The inductive invariant. Control tells who holds what and which calls    *)
(* can be where; Living, that what a call is about is alive and that no     *)
(* other call may end its life; Counting, what a scrape knows so far.       *)

InScrape(t, labels) == op[t] = "Scrape" /\ pc[t] \in labels

HoldsRegistry(t) ==
  pc[t] = "in_registry"
    \/ InScrape(t, {"lock_family", "in_family", "lock_metric", "in_metric"})

HoldsFamily(t) == pc[t] = "in_family" \/ InScrape(t, {"lock_metric", "in_metric"})

HoldsMetric(t) == pc[t] = "in_metric" /\ FamilyOf(at[t]) \notin Atomic

\* Where the call of a thread can be.
Place(t) ==
  /\ pc[t] \in {"lock_registry", "in_registry"} => op[t] \in FamilyOps \cup {"Scrape"}
  /\ pc[t] \in {"lock_family", "in_family"} => op[t] \in MetricOps \cup {"Scrape"}
  /\ pc[t] \in {"lock_metric", "in_metric"} => op[t] \in {"Update", "Scrape"}
  /\ pc[t] = "lock_metric" => FamilyOf(at[t]) \notin Atomic

Owns(t) ==
  /\ owner[registry] = t <=> HoldsRegistry(t)
  /\ \A f \in Families : owner[f] = t <=> HoldsFamily(t) /\ FamilyOf(at[t]) = f
  /\ \A m \in Metrics : owner[m] = t <=> HoldsMetric(t) /\ at[t] = m

Control == \A t \in Threads : Place(t) /\ Owns(t)

Lives(t) ==
  /\ Calling(t) /\ UsesFamily(op[t]) => FamilyOf(at[t]) \in registered
  /\ Calling(t) /\ UsesMetric(op[t]) => at[t] \in metrics
  /\ InScrape(t, {"lock_family", "in_family", "lock_metric", "in_metric"}) =>
       FamilyOf(at[t]) \in registered
  /\ InScrape(t, {"lock_metric", "in_metric"}) => at[t] \in metrics

Apart(t, u) == Calling(t) /\ Calling(u) => ~Kills(op[t], at[t], op[u], at[u])

Living == \A t \in Threads : Lives(t) /\ \A u \in Threads \ {t} : Apart(t, u)

Counts(t) ==
  IF op[t] # "Scrape"
  THEN done[t] = {} /\ samples[t] = {}
  ELSE /\ pc[t] # "idle"
       /\ kept[t] \subseteq metrics /\ metrics \subseteq ever[t]
       /\ samples[t] \subseteq ever[t]
       /\ \A m \in kept[t] : /\ floor[t][m] <= value[m]
                             /\ FamilyOf(m) \in done[t] => m \in samples[t]
       /\ \A m \in kept[t] \cap samples[t] :
            floor[t][m] <= sample[t][m] /\ sample[t][m] <= value[m]
       /\ pc[t] = "return" => kept[t] \subseteq samples[t]

Counting == \A t \in Threads : Counts(t)

IInv == TypeOK /\ Control /\ Living /\ Counting

-----------------------------------------------------------------------------
\* As long as somebody waits for a mutex, some call completes, whatever it is.
SomeCallReturns ==
  (\E t \in Threads : Waiting(t)) ~> (\E t \in Threads : pc[t] = "return")
=============================================================================
