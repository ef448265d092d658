---------------------------- MODULE Scrape_proofs ----------------------------
(***************************************************************************)
(* Proofs about module Scrape, for any threads, families and labels: the   *)
(* composition has no circular wait and touches no dead object, and its    *)
(* scrapes are regular. They follow from IInv, which is shown to be        *)
(* inductive action by action.                                             *)
(***************************************************************************)
EXTENDS Scrape, TLAPS

LEMMA MetricTypes ==
  /\ \A m \in Metrics : FamilyOf(m) \in Families
  /\ \A f \in Families : Whole(f) \in Metrics /\ FamilyOf(Whole(f)) = f
  /\ NoWhere \in Metrics
<1>1. (CHOOSE l \in LabelSets : TRUE) \in LabelSets
  BY ObjectsAssumption
<1>2. (CHOOSE f \in Families : TRUE) \in Families
  BY ObjectsAssumption
<1>3. ASSUME NEW f \in Families PROVE Whole(f) \in Metrics /\ FamilyOf(Whole(f)) = f
  BY <1>1 DEF Whole, Metrics, FamilyOf
<1>4. ASSUME NEW m \in Metrics PROVE FamilyOf(m) \in Families
  BY DEF Metrics, FamilyOf
<1> QED BY <1>2, <1>3, <1>4 DEF NoWhere

LEMMA Initial == Init => IInv
<1> SUFFICES ASSUME Init PROVE IInv
  OBVIOUS
<1> USE MetricTypes DEF Init, Zeros
<1>1. TypeOK
  BY DEF TypeOK, Ops
<1>2. Control
  BY NoOneAssumption DEF Control, Place, Owns, HoldsRegistry, HoldsFamily, HoldsMetric, InScrape, Mutexes
<1>3. Living
  BY DEF Living, Lives, Apart, Calling, InScrape
<1>4. Counting
  BY DEF Counting, Counts
<1> QED BY <1>1, <1>2, <1>3, <1>4 DEF IInv

\* Threads that stay where they are do not get in each other's way.
LEMMA StaysApart ==
  ASSUME NEW u \in Threads, NEW v \in Threads, Apart(u, v),
         pc'[u] = pc[u] /\ op'[u] = op[u] /\ at'[u] = at[u],
         pc'[v] = pc[v] /\ op'[v] = op[v] /\ at'[v] = at[v]
  PROVE  Apart(u, v)'
<1>1. Calling(u)' = Calling(u) /\ Calling(v)' = Calling(v)
  BY DEF Calling
<1>2. Kills(op[u], at[u], op[v], at[v])' = Kills(op[u], at[u], op[v], at[v])
  BY DEF Kills
<1> QED BY <1>1, <1>2 DEF Apart

\* What a step out of a metric leaves alone.
LEMMA LeavingMetric ==
  ASSUME TypeOK, NEW t \in Threads, NEW label \in {"return", "in_family"}, LeaveMetric(t, label)
  PROVE  /\ owner' \in [Mutexes -> Threads \cup {NoOne}]
         /\ pc' = [pc EXCEPT ![t] = label] /\ op' = op /\ at' = at
BY DEF TypeOK, LeaveMetric, Goto, Unlock

\* What a call begins with.
Starts(o, m, label) ==
  /\ m \in Metrics
  /\ \/ label = "lock_registry" /\ o \in {"Register", "RemoveFamily", "Scrape"}
     \/ label = "lock_family" /\ o \in {"AddMetric", "RemoveMetric"}
     \/ label = "lock_metric" /\ o = "Update" /\ FamilyOf(m) \notin Atomic
     \/ label = "in_metric" /\ o = "Update" /\ FamilyOf(m) \in Atomic

LEMMA Calls ==
  ASSUME NEW t \in Threads, Call(t) \/ CallScrape(t)
  PROVE  \E o, m, label : Starts(o, m, label) /\ Begin(t, o, m, label)
<1> USE MetricTypes
<1>1. ASSUME NEW o \in FamilyOps, NEW f \in Families, Begin(t, o, Whole(f), Entry(o))
      PROVE  Starts(o, Whole(f), Entry(o)) /\ Begin(t, o, Whole(f), Entry(o))
  BY <1>1 DEF Starts, Entry, FamilyOps
<1>2. ASSUME NEW o \in MetricOps, NEW m \in Metrics, Begin(t, o, m, Entry(o))
      PROVE  Starts(o, m, Entry(o)) /\ Begin(t, o, m, Entry(o))
  BY <1>2 DEF Starts, Entry, MetricOps
<1>3. ASSUME NEW m \in Metrics, Begin(t, "Update", m, AtMetric(m))
      PROVE  Starts("Update", m, AtMetric(m)) /\ Begin(t, "Update", m, AtMetric(m))
  BY <1>3 DEF Starts, AtMetric
<1>4. ASSUME Begin(t, "Scrape", NoWhere, Entry("Scrape"))
      PROVE  Starts("Scrape", NoWhere, Entry("Scrape")) /\ Begin(t, "Scrape", NoWhere, Entry("Scrape"))
  BY <1>4 DEF Starts, Entry
<1> QED BY <1>1, <1>2, <1>3, <1>4, Zenon DEF Call, CallScrape

\* A call is made.
LEMMA CallStep == ASSUME IInv, NEW t \in Threads, Call(t) \/ CallScrape(t) PROVE IInv'
<1>1. PICK o, m, label : Starts(o, m, label) /\ Begin(t, o, m, label)
  BY Calls
<1> USE MetricTypes DEF Starts
<1>2. TypeOK'
  <2>1. UNCHANGED <<registered, metrics, value, owner, done, samples, sample>>
    BY <1>1 DEF Begin, objects, Call, CallScrape, scrape
  <2>2. /\ floor' \in [Threads -> [Metrics -> Nat]]
        /\ kept' \in [Threads -> SUBSET Metrics] /\ ever' \in [Threads -> SUBSET Metrics]
    BY DEF IInv, TypeOK, Call, CallScrape, history
  <2>3. /\ pc' = [pc EXCEPT ![t] = label] /\ op' = [op EXCEPT ![t] = o]
        /\ at' = [at EXCEPT ![t] = m] /\ o \in Ops
    BY <1>1 DEF Begin, Ops, FamilyOps, MetricOps
  <2> QED BY <1>1, <2>1, <2>2, <2>3 DEF IInv, TypeOK
<1>3. Control'
  <2>1. ASSUME NEW u \in Threads \ {t} PROVE Place(u)' /\ Owns(u)'
    BY <1>1 DEF IInv, TypeOK, Control, Begin, Place, Owns, HoldsRegistry, HoldsFamily, HoldsMetric, InScrape
  <2>2. Place(t)'
    BY <1>1 DEF IInv, TypeOK, Begin, Place, FamilyOps, MetricOps
  <2>3. Owns(t)'
    BY <1>1 DEF IInv, TypeOK, Control, Begin, Owns, HoldsRegistry, HoldsFamily, HoldsMetric, InScrape
  <2> QED BY <2>1, <2>2, <2>3 DEF Control
<1>4. Living'
  <2>1. ASSUME NEW u \in Threads \ {t} PROVE Lives(u)' /\ Apart(t, u)' /\ Apart(u, t)'
    BY <1>1 DEF IInv, TypeOK, Living, Lives, Apart, Begin, objects, Calling, Allowed, InScrape
  <2>2. Lives(t)'
    BY <1>1 DEF IInv, TypeOK, Lives, Begin, objects, Allowed, Calling, InScrape
  <2>3. ASSUME NEW u \in Threads \ {t}, NEW v \in Threads \ {t}, u # v PROVE Apart(u, v)'
    <3>1. \A w \in Threads \ {t} : pc'[w] = pc[w] /\ op'[w] = op[w] /\ at'[w] = at[w]
      BY <1>1 DEF IInv, TypeOK, Begin
    <3>2. Apart(u, v)
      BY <2>3 DEF IInv, Living
    <3> QED BY <3>1, <3>2, StaysApart
  <2> QED BY <2>1, <2>2, <2>3 DEF Living
<1>5. Counting'
  <2>1. ASSUME NEW u \in Threads \ {t} PROVE Counts(u)'
    BY <1>1 DEF IInv, TypeOK, Counting, Counts, Begin, objects, Call, CallScrape, scrape, history
  <2>2. ASSUME Call(t) PROVE Counts(t)'
    <3>1. op'[t] # "Scrape" /\ op[t] # "Scrape"
      BY <1>1, <2>2 DEF IInv, TypeOK, Counting, Counts, Begin, Call, FamilyOps, MetricOps
    <3>2. UNCHANGED <<done, samples>>
      BY <2>2 DEF Call, scrape
    <3> QED BY <3>1, <3>2 DEF IInv, Counting, Counts
  <2>3. ASSUME CallScrape(t) PROVE Counts(t)'
    <3>1. done[t] = {} /\ samples[t] = {}
      BY <1>1 DEF IInv, Counting, Counts, Begin
    <3>2. /\ pc'[t] = "lock_registry" /\ op'[t] = "Scrape"
          /\ floor'[t] = value /\ kept'[t] = metrics /\ ever'[t] = metrics
          /\ UNCHANGED <<metrics, value, done, samples>>
      BY <2>3 DEF IInv, TypeOK, Begin, objects, CallScrape, scrape, Entry
    <3>3. value \in [Metrics -> Nat] /\ metrics \subseteq Metrics
      BY DEF IInv, TypeOK
    <3> QED BY <3>1, <3>2, <3>3 DEF Counts
  <2> QED BY <2>1, <2>2, <2>3 DEF Counting
<1> QED BY <1>2, <1>3, <1>4, <1>5 DEF IInv

\* A mutex is taken.
LEMMA LockStep == ASSUME IInv, NEW t \in Threads, Lock(t) PROVE IInv'
<1> USE MetricTypes DEF Lock, IInv
<1>1. TypeOK'
  BY DEF TypeOK, objects, scrape, history, Waiting, Wanted, Inside, Mutexes
<1>2. ASSUME NEW u \in Threads \ {t}
      PROVE  Place(u)' /\ Owns(u)' /\ Lives(u)' /\ Counts(u)' /\ Apart(t, u)' /\ Apart(u, t)'
  <2>1. Place(u)' /\ Owns(u)'
    BY NoOneAssumption, ObjectsAssumption DEF TypeOK, Control, Place, Owns, HoldsRegistry, HoldsFamily, HoldsMetric, InScrape, objects, scrape, history, Waiting, Wanted, Inside, Mutexes
  <2>2. Lives(u)'
    BY DEF TypeOK, Living, Lives, Calling, InScrape, objects, scrape, history, Waiting, Wanted, Inside, Mutexes
  <2>3. Counts(u)'
    BY DEF TypeOK, Counting, Counts, objects, scrape, history, Waiting, Wanted, Inside, Mutexes
  <2>4. Apart(t, u)' /\ Apart(u, t)'
    BY DEF TypeOK, Living, Apart, Calling, objects, scrape, history, Waiting, Wanted, Inside, Mutexes
  <2> QED BY <2>1, <2>2, <2>3, <2>4
<1>3. Place(t)' /\ Owns(t)'
  BY NoOneAssumption, ObjectsAssumption DEF TypeOK, Control, Place, Owns, HoldsRegistry, HoldsFamily, HoldsMetric, InScrape, objects, scrape, history, Waiting, Wanted, Inside, Mutexes
<1>4. Lives(t)'
  BY DEF TypeOK, Living, Lives, Calling, InScrape, objects, scrape, history, Waiting, Wanted, Inside, Mutexes
<1>5. Counts(t)'
  BY DEF TypeOK, Counting, Counts, objects, scrape, history, Waiting, Wanted, Inside, Mutexes
<1>6. ASSUME NEW u \in Threads \ {t}, NEW v \in Threads \ {t}, u # v PROVE Apart(u, v)'
  <2>1. \A w \in Threads \ {t} : pc'[w] = pc[w] /\ op'[w] = op[w] /\ at'[w] = at[w]
    BY DEF TypeOK, objects, scrape, history, Waiting, Wanted, Inside, Mutexes
  <2>2. Apart(u, v)
    BY <1>6 DEF Living
  <2> QED BY <2>1, <2>2, StaysApart
<1> QED BY <1>1, <1>2, <1>3, <1>4, <1>5, <1>6 DEF Control, Living, Counting

\* The registry's operations.
LEMMA RegisterStep == ASSUME IInv, NEW t \in Threads, Register(t) PROVE IInv'
<1> USE MetricTypes DEF Register, IInv
<1>1. TypeOK'
  BY DEF TypeOK, objects, scrape, history, Unlock, Mutexes
<1>2. ASSUME NEW u \in Threads \ {t}
      PROVE  Place(u)' /\ Owns(u)' /\ Lives(u)' /\ Counts(u)' /\ Apart(t, u)' /\ Apart(u, t)'
  <2>1. Place(u)' /\ Owns(u)'
    BY NoOneAssumption, ObjectsAssumption DEF TypeOK, Control, Place, Owns, HoldsRegistry, HoldsFamily, HoldsMetric, InScrape, objects, scrape, history, Unlock, Mutexes
  <2>2. Lives(u)'
    BY DEF TypeOK, Living, Lives, Calling, InScrape, objects, scrape, history, Unlock, Mutexes
  <2>3. Counts(u)'
    BY DEF TypeOK, Counting, Counts, objects, scrape, history, Unlock, Mutexes
  <2>4. Apart(t, u)' /\ Apart(u, t)'
    BY DEF TypeOK, Living, Apart, Calling, objects, scrape, history, Unlock, Mutexes
  <2> QED BY <2>1, <2>2, <2>3, <2>4
<1>3. Place(t)' /\ Owns(t)'
  BY NoOneAssumption, ObjectsAssumption DEF TypeOK, Control, Place, Owns, HoldsRegistry, HoldsFamily, HoldsMetric, InScrape, objects, scrape, history, Unlock, Mutexes
<1>4. Lives(t)'
  BY DEF TypeOK, Living, Lives, Calling, InScrape, objects, scrape, history, Unlock, Mutexes
<1>5. Counts(t)'
  BY DEF TypeOK, Counting, Counts, objects, scrape, history, Unlock, Mutexes
<1>6. ASSUME NEW u \in Threads \ {t}, NEW v \in Threads \ {t}, u # v PROVE Apart(u, v)'
  <2>1. \A w \in Threads \ {t} : pc'[w] = pc[w] /\ op'[w] = op[w] /\ at'[w] = at[w]
    BY DEF TypeOK, objects, scrape, history, Unlock, Mutexes
  <2>2. Apart(u, v)
    BY <1>6 DEF Living
  <2> QED BY <2>1, <2>2, StaysApart
<1> QED BY <1>1, <1>2, <1>3, <1>4, <1>5, <1>6 DEF Control, Living, Counting

\* A family dies.
LEMMA RemoveFamilyStep == ASSUME IInv, NEW t \in Threads, RemoveFamily(t) PROVE IInv'
<1> USE MetricTypes DEF RemoveFamily, IInv
<1>1. TypeOK'
  BY DEF TypeOK, objects, scrape, history, Unlock, Mutexes, Watch, MetricsOf
<1>2. ASSUME NEW u \in Threads \ {t}
      PROVE  Place(u)' /\ Owns(u)' /\ Lives(u)' /\ Counts(u)' /\ Apart(t, u)' /\ Apart(u, t)'
  <2>1. Place(u)' /\ Owns(u)'
    BY NoOneAssumption, ObjectsAssumption DEF TypeOK, Control, Place, Owns, HoldsRegistry, HoldsFamily, HoldsMetric, InScrape, objects, scrape, history, Unlock, Mutexes, Watch, MetricsOf
  <2>2. Lives(u)'
    <3>1. Lives(u) /\ Apart(t, u) /\ pc'[u] = pc[u] /\ op'[u] = op[u] /\ at'[u] = at[u]
      BY DEF TypeOK, Living, Unlock
    <3>2. Calling(t) /\ UsesMetric(op[u]) => UsesFamily(op[u])
      BY DEF UsesMetric, UsesFamily, Calling
    <3>3. Calling(u) /\ UsesFamily(op[u]) => FamilyOf(at[u]) # FamilyOf(at[t])
      BY <3>1 DEF Apart, Kills, Calling
    <3>4. ~HoldsRegistry(u)
      BY DEF Control, Owns, HoldsRegistry
    <3> QED BY <3>1, <3>2, <3>3, <3>4 DEF Lives, Calling, InScrape, HoldsRegistry, MetricsOf, UsesMetric, UsesFamily
  <2>3. Counts(u)'
    BY DEF TypeOK, Counting, Counts, objects, scrape, history, Unlock, Mutexes, Watch, MetricsOf
  <2>4. Apart(t, u)' /\ Apart(u, t)'
    BY DEF TypeOK, Living, Apart, Calling, objects, scrape, history, Unlock, Mutexes, Watch, MetricsOf
  <2> QED BY <2>1, <2>2, <2>3, <2>4
<1>3. Place(t)' /\ Owns(t)'
  BY NoOneAssumption, ObjectsAssumption DEF TypeOK, Control, Place, Owns, HoldsRegistry, HoldsFamily, HoldsMetric, InScrape, objects, scrape, history, Unlock, Mutexes, Watch, MetricsOf
<1>4. Lives(t)'
  BY DEF TypeOK, Living, Lives, Calling, InScrape, objects, scrape, history, Unlock, Mutexes, Watch, MetricsOf
<1>5. Counts(t)'
  BY DEF TypeOK, Counting, Counts, objects, scrape, history, Unlock, Mutexes, Watch, MetricsOf
<1>6. ASSUME NEW u \in Threads \ {t}, NEW v \in Threads \ {t}, u # v PROVE Apart(u, v)'
  <2>1. \A w \in Threads \ {t} : pc'[w] = pc[w] /\ op'[w] = op[w] /\ at'[w] = at[w]
    BY DEF TypeOK, objects, scrape, history, Unlock, Mutexes, Watch, MetricsOf
  <2>2. Apart(u, v)
    BY <1>6 DEF Living
  <2> QED BY <2>1, <2>2, StaysApart
<1> QED BY <1>1, <1>2, <1>3, <1>4, <1>5, <1>6 DEF Control, Living, Counting

\* A scrape goes on.
LEMMA VisitFamilyStep == ASSUME IInv, NEW t \in Threads, VisitFamily(t) PROVE IInv'
<1> USE MetricTypes DEF VisitFamily, IInv
<1>1. TypeOK'
  BY DEF TypeOK, objects, scrape, history
<1>2. ASSUME NEW u \in Threads \ {t}
      PROVE  Place(u)' /\ Owns(u)' /\ Lives(u)' /\ Counts(u)' /\ Apart(t, u)' /\ Apart(u, t)'
  <2>1. Place(u)' /\ Owns(u)'
    BY NoOneAssumption, ObjectsAssumption DEF TypeOK, Control, Place, Owns, HoldsRegistry, HoldsFamily, HoldsMetric, InScrape, objects, scrape, history
  <2>2. Lives(u)'
    BY DEF TypeOK, Living, Lives, Calling, InScrape, objects, scrape, history
  <2>3. Counts(u)'
    BY DEF TypeOK, Counting, Counts, objects, scrape, history
  <2>4. Apart(t, u)' /\ Apart(u, t)'
    BY DEF TypeOK, Living, Apart, Kills, UsesFamily, UsesMetric, Calling, objects, scrape, history
  <2> QED BY <2>1, <2>2, <2>3, <2>4
<1>3. Place(t)' /\ Owns(t)'
  BY NoOneAssumption, ObjectsAssumption DEF TypeOK, Control, Place, Owns, HoldsRegistry, HoldsFamily, HoldsMetric, InScrape, objects, scrape, history
<1>4. Lives(t)'
  BY DEF TypeOK, Living, Lives, Calling, InScrape, UsesFamily, UsesMetric, objects, scrape, history
<1>5. Counts(t)'
  BY DEF TypeOK, Counting, Counts, objects, scrape, history
<1>6. ASSUME NEW u \in Threads \ {t}, NEW v \in Threads \ {t}, u # v PROVE Apart(u, v)'
  <2>1. \A w \in Threads \ {t} : pc'[w] = pc[w] /\ op'[w] = op[w] /\ at'[w] = at[w]
    BY DEF TypeOK, objects, scrape, history
  <2>2. Apart(u, v)
    BY <1>6 DEF Living
  <2> QED BY <2>1, <2>2, StaysApart
<1> QED BY <1>1, <1>2, <1>3, <1>4, <1>5, <1>6 DEF Control, Living, Counting

\* A scrape ends.
LEMMA EndScrapeStep == ASSUME IInv, NEW t \in Threads, EndScrape(t) PROVE IInv'
<1> USE MetricTypes DEF EndScrape, IInv
<1>1. TypeOK'
  BY DEF TypeOK, objects, scrape, history, Unlock, Mutexes
<1>2. ASSUME NEW u \in Threads \ {t}
      PROVE  Place(u)' /\ Owns(u)' /\ Lives(u)' /\ Counts(u)' /\ Apart(t, u)' /\ Apart(u, t)'
  <2>1. Place(u)' /\ Owns(u)'
    BY NoOneAssumption, ObjectsAssumption DEF TypeOK, Control, Place, Owns, HoldsRegistry, HoldsFamily, HoldsMetric, InScrape, objects, scrape, history, Unlock, Mutexes
  <2>2. Lives(u)'
    BY DEF TypeOK, Living, Lives, Calling, InScrape, objects, scrape, history, Unlock, Mutexes
  <2>3. Counts(u)'
    BY DEF TypeOK, Counting, Counts, objects, scrape, history, Unlock, Mutexes
  <2>4. Apart(t, u)' /\ Apart(u, t)'
    BY DEF TypeOK, Living, Apart, Calling, objects, scrape, history, Unlock, Mutexes
  <2> QED BY <2>1, <2>2, <2>3, <2>4
<1>3. Place(t)' /\ Owns(t)'
  BY NoOneAssumption, ObjectsAssumption DEF TypeOK, Control, Place, Owns, HoldsRegistry, HoldsFamily, HoldsMetric, InScrape, objects, scrape, history, Unlock, Mutexes
<1>4. Lives(t)'
  BY DEF TypeOK, Living, Lives, Calling, InScrape, objects, scrape, history, Unlock, Mutexes
<1>5. Counts(t)'
  BY DEF TypeOK, Counting, Counts, objects, scrape, history, Unlock, Mutexes
<1>6. ASSUME NEW u \in Threads \ {t}, NEW v \in Threads \ {t}, u # v PROVE Apart(u, v)'
  <2>1. \A w \in Threads \ {t} : pc'[w] = pc[w] /\ op'[w] = op[w] /\ at'[w] = at[w]
    BY DEF TypeOK, objects, scrape, history, Unlock, Mutexes
  <2>2. Apart(u, v)
    BY <1>6 DEF Living
  <2> QED BY <2>1, <2>2, StaysApart
<1> QED BY <1>1, <1>2, <1>3, <1>4, <1>5, <1>6 DEF Control, Living, Counting

\* A metric is born.
LEMMA AddMetricStep == ASSUME IInv, NEW t \in Threads, AddMetric(t) PROVE IInv'
<1> USE MetricTypes DEF AddMetric, IInv
<1>1. TypeOK'
  <2>1. FamilyOf(at[t]) \in registered
    BY DEF Living, Lives, Calling, UsesFamily
  <2>2. metrics' \in SUBSET Metrics /\ \A m \in metrics' : FamilyOf(m) \in registered
    BY <2>1 DEF TypeOK
  <2>3. kept' \in [Threads -> SUBSET Metrics] /\ ever' \in [Threads -> SUBSET Metrics]
    BY <2>2 DEF TypeOK, Watch
  <2> QED BY <2>2, <2>3 DEF TypeOK, scrape, Watch, Unlock
<1>2. ASSUME NEW u \in Threads \ {t}
      PROVE  Place(u)' /\ Owns(u)' /\ Lives(u)' /\ Counts(u)' /\ Apart(t, u)' /\ Apart(u, t)'
  <2>1. Place(u)' /\ Owns(u)'
    BY NoOneAssumption, ObjectsAssumption DEF TypeOK, Control, Place, Owns, HoldsRegistry, HoldsFamily, HoldsMetric, InScrape, objects, scrape, history, Unlock, Mutexes, Watch
  <2>2. Lives(u)'
    BY DEF TypeOK, Living, Lives, Calling, InScrape, objects, scrape, history, Unlock, Mutexes, Watch
  <2>3. Counts(u)'
    BY DEF TypeOK, Counting, Counts, objects, scrape, history, Unlock, Mutexes, Watch
  <2>4. Apart(t, u)' /\ Apart(u, t)'
    BY DEF TypeOK, Living, Apart, Calling, objects, scrape, history, Unlock, Mutexes, Watch
  <2> QED BY <2>1, <2>2, <2>3, <2>4
<1>3. Place(t)' /\ Owns(t)'
  <2>1. owner' \in [Mutexes -> Threads \cup {NoOne}] /\ pc'[t] # "idle" /\ op'[t] = op[t] /\ at'[t] = at[t]
    BY DEF TypeOK, objects, scrape, history, Unlock, Mutexes, Watch
  <2>2. Place(t)'
    BY <2>1 DEF TypeOK, Place, objects, scrape, history, Unlock, Mutexes, Watch
  <2>3. (owner[registry] = t <=> HoldsRegistry(t))'
    <3>1. owner'[registry] = owner[registry]
      BY ObjectsAssumption DEF TypeOK, Unlock, Mutexes
    <3>2. ~HoldsRegistry(t) /\ ~HoldsRegistry(t)'
      BY <2>1 DEF TypeOK, HoldsRegistry, InScrape, Unlock
    <3> QED BY <3>1, <3>2 DEF Control, Owns
  <2>4. ASSUME NEW f \in Families PROVE (owner[f] = t <=> HoldsFamily(t) /\ FamilyOf(at[t]) = f)'
    BY ObjectsAssumption, NoOneAssumption DEF TypeOK, Control, Owns, HoldsFamily, InScrape, objects, scrape, history, Unlock, Mutexes, Watch
  <2>5. ASSUME NEW m \in Metrics PROVE (owner[m] = t <=> HoldsMetric(t) /\ at[t] = m)'
    BY ObjectsAssumption, NoOneAssumption DEF TypeOK, Control, Owns, HoldsMetric, objects, scrape, history, Unlock, Mutexes, Watch
  <2> QED BY <2>2, <2>3, <2>4, <2>5 DEF Owns
<1>4. Lives(t)'
  BY DEF TypeOK, Living, Lives, Calling, InScrape, objects, scrape, history, Unlock, Mutexes, Watch
<1>5. Counts(t)'
  BY DEF TypeOK, Counting, Counts, objects, scrape, history, Unlock, Mutexes, Watch
<1>6. ASSUME NEW u \in Threads \ {t}, NEW v \in Threads \ {t}, u # v PROVE Apart(u, v)'
  <2>1. \A w \in Threads \ {t} : pc'[w] = pc[w] /\ op'[w] = op[w] /\ at'[w] = at[w]
    BY DEF TypeOK, objects, scrape, history, Unlock, Mutexes, Watch
  <2>2. Apart(u, v)
    BY <1>6 DEF Living
  <2> QED BY <2>1, <2>2, StaysApart
<1> QED BY <1>1, <1>2, <1>3, <1>4, <1>5, <1>6 DEF Control, Living, Counting

\* A metric dies.
LEMMA RemoveMetricStep == ASSUME IInv, NEW t \in Threads, RemoveMetric(t) PROVE IInv'
<1> USE MetricTypes DEF RemoveMetric, IInv
<1>1. TypeOK'
  BY DEF TypeOK, objects, scrape, history, Unlock, Mutexes, Watch
<1>2. ASSUME NEW u \in Threads \ {t}
      PROVE  Place(u)' /\ Owns(u)' /\ Lives(u)' /\ Counts(u)' /\ Apart(t, u)' /\ Apart(u, t)'
  <2>1. Place(u)' /\ Owns(u)'
    BY NoOneAssumption, ObjectsAssumption DEF TypeOK, Control, Place, Owns, HoldsRegistry, HoldsFamily, HoldsMetric, InScrape, objects, scrape, history, Unlock, Mutexes, Watch
  <2>2. Lives(u)'
    <3>1. Lives(u) /\ Apart(t, u) /\ pc'[u] = pc[u] /\ op'[u] = op[u] /\ at'[u] = at[u]
      BY DEF TypeOK, Living, Unlock
    <3>2. Calling(u) /\ UsesMetric(op[u]) => at[u] # at[t]
      BY <3>1 DEF Apart, Kills, Calling
    <3>3. HoldsFamily(u) => FamilyOf(at[u]) # FamilyOf(at[t])
      BY DEF TypeOK, Control, Owns, HoldsFamily
    <3> QED BY <3>1, <3>2, <3>3 DEF Lives, Calling, InScrape, HoldsFamily
  <2>3. Counts(u)'
    BY DEF TypeOK, Counting, Counts, objects, scrape, history, Unlock, Mutexes, Watch
  <2>4. Apart(t, u)' /\ Apart(u, t)'
    BY DEF TypeOK, Living, Apart, Calling, objects, scrape, history, Unlock, Mutexes, Watch
  <2> QED BY <2>1, <2>2, <2>3, <2>4
<1>3. Place(t)' /\ Owns(t)'
  <2>1. owner' \in [Mutexes -> Threads \cup {NoOne}] /\ pc'[t] # "idle" /\ op'[t] = op[t] /\ at'[t] = at[t]
    BY DEF TypeOK, objects, scrape, history, Unlock, Mutexes, Watch
  <2>2. Place(t)'
    BY <2>1 DEF TypeOK, Place, objects, scrape, history, Unlock, Mutexes, Watch
  <2>3. (owner[registry] = t <=> HoldsRegistry(t))'
    <3>1. owner'[registry] = owner[registry]
      BY ObjectsAssumption DEF TypeOK, Unlock, Mutexes
    <3>2. ~HoldsRegistry(t) /\ ~HoldsRegistry(t)'
      BY <2>1 DEF TypeOK, HoldsRegistry, InScrape, Unlock
    <3> QED BY <3>1, <3>2 DEF Control, Owns
  <2>4. ASSUME NEW f \in Families PROVE (owner[f] = t <=> HoldsFamily(t) /\ FamilyOf(at[t]) = f)'
    BY ObjectsAssumption, NoOneAssumption DEF TypeOK, Control, Owns, HoldsFamily, InScrape, objects, scrape, history, Unlock, Mutexes, Watch
  <2>5. ASSUME NEW m \in Metrics PROVE (owner[m] = t <=> HoldsMetric(t) /\ at[t] = m)'
    BY ObjectsAssumption, NoOneAssumption DEF TypeOK, Control, Owns, HoldsMetric, objects, scrape, history, Unlock, Mutexes, Watch
  <2> QED BY <2>2, <2>3, <2>4, <2>5 DEF Owns
<1>4. Lives(t)'
  BY DEF TypeOK, Living, Lives, Calling, InScrape, objects, scrape, history, Unlock, Mutexes, Watch
<1>5. Counts(t)'
  BY DEF TypeOK, Counting, Counts, objects, scrape, history, Unlock, Mutexes, Watch
<1>6. ASSUME NEW u \in Threads \ {t}, NEW v \in Threads \ {t}, u # v PROVE Apart(u, v)'
  <2>1. \A w \in Threads \ {t} : pc'[w] = pc[w] /\ op'[w] = op[w] /\ at'[w] = at[w]
    BY DEF TypeOK, objects, scrape, history, Unlock, Mutexes, Watch
  <2>2. Apart(u, v)
    BY <1>6 DEF Living
  <2> QED BY <2>1, <2>2, StaysApart
<1> QED BY <1>1, <1>2, <1>3, <1>4, <1>5, <1>6 DEF Control, Living, Counting

\* A scrape goes on to a metric.
LEMMA VisitMetricStep == ASSUME IInv, NEW t \in Threads, VisitMetric(t) PROVE IInv'
<1> USE MetricTypes DEF VisitMetric, IInv
<1>1. TypeOK'
  BY DEF TypeOK, objects, scrape, history, MetricsOf, AtMetric
<1>2. ASSUME NEW u \in Threads \ {t}
      PROVE  Place(u)' /\ Owns(u)' /\ Lives(u)' /\ Counts(u)' /\ Apart(t, u)' /\ Apart(u, t)'
  <2>1. Place(u)' /\ Owns(u)'
    BY NoOneAssumption, ObjectsAssumption DEF TypeOK, Control, Place, Owns, HoldsRegistry, HoldsFamily, HoldsMetric, InScrape, objects, scrape, history, MetricsOf, AtMetric
  <2>2. Lives(u)'
    BY DEF TypeOK, Living, Lives, Calling, InScrape, objects, scrape, history, MetricsOf, AtMetric
  <2>3. Counts(u)'
    BY DEF TypeOK, Counting, Counts, objects, scrape, history, MetricsOf, AtMetric
  <2>4. Apart(t, u)' /\ Apart(u, t)'
    BY DEF TypeOK, Living, Apart, Kills, UsesFamily, UsesMetric, Calling, objects, scrape, history, MetricsOf, AtMetric
  <2> QED BY <2>1, <2>2, <2>3, <2>4
<1>3. Place(t)' /\ Owns(t)'
  BY NoOneAssumption, ObjectsAssumption DEF TypeOK, Control, Place, Owns, HoldsRegistry, HoldsFamily, HoldsMetric, InScrape, objects, scrape, history, MetricsOf, AtMetric
<1>4. Lives(t)'
  BY DEF TypeOK, Living, Lives, Calling, InScrape, objects, scrape, history, MetricsOf, AtMetric
<1>5. Counts(t)'
  BY DEF TypeOK, Counting, Counts, objects, scrape, history, MetricsOf, AtMetric
<1>6. ASSUME NEW u \in Threads \ {t}, NEW v \in Threads \ {t}, u # v PROVE Apart(u, v)'
  <2>1. \A w \in Threads \ {t} : pc'[w] = pc[w] /\ op'[w] = op[w] /\ at'[w] = at[w]
    BY DEF TypeOK, objects, scrape, history, MetricsOf, AtMetric
  <2>2. Apart(u, v)
    BY <1>6 DEF Living
  <2> QED BY <2>1, <2>2, StaysApart
<1> QED BY <1>1, <1>2, <1>3, <1>4, <1>5, <1>6 DEF Control, Living, Counting

\* A family has been collected.
LEMMA LeaveFamilyStep == ASSUME IInv, NEW t \in Threads, LeaveFamily(t) PROVE IInv'
<1> USE MetricTypes DEF LeaveFamily, IInv
<1>1. TypeOK'
  BY DEF TypeOK, objects, scrape, history, Unlock, Mutexes, MetricsOf
<1>2. ASSUME NEW u \in Threads \ {t}
      PROVE  Place(u)' /\ Owns(u)' /\ Lives(u)' /\ Counts(u)' /\ Apart(t, u)' /\ Apart(u, t)'
  <2>1. Place(u)' /\ Owns(u)'
    BY NoOneAssumption, ObjectsAssumption DEF TypeOK, Control, Place, Owns, HoldsRegistry, HoldsFamily, HoldsMetric, InScrape, objects, scrape, history, Unlock, Mutexes, MetricsOf
  <2>2. Lives(u)'
    BY DEF TypeOK, Living, Lives, Calling, InScrape, objects, scrape, history, Unlock, Mutexes, MetricsOf
  <2>3. Counts(u)'
    BY DEF TypeOK, Counting, Counts, objects, scrape, history, Unlock, Mutexes, MetricsOf
  <2>4. Apart(t, u)' /\ Apart(u, t)'
    BY DEF TypeOK, Living, Apart, Calling, objects, scrape, history, Unlock, Mutexes, MetricsOf
  <2> QED BY <2>1, <2>2, <2>3, <2>4
<1>3. Place(t)' /\ Owns(t)'
  BY NoOneAssumption, ObjectsAssumption DEF TypeOK, Control, Place, Owns, HoldsRegistry, HoldsFamily, HoldsMetric, InScrape, objects, scrape, history, Unlock, Mutexes, MetricsOf
<1>4. Lives(t)'
  BY DEF TypeOK, Living, Lives, Calling, InScrape, objects, scrape, history, Unlock, Mutexes, MetricsOf
<1>5. Counts(t)'
  BY DEF TypeOK, Counting, Counts, objects, scrape, history, Unlock, Mutexes, MetricsOf
<1>6. ASSUME NEW u \in Threads \ {t}, NEW v \in Threads \ {t}, u # v PROVE Apart(u, v)'
  <2>1. \A w \in Threads \ {t} : pc'[w] = pc[w] /\ op'[w] = op[w] /\ at'[w] = at[w]
    BY DEF TypeOK, objects, scrape, history, Unlock, Mutexes, MetricsOf
  <2>2. Apart(u, v)
    BY <1>6 DEF Living
  <2> QED BY <2>1, <2>2, StaysApart
<1> QED BY <1>1, <1>2, <1>3, <1>4, <1>5, <1>6 DEF Control, Living, Counting

\* A metric counts.
LEMMA UpdateStep == ASSUME IInv, NEW t \in Threads, Update(t) PROVE IInv'
<1> USE MetricTypes DEF Update, IInv
<1>1. TypeOK'
  <2>1. /\ owner' \in [Mutexes -> Threads \cup {NoOne}]
        /\ pc' = [pc EXCEPT ![t] = "return"] /\ op' = op /\ at' = at
    BY LeavingMetric
  <2>2. value' \in [Metrics -> Nat]
    BY DEF TypeOK
  <2> QED BY <2>1, <2>2 DEF TypeOK, scrape, history
<1>2. ASSUME NEW u \in Threads \ {t}
      PROVE  Place(u)' /\ Owns(u)' /\ Lives(u)' /\ Counts(u)' /\ Apart(t, u)' /\ Apart(u, t)'
  <2>1. Place(u)' /\ Owns(u)'
    BY NoOneAssumption, ObjectsAssumption DEF TypeOK, Control, Place, Owns, HoldsRegistry, HoldsFamily, HoldsMetric, InScrape, objects, scrape, history, LeaveMetric, Goto, Unlock, Mutexes
  <2>2. Lives(u)'
    BY DEF TypeOK, Living, Lives, Calling, InScrape, objects, scrape, history, LeaveMetric, Goto, Unlock, Mutexes
  <2>3. Counts(u)'
    BY DEF TypeOK, Counting, Counts, objects, scrape, history, LeaveMetric, Goto, Unlock, Mutexes
  <2>4. Apart(t, u)' /\ Apart(u, t)'
    BY DEF TypeOK, Living, Apart, Calling, objects, scrape, history, LeaveMetric, Goto, Unlock, Mutexes
  <2> QED BY <2>1, <2>2, <2>3, <2>4
<1>3. Place(t)' /\ Owns(t)'
  <2>1. owner' \in [Mutexes -> Threads \cup {NoOne}] /\ pc'[t] # "idle" /\ op'[t] = op[t] /\ at'[t] = at[t]
    BY DEF TypeOK, objects, scrape, history, LeaveMetric, Goto, Unlock, Mutexes
  <2>2. Place(t)'
    BY <2>1 DEF TypeOK, Place, objects, scrape, history, LeaveMetric, Goto, Unlock, Mutexes
  <2>3. (owner[registry] = t <=> HoldsRegistry(t))'
    BY ObjectsAssumption, NoOneAssumption DEF TypeOK, Control, Owns, HoldsRegistry, InScrape, objects, scrape, history, LeaveMetric, Goto, Unlock, Mutexes
  <2>4. ASSUME NEW f \in Families PROVE (owner[f] = t <=> HoldsFamily(t) /\ FamilyOf(at[t]) = f)'
    BY ObjectsAssumption, NoOneAssumption DEF TypeOK, Control, Owns, HoldsFamily, InScrape, objects, scrape, history, LeaveMetric, Goto, Unlock, Mutexes
  <2>5. ASSUME NEW m \in Metrics PROVE (owner[m] = t <=> HoldsMetric(t) /\ at[t] = m)'
    BY ObjectsAssumption, NoOneAssumption DEF TypeOK, Control, Owns, HoldsMetric, objects, scrape, history, LeaveMetric, Goto, Unlock, Mutexes
  <2> QED BY <2>2, <2>3, <2>4, <2>5 DEF Owns
<1>4. Lives(t)'
  BY DEF TypeOK, Living, Lives, Calling, InScrape, objects, scrape, history, LeaveMetric, Goto, Unlock, Mutexes
<1>5. Counts(t)'
  BY DEF TypeOK, Counting, Counts, objects, scrape, history, LeaveMetric, Goto, Unlock, Mutexes
<1>6. ASSUME NEW u \in Threads \ {t}, NEW v \in Threads \ {t}, u # v PROVE Apart(u, v)'
  <2>1. \A w \in Threads \ {t} : pc'[w] = pc[w] /\ op'[w] = op[w] /\ at'[w] = at[w]
    BY DEF TypeOK, objects, scrape, history, LeaveMetric, Goto, Unlock, Mutexes
  <2>2. Apart(u, v)
    BY <1>6 DEF Living
  <2> QED BY <2>1, <2>2, StaysApart
<1> QED BY <1>1, <1>2, <1>3, <1>4, <1>5, <1>6 DEF Control, Living, Counting

\* A metric is collected.
LEMMA ReadMetricStep == ASSUME IInv, NEW t \in Threads, ReadMetric(t) PROVE IInv'
<1> USE MetricTypes DEF ReadMetric, IInv
<1>1. TypeOK'
  <2>1. /\ owner' \in [Mutexes -> Threads \cup {NoOne}]
        /\ pc' = [pc EXCEPT ![t] = "in_family"] /\ op' = op /\ at' = at
    BY LeavingMetric
  <2>2. samples' \in [Threads -> SUBSET Metrics] /\ sample' \in [Threads -> [Metrics -> Nat]]
    BY DEF TypeOK
  <2> QED BY <2>1, <2>2 DEF TypeOK, objects, history
<1>2. ASSUME NEW u \in Threads \ {t}
      PROVE  Place(u)' /\ Owns(u)' /\ Lives(u)' /\ Counts(u)' /\ Apart(t, u)' /\ Apart(u, t)'
  <2>1. Place(u)' /\ Owns(u)'
    BY NoOneAssumption, ObjectsAssumption DEF TypeOK, Control, Place, Owns, HoldsRegistry, HoldsFamily, HoldsMetric, InScrape, objects, scrape, history, LeaveMetric, Goto, Unlock, Mutexes
  <2>2. Lives(u)'
    BY DEF TypeOK, Living, Lives, Calling, InScrape, objects, scrape, history, LeaveMetric, Goto, Unlock, Mutexes
  <2>3. Counts(u)'
    BY DEF TypeOK, Counting, Counts, objects, scrape, history, LeaveMetric, Goto, Unlock, Mutexes
  <2>4. Apart(t, u)' /\ Apart(u, t)'
    BY DEF TypeOK, Living, Apart, Calling, objects, scrape, history, LeaveMetric, Goto, Unlock, Mutexes
  <2> QED BY <2>1, <2>2, <2>3, <2>4
<1>3. Place(t)' /\ Owns(t)'
  <2>1. owner' \in [Mutexes -> Threads \cup {NoOne}] /\ pc'[t] # "idle" /\ op'[t] = op[t] /\ at'[t] = at[t]
    BY DEF TypeOK, objects, scrape, history, LeaveMetric, Goto, Unlock, Mutexes
  <2>2. Place(t)'
    BY <2>1 DEF TypeOK, Place, objects, scrape, history, LeaveMetric, Goto, Unlock, Mutexes
  <2>3. (owner[registry] = t <=> HoldsRegistry(t))'
    BY ObjectsAssumption, NoOneAssumption DEF TypeOK, Control, Owns, HoldsRegistry, InScrape, objects, scrape, history, LeaveMetric, Goto, Unlock, Mutexes
  <2>4. ASSUME NEW f \in Families PROVE (owner[f] = t <=> HoldsFamily(t) /\ FamilyOf(at[t]) = f)'
    BY ObjectsAssumption, NoOneAssumption DEF TypeOK, Control, Owns, HoldsFamily, InScrape, objects, scrape, history, LeaveMetric, Goto, Unlock, Mutexes
  <2>5. ASSUME NEW m \in Metrics PROVE (owner[m] = t <=> HoldsMetric(t) /\ at[t] = m)'
    BY ObjectsAssumption, NoOneAssumption DEF TypeOK, Control, Owns, HoldsMetric, objects, scrape, history, LeaveMetric, Goto, Unlock, Mutexes
  <2> QED BY <2>2, <2>3, <2>4, <2>5 DEF Owns
<1>4. Lives(t)'
  BY DEF TypeOK, Living, Lives, Calling, InScrape, objects, scrape, history, LeaveMetric, Goto, Unlock, Mutexes
<1>5. Counts(t)'
  <2>1. pc'[t] = "in_family" /\ op' = op /\ at' = at
    BY LeavingMetric DEF TypeOK
  <2>2. /\ samples'[t] = samples[t] \cup {at[t]}
        /\ sample'[t] = [sample[t] EXCEPT ![at[t]] = value[at[t]]]
        /\ at[t] \in Metrics /\ sample[t] \in [Metrics -> Nat]
        /\ UNCHANGED <<metrics, value, done, floor, kept, ever>>
    BY DEF TypeOK, objects, history
  <2>3. at[t] \in metrics /\ Counts(t)
    BY DEF Living, Lives, InScrape, Counting
  <2>4. \A m \in kept[t] : m \in Metrics /\ value[m] \in Nat /\ floor[t][m] \in Nat
    BY DEF TypeOK
  <2> QED BY <2>1, <2>2, <2>3, <2>4 DEF Counts
<1>6. ASSUME NEW u \in Threads \ {t}, NEW v \in Threads \ {t}, u # v PROVE Apart(u, v)'
  <2>1. \A w \in Threads \ {t} : pc'[w] = pc[w] /\ op'[w] = op[w] /\ at'[w] = at[w]
    BY DEF TypeOK, objects, scrape, history, LeaveMetric, Goto, Unlock, Mutexes
  <2>2. Apart(u, v)
    BY <1>6 DEF Living
  <2> QED BY <2>1, <2>2, StaysApart
<1> QED BY <1>1, <1>2, <1>3, <1>4, <1>5, <1>6 DEF Control, Living, Counting

\* A call returns.
LEMMA ReturnStep == ASSUME IInv, NEW t \in Threads, Return(t) PROVE IInv'
<1> USE MetricTypes DEF Return, IInv
<1>1. TypeOK'
  BY DEF TypeOK, objects, scrape, history, Zeros, Ops
<1>2. ASSUME NEW u \in Threads \ {t}
      PROVE  Place(u)' /\ Owns(u)' /\ Lives(u)' /\ Counts(u)' /\ Apart(t, u)' /\ Apart(u, t)'
  <2>1. Place(u)' /\ Owns(u)'
    BY NoOneAssumption, ObjectsAssumption DEF TypeOK, Control, Place, Owns, HoldsRegistry, HoldsFamily, HoldsMetric, InScrape, objects, scrape, history, Zeros, Ops
  <2>2. Lives(u)'
    BY DEF TypeOK, Living, Lives, Calling, InScrape, objects, scrape, history, Zeros, Ops
  <2>3. Counts(u)'
    BY DEF TypeOK, Counting, Counts, objects, scrape, history, Zeros, Ops
  <2>4. Apart(t, u)' /\ Apart(u, t)'
    BY DEF TypeOK, Living, Apart, Calling, objects, scrape, history, Zeros, Ops
  <2> QED BY <2>1, <2>2, <2>3, <2>4
<1>3. Place(t)' /\ Owns(t)'
  BY NoOneAssumption, ObjectsAssumption DEF TypeOK, Control, Place, Owns, HoldsRegistry, HoldsFamily, HoldsMetric, InScrape, objects, scrape, history, Zeros, Ops
<1>4. Lives(t)'
  BY DEF TypeOK, Living, Lives, Calling, InScrape, objects, scrape, history, Zeros, Ops
<1>5. Counts(t)'
  BY DEF TypeOK, Counting, Counts, objects, scrape, history, Zeros, Ops
<1>6. ASSUME NEW u \in Threads \ {t}, NEW v \in Threads \ {t}, u # v PROVE Apart(u, v)'
  <2>1. \A w \in Threads \ {t} : pc'[w] = pc[w] /\ op'[w] = op[w] /\ at'[w] = at[w]
    BY DEF TypeOK, objects, scrape, history, Zeros, Ops
  <2>2. Apart(u, v)
    BY <1>6 DEF Living
  <2> QED BY <2>1, <2>2, StaysApart
<1> QED BY <1>1, <1>2, <1>3, <1>4, <1>5, <1>6 DEF Control, Living, Counting

LEMMA Inductive == IInv /\ [Next]_vars => IInv'
<1> SUFFICES ASSUME IInv, [Next]_vars PROVE IInv'
  OBVIOUS
<1>1. CASE UNCHANGED vars
  BY <1>1 DEF vars, objects, control, scrape, history, IInv, TypeOK, Control, Place, Owns,
              HoldsRegistry, HoldsFamily, HoldsMetric, InScrape, Living, Lives, Apart, Calling,
              Counting, Counts
<1>2. ASSUME NEW t \in Threads, Run(t) PROVE IInv'
  BY <1>2, RegisterStep, RemoveFamilyStep, VisitFamilyStep, EndScrapeStep, AddMetricStep,
     RemoveMetricStep, VisitMetricStep, LeaveFamilyStep, UpdateStep, ReadMetricStep,
     ReturnStep, Zenon DEF Run
<1> QED BY <1>1, <1>2, CallStep, LockStep DEF Next

\* The invariant holds in every state, for any threads, families and labels.
THEOREM Invariance == Spec => []IInv
BY Initial, Inductive, PTL DEF Spec

-----------------------------------------------------------------------------
(* What follows from it                                                    *)

\* Every variable keeps its type, and no metric outlives its family.
THEOREM TypeCorrect == Spec => []TypeOK
<1>1. IInv => TypeOK
  BY DEF IInv
<1> QED BY <1>1, Invariance, PTL

LEMMA InvariantDangles == IInv => NoDangling
<1> SUFFICES ASSUME IInv PROVE NoDangling
  OBVIOUS
<1> USE MetricTypes DEF IInv
<1>1. ASSUME NEW t \in Threads, Waiting(t) PROVE Alive(Wanted(t))
  BY <1>1 DEF TypeOK, Control, Place, Living, Lives, Calling, InScrape, UsesFamily, UsesMetric,
              Waiting, Wanted, Alive, MetricOps
<1>2. ASSUME NEW t \in Threads, pc[t] = "in_family" PROVE FamilyOf(at[t]) \in registered
  BY <1>2 DEF Control, Place, Living, Lives, Calling, InScrape, UsesFamily, MetricOps
<1>3. ASSUME NEW t \in Threads, pc[t] = "in_metric" PROVE at[t] \in metrics
  BY <1>3 DEF Control, Place, Living, Lives, Calling, InScrape, UsesMetric
<1>4. ASSUME NEW l \in Mutexes, owner[l] # NoOne PROVE Alive(l)
  <2>1. owner[l] \in Threads
    BY <1>4 DEF TypeOK
  <2>2. CASE l = registry
    BY <2>2 DEF Alive
  <2>3. CASE l \in Families
    BY <2>1, <2>3, <1>2 DEF Control, Owns, HoldsFamily, Living, Lives, InScrape, Alive
  <2>4. CASE l \in Metrics
    BY <2>1, <2>4, <1>3 DEF Control, Owns, HoldsMetric, Alive
  <2> QED BY <2>2, <2>3, <2>4 DEF Mutexes
<1> QED BY <1>1, <1>2, <1>3, <1>4 DEF NoDangling

\* No thread is in, holds or waits for anything that has been destroyed.
THEOREM NothingDangles == Spec => []NoDangling
BY InvariantDangles, Invariance, PTL

\* Who waits for a metric waits for somebody who waits for nothing; who waits for
\* a family waits for somebody who waits for a metric at most; and so on.
LEMMA InvariantOrder == IInv => NoCircularWait
<1> SUFFICES ASSUME IInv, NEW S \in (SUBSET Threads) \ {{}},
                    ~\E t \in S : Waiting(t) => owner[Wanted(t)] \notin S
             PROVE  FALSE
  BY DEF NoCircularWait
<1>0. S \subseteq Threads /\ S # {} /\ \A t \in S : Waiting(t) /\ owner[Wanted(t)] \in S
  <2>1. S \subseteq Threads /\ S # {}
    OBVIOUS
  <2>2. ASSUME NEW t \in S PROVE Waiting(t) /\ owner[Wanted(t)] \in S
    <3> DEFINE o == owner[Wanted(t)]
    <3>1. ~(Waiting(t) => o \notin S)
      OBVIOUS
    <3> HIDE DEF o
    <3>2. Waiting(t) /\ o \in S
      BY <3>1
    <3> QED BY <3>2 DEF o
  <2> QED BY <2>1, <2>2
<1> USE MetricTypes DEF IInv
<1>1. \A t \in S : pc[t] # "lock_metric"
  <2> SUFFICES ASSUME NEW t \in S, pc[t] = "lock_metric" PROVE FALSE
    OBVIOUS
  <2>1. PICK u \in S : u = owner[at[t]]
    BY <1>0 DEF Wanted
  <2>2. HoldsMetric(u)
    BY <1>0, <2>1 DEF TypeOK, Control, Owns
  <2> QED BY <1>0, <2>2 DEF HoldsMetric, Waiting
<1>2. \A t \in S : pc[t] # "lock_family"
  <2> SUFFICES ASSUME NEW t \in S, pc[t] = "lock_family" PROVE FALSE
    OBVIOUS
  <2>1. PICK u \in S : u = owner[FamilyOf(at[t])]
    BY <1>0 DEF Wanted
  <2>2. HoldsFamily(u)
    BY <1>0, <2>1 DEF TypeOK, Control, Owns
  <2> QED BY <1>0, <1>1, <2>2 DEF HoldsFamily, InScrape, Waiting
<1>3. PICK t \in S : pc[t] = "lock_registry"
  BY <1>0, <1>1, <1>2 DEF Waiting
<1>4. PICK u \in S : u = owner[registry]
  BY <1>0, <1>3 DEF Wanted
<1>5. HoldsRegistry(u)
  BY <1>0, <1>4 DEF Control, Owns
<1> QED BY <1>0, <1>1, <1>2, <1>5 DEF HoldsRegistry, InScrape, Waiting

\* The mutexes of registry, families and metrics cannot deadlock.
THEOREM NoDeadlock == Spec => []NoCircularWait
BY InvariantOrder, Invariance, PTL

\* A scrape misses nothing that stays, invents nothing and reports values of its time.
THEOREM RegularScrapes == Spec => []ScrapeRegular
<1>1. IInv => ScrapeRegular
  BY DEF IInv, Counting, Counts, ScrapeRegular
<1> QED BY <1>1, Invariance, PTL
=============================================================================
