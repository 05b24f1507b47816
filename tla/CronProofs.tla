------------------------------ MODULE CronProofs ------------------------------
(***************************************************************************)
(* Theorems about when a task fires.  First CronScheduler, for every number *)
(* of replicas, every set of planned times, lease length and clock skew, and *)
(* that it implements Timetable; then ScheduleExpressions, for every        *)
(* calendar and every expression; last, that an expression gives the        *)
(* planned times that CronScheduler takes for granted.                      *)
(***************************************************************************)
EXTENDS CronRefinement, ScheduleExpressions, FiniteSetTheorems, WellFoundedInduction, TLAPS

\* A minute of the database's or of a replica's clock is a natural number.
LEMMA MinuteNat == ASSUME NEW t \in Nat PROVE Minute(t) \in Nat
  BY CronAssumption DEF Minute

LEMMA TypeInit == Init => TypeOK
  BY CronAssumption DEF Init, TypeOK, NoTime, Running

LEMMA TypeStep == TypeOK /\ [Next]_vars => TypeOK'
<1> SUFFICES ASSUME TypeOK, [Next]_vars PROVE TypeOK'
  OBVIOUS
<1> USE CronAssumption DEF TypeOK, Running, Goto, Works, Fails, dbVars, runVars, histVars
<1>1. CASE UNCHANGED vars
  BY <1>1 DEF vars
<1>2. ASSUME NEW i \in Instance, Start(i) PROVE TypeOK'
  BY <1>2 DEF Start, IsNext, NoTime
<1>3. ASSUME NEW i \in Instance, Fire(i) PROVE TypeOK'
  <2>1. next[i] \in Planned /\ next[i] # NoTime /\ up[i]
    BY <1>3 DEF Fire
  <2>2. next' \in [Instance -> Planned \cup {NoTime}] /\ next'[i] # NoTime
    BY <1>3 DEF Fire, IsNext, NoTime
  <2>3. occ' \in [Instance -> Planned \cup {NoTime}] /\ occ'[i] # NoTime
    BY <1>3, <2>1 DEF Fire
  <2> QED
    BY <1>3, <2>1, <2>2, <2>3 DEF Fire
<1>4. ASSUME NEW i \in Instance, FireSkipped(i) PROVE TypeOK'
  <2>1. next[i] \in Planned /\ next[i] # NoTime /\ up[i]
    BY <1>4 DEF FireSkipped
  <2>2. next' \in [Instance -> Planned \cup {NoTime}] /\ next'[i] # NoTime
    BY <1>4 DEF FireSkipped, IsNext, NoTime
  <2> QED
    BY <1>4, <2>1, <2>2 DEF FireSkipped
<1>5. ASSUME NEW i \in Instance, ReadKey(i) PROVE TypeOK'
  <2>1. Minute(clock) \in Nat /\ Minute(Local(i)) \in Nat
    BY MinuteNat DEF Local
  <2>2. key' \in [Instance -> Nat \cup {NoTime}] /\ key'[i] # NoTime
    BY <1>5, <2>1 DEF ReadKey, NoTime
  <2> QED
    BY <1>5, <2>2 DEF ReadKey
<1>6. ASSUME NEW i \in Instance, Acquire(i) PROVE TypeOK'
  BY <1>6 DEF Acquire
<1>7. ASSUME NEW i \in Instance, AcquireMiss(i) PROVE TypeOK'
  BY <1>7 DEF AcquireMiss, Return
<1>8. ASSUME NEW i \in Instance, EnqueueCheck(i) PROVE TypeOK'
  BY <1>8 DEF EnqueueCheck
<1>9. ASSUME NEW i \in Instance, Insert(i) PROVE TypeOK'
  <2>1. key[i] \in Nat /\ occ[i] \in Planned
    BY <1>9 DEF Insert
  <2> QED
    BY <1>9, <2>1 DEF Insert
<1>10. ASSUME NEW i \in Instance, Release(i) PROVE TypeOK'
  BY <1>10 DEF Release, Return
<1>11. ASSUME NEW i \in Instance, Crash(i) PROVE TypeOK'
  BY <1>11 DEF Crash, Return
<1>12. CASE Toggle
  BY <1>12 DEF Toggle
<1>13. CASE Tick
  BY <1>13 DEF Tick
<1> QED
  BY <1>1, <1>2, <1>3, <1>4, <1>5, <1>6, <1>7, <1>8, <1>9, <1>10, <1>11, <1>12, <1>13
  DEF Next, InstanceNext

\* Every variable keeps its type.
THEOREM CronTypeCorrect == Spec => []TypeOK
<1> QED
  BY TypeInit, TypeStep, PTL DEF Spec

-----------------------------------------------------------------------------
(* The lease.                                                              *)

\* The inductive form of LeaseHeld: the row also tells when its holder, if
\* it is still working, took the lease.
LeaseInv ==
  \A i \in Instance :
    InSection(i) /\ clock - since[i] <= LeaseLen => locked_by = i /\ locked_at = since[i]

LEMMA LeaseStep == TypeOK /\ LeaseInv /\ [Next]_vars => LeaseInv'
<1> SUFFICES ASSUME TypeOK, LeaseInv, [Next]_vars,
                    NEW j \in Instance, InSection(j)', clock' - since'[j] <= LeaseLen
             PROVE  locked_by' = j /\ locked_at' = since'[j]
  BY DEF LeaseInv
<1> USE DEF InSection
<1>a. /\ clock \in Nat /\ LeaseLen \in Nat /\ since[j] \in Nat
      /\ pc \in [Instance -> Running \cup {"idle"}] /\ since \in [Instance -> 0 .. Horizon]
  BY CronAssumption DEF TypeOK
<1>1. CASE /\ pc'[j] = pc[j] \/ InSection(j)
           /\ since'[j] = since[j]
           /\ clock' \in {clock, clock + 1}
           /\ UNCHANGED <<locked_by, locked_at>>
  <2>1. InSection(j)
    BY <1>1
  <2>2. clock - since[j] <= LeaseLen
    BY <1>1, <1>a
  <2> QED
    BY <1>1, <2>1, <2>2 DEF LeaseInv
<1>2. ASSUME NEW i \in Instance,
             Start(i) \/ Fire(i) \/ FireSkipped(i) \/ ReadKey(i) \/ EnqueueCheck(i) \/ Insert(i)
      PROVE  locked_by' = j /\ locked_at' = since'[j]
  BY <1>1, <1>2, <1>a DEF Start, Fire, FireSkipped, ReadKey, EnqueueCheck, Insert, Goto,
     dbVars, runVars, histVars
<1>3. ASSUME NEW i \in Instance, Acquire(i)
      PROVE  locked_by' = j /\ locked_at' = since'[j]
  <2>1. CASE i = j
    BY <1>3, <1>a, <2>1 DEF Acquire
  <2>2. CASE i # j
    <3>1. InSection(j) /\ since'[j] = since[j] /\ clock' = clock
      BY <1>3, <1>a, <2>2 DEF Acquire, Goto
    <3>2. locked_by = j /\ locked_at = since[j] /\ clock - since[j] <= LeaseLen
      BY <3>1 DEF LeaseInv
    <3>3. locked_by # NoInstance /\ ~(clock - locked_at > LeaseLen)
      BY <1>a, <3>2, CronAssumption
    <3> QED
      BY <1>3, <3>3 DEF Acquire, LeaseFree
  <2> QED
    BY <2>1, <2>2
<1>4. ASSUME NEW i \in Instance, AcquireMiss(i) \/ Crash(i)
      PROVE  locked_by' = j /\ locked_at' = since'[j]
  <2>1. i # j
    BY <1>4, <1>a DEF AcquireMiss, Crash, Return, Goto
  <2> QED
    BY <1>1, <1>4, <1>a, <2>1 DEF AcquireMiss, Crash, Return, Goto, dbVars
<1>5. ASSUME NEW i \in Instance, Release(i)
      PROVE  locked_by' = j /\ locked_at' = since'[j]
  <2>1. i # j /\ InSection(j) /\ since'[j] = since[j] /\ clock' = clock
    BY <1>5, <1>a DEF Release, Return, Goto
  <2>2. locked_by = j /\ locked_at = since[j]
    BY <2>1 DEF LeaseInv
  <2> QED
    BY <1>5, <2>1, <2>2 DEF Release
<1>6. CASE Toggle \/ Tick \/ UNCHANGED vars
  BY <1>1, <1>6 DEF Toggle, Tick, dbVars, runVars, histVars, vars
<1> QED
  BY <1>2, <1>3, <1>4, <1>5, <1>6 DEF Next, InstanceNext

\* A lease protects its holder for its whole length: for any number of
\* replicas, however slow, with crashes and database errors.
THEOREM LeaseProtects == Spec => []LeaseHeld
<1>1. Init => TypeOK /\ LeaseInv
  BY TypeInit DEF Init, LeaseInv, InSection
<1>2. (TypeOK /\ LeaseInv) /\ [Next]_vars => (TypeOK /\ LeaseInv)'
  BY TypeStep, LeaseStep
<1>3. LeaseInv => LeaseHeld
  BY DEF LeaseInv, LeaseHeld
<1> QED
  BY <1>1, <1>2, <1>3, PTL DEF Spec

-----------------------------------------------------------------------------
(* One job per occurrence.                                                 *)

\* With clocks that agree and prompt replicas everything about an occurrence
\* happens in its own minute, so its dedupe key is that minute.
MinuteInv ==
  /\ \A i \in Instance :
       /\ up[i] /\ next[i] <= clock => Minute(next[i]) = Minute(clock)
       /\ pc[i] # "idle" => Minute(occ[i]) = Minute(clock)
       /\ pc[i] \notin {"idle", "fired"} => key[i] = Minute(occ[i])
  /\ \A r \in jobs : r.key = Minute(r.occ)
  /\ \A a, b \in jobs : a.key = b.key => a = b

\* The replicas' clocks agree with the database's.
InSync == \A i \in Instance : Skew[i] = 0

LEMMA MinuteStep ==
  ASSUME InSync PROVE TypeOK /\ scene.prompt /\ MinuteInv /\ [Next]_vars => MinuteInv'
<1> SUFFICES ASSUME TypeOK, scene.prompt, MinuteInv, [Next]_vars PROVE MinuteInv'
  OBVIOUS
<1>a. clock \in Nat /\ \A i \in Instance : Local(i) = clock /\ next[i] \in Int
  <2>1. clock \in Nat
    BY CronAssumption DEF TypeOK
  <2>2. \A i \in Instance : Local(i) = clock
    BY <2>1 DEF InSync, Local
  <2>3. ASSUME NEW i \in Instance PROVE next[i] \in Int
    <3>1. next[i] \in Planned \cup {NoTime}
      BY DEF TypeOK
    <3>2. Planned \subseteq Nat /\ NoTime \in Int
      BY CronAssumption DEF NoTime
    <3>3. ASSUME NEW m \in Nat PROVE m \in Int
      OBVIOUS
    <3>4. CASE next[i] \in Planned
      BY <3>2, <3>3, <3>4, Zenon
    <3>5. CASE next[i] = NoTime
      BY <3>2, <3>5, Zenon
    <3> QED
      BY <3>1, <3>4, <3>5
  <2> QED
    BY <2>1, <2>2, <2>3
<1>b. /\ pc \in [Instance -> Running \cup {"idle"}] /\ up \in [Instance -> BOOLEAN]
      /\ occ \in [Instance -> Planned \cup {NoTime}] /\ key \in [Instance -> Nat \cup {NoTime}]
      /\ next \in [Instance -> Planned \cup {NoTime}]
  BY DEF TypeOK
<1> USE DEF Goto, dbVars, runVars, histVars
<1>1. ASSUME NEW i \in Instance, Start(i) PROVE MinuteInv'
  <2>1. next'[i] > clock /\ \A j \in Instance \ {i} : next'[j] = next[j] /\ up'[j] = up[j]
    BY <1>1, <1>a, <1>b DEF Start, IsNext
  <2>2. UNCHANGED <<clock, jobs, pc, occ, key>>
    BY <1>1 DEF Start
  <2>3. next'[i] \in Int
    BY <1>1, <1>b, CronAssumption DEF Start
  <2> QED
    BY <1>a, <2>1, <2>2, <2>3 DEF MinuteInv
<1>2. ASSUME NEW i \in Instance, Fire(i) PROVE MinuteInv'
  <2>1. /\ next'[i] > clock /\ next'[i] \in Int
        /\ \A j \in Instance \ {i} : next'[j] = next[j]
    BY <1>2, <1>a, <1>b, CronAssumption DEF Fire, IsNext
  <2>2. /\ UNCHANGED <<clock, jobs, up, key>> /\ pc'[i] = "fired" /\ occ'[i] = next[i]
        /\ \A j \in Instance \ {i} : pc'[j] = pc[j] /\ occ'[j] = occ[j]
    BY <1>2, <1>b DEF Fire
  <2>3. Minute(next[i]) = Minute(clock)
    BY <1>2, <1>a DEF Fire, MinuteInv
  <2> QED
    BY <1>a, <2>1, <2>2, <2>3 DEF MinuteInv
<1>3. ASSUME NEW i \in Instance, FireSkipped(i) PROVE MinuteInv'
  <2>1. /\ next'[i] > clock /\ next'[i] \in Int
        /\ \A j \in Instance \ {i} : next'[j] = next[j]
    BY <1>3, <1>a, <1>b, CronAssumption DEF FireSkipped, IsNext
  <2>2. UNCHANGED <<clock, jobs, up, pc, occ, key>>
    BY <1>3 DEF FireSkipped
  <2> QED
    BY <1>a, <2>1, <2>2 DEF MinuteInv
<1>4. ASSUME NEW i \in Instance, ReadKey(i) PROVE MinuteInv'
  <2>1. /\ UNCHANGED <<clock, jobs, up, next, occ>> /\ pc[i] = "fired"
        /\ key'[i] = Minute(clock)
        /\ \A j \in Instance \ {i} : pc'[j] = pc[j] /\ key'[j] = key[j]
    BY <1>4, <1>a, <1>b DEF ReadKey
  <2> QED
    BY <2>1 DEF MinuteInv
<1>5. ASSUME NEW i \in Instance, Acquire(i) \/ EnqueueCheck(i) PROVE MinuteInv'
  <2>1. /\ UNCHANGED <<clock, jobs, up, next, occ, key>> /\ pc[i] \notin {"idle", "fired"}
        /\ \A j \in Instance \ {i} : pc'[j] = pc[j]
    BY <1>5, <1>b DEF Acquire, EnqueueCheck
  <2> QED
    BY <2>1 DEF MinuteInv
<1>6. ASSUME NEW i \in Instance, AcquireMiss(i) \/ Release(i) PROVE MinuteInv'
  <2>1. /\ UNCHANGED <<clock, jobs, up, next>> /\ pc'[i] = "idle"
        /\ \A j \in Instance \ {i} : pc'[j] = pc[j] /\ occ'[j] = occ[j] /\ key'[j] = key[j]
    BY <1>6, <1>b DEF AcquireMiss, Release, Return
  <2> QED
    BY <2>1 DEF MinuteInv
<1>7. ASSUME NEW i \in Instance, Insert(i) PROVE MinuteInv'
  <2>1. /\ UNCHANGED <<clock, up, next, occ, key>> /\ pc[i] = "checked"
        /\ \A j \in Instance \ {i} : pc'[j] = pc[j]
    BY <1>7, <1>b DEF Insert
  <2>2. /\ \A r \in jobs' : r.key = Minute(r.occ)
        /\ \A a, b \in jobs' : a.key = b.key => a = b
    <3>1. CASE UNCHANGED jobs
      BY <3>1 DEF MinuteInv
    <3>2. CASE /\ ~Taken(key[i])
               /\ jobs' = jobs \cup {[key |-> key[i], occ |-> occ[i], by |-> i]}
      BY <2>1, <3>2 DEF Taken, MinuteInv
    <3> QED
      BY <1>7, <3>1, <3>2 DEF Insert
  <2> QED
    BY <2>1, <2>2 DEF MinuteInv
<1>8. ASSUME NEW i \in Instance, Crash(i) PROVE MinuteInv'
  <2>1. /\ UNCHANGED <<clock, jobs>> /\ pc'[i] = "idle" /\ ~up'[i]
        /\ \A j \in Instance \ {i} : /\ pc'[j] = pc[j] /\ occ'[j] = occ[j] /\ key'[j] = key[j]
                                    /\ up'[j] = up[j] /\ next'[j] = next[j]
    BY <1>8, <1>b DEF Crash, Return
  <2> QED
    BY <2>1 DEF MinuteInv
<1>9. CASE Tick
  <2>1. UNCHANGED <<jobs, up, next, pc, occ, key>> /\ clock' = clock + 1
    BY <1>9 DEF Tick
  <2>2. \A i \in Instance : pc[i] # "idle" => up[i]
    BY DEF TypeOK
  <2>3. CASE Minute(clock + 1) = Minute(clock)
    <3>1. \A i \in Instance : next[i] <= clock + 1 => next[i] <= clock \/ next[i] = clock + 1
      BY <1>a
    <3> QED
      BY <2>1, <2>3, <3>1 DEF MinuteInv
  <2>4. CASE Minute(clock + 1) # Minute(clock)
    <3>1. \A i \in Instance : up[i] => pc[i] = "idle" /\ next[i] > clock
      BY <1>9, <1>a, <2>4 DEF Tick, MinuteDone
    <3>2. \A i \in Instance : up[i] /\ next[i] <= clock + 1 => next[i] = clock + 1
      BY <1>a, <3>1
    <3> QED
      BY <2>1, <2>2, <3>1, <3>2 DEF MinuteInv
  <2> QED
    BY <2>3, <2>4
<1>10. CASE Toggle \/ UNCHANGED vars
  BY <1>10 DEF Toggle, vars, MinuteInv
<1> QED
  BY <1>1, <1>2, <1>3, <1>4, <1>5, <1>6, <1>7, <1>8, <1>9, <1>10 DEF Next, InstanceNext

\* When the replicas' clocks agree with the database's and fired jobs end
\* within their minute, no occurrence gives two jobs, for any number of
\* replicas and any schedule, and whatever crashes or statements fail.
THEOREM OncePerOccurrence == ASSUME InSync PROVE Spec => []OneJobPerOccurrence
<1> DEFINE Inv == TypeOK /\ (scene.prompt => MinuteInv)
<1>1. Init => Inv
  BY TypeInit DEF Init, MinuteInv
<1>2. Inv /\ [Next]_vars => Inv'
  <2>1. [Next]_vars => scene' = scene
    BY DEF Next, InstanceNext, vars, histVars, Start, Fire, FireSkipped, ReadKey, Acquire, AcquireMiss,
           EnqueueCheck, Insert, Release, Crash, Toggle, Tick
  <2> QED
    BY <2>1, TypeStep, MinuteStep
<1>3. Inv => OneJobPerOccurrence
  BY DEF MinuteInv, OneJobPerOccurrence
<1> QED
  BY <1>1, <1>2, <1>3, PTL DEF Spec

-----------------------------------------------------------------------------
(* What crashes and faults cost.                                            *)

\* A planned time is the start of its minute.
LEMMA PlannedTime ==
  ASSUME NEW m \in Planned
  PROVE  m \in Nat /\ Minute(m) \in Nat /\ m = MinuteLen * Minute(m)
<1>1. m \in Nat /\ m % MinuteLen = 0 /\ MinuteLen \in Nat \ {0}
  BY CronAssumption
<1> QED BY <1>1, MinuteNat DEF Minute

\* No two minutes lie within the length of one.
LEMMA NextMinute ==
  ASSUME NEW a \in Nat, NEW c \in Nat, a <= c, c <= a + MinuteLen
  PROVE  Minute(c) = Minute(a) \/ Minute(c) = Minute(a) + 1
<1> DEFINE L == MinuteLen
           p == Minute(a)
           q == Minute(c)
<1>1. L \in Nat \ {0} /\ p \in Nat /\ q \in Nat
  BY CronAssumption, MinuteNat
<1>2. L * p <= a /\ a < L * p + L /\ L * q <= c /\ c < L * q + L
  BY CronAssumption DEF Minute
<1> HIDE DEF L, p, q
<1>3. \A x, y \in Nat : x <= y => L * x <= L * y
  BY <1>1
<1>4. ~(q < p)
  <2>1. q + 1 <= p => L * (q + 1) <= L * p
    BY <1>1, <1>3
  <2>2. L * (q + 1) = L * q + L
    BY <1>1
  <2> QED BY <1>1, <1>2, <2>1, <2>2
<1>5. ~(q >= p + 2)
  <2>1. p + 2 <= q => L * (p + 2) <= L * q
    BY <1>1, <1>3
  <2>2. L * (p + 2) = L * p + L + L
    BY <1>1
  <2>3. c <= a + L
    BY DEF L
  <2> QED BY <1>1, <1>2, <2>1, <2>2, <2>3
<1>6. q = p \/ q = p + 1
  BY <1>1, <1>4, <1>5
<1> QED BY <1>6 DEF p, q

\* A lease is no longer than a minute, as leaseSeconds is.
ShortLease == LeaseLen <= MinuteLen

Done(m) == \E r \in jobs : r.occ = m

\* A fired job is on its way to enqueue for the occurrence m.
Hope(m) == \E i \in Instance : occ[i] = m /\ pc[i] \in {"fired", "keyed", "locked", "checked"}

\* The lease is held by no job that runs: it waits to expire.
Orphan == locked_by # NoInstance /\ (locked_by \in Instance => ~InSection(locked_by))

\* The occurrences S account for every loss: an occurrence that was fired has
\* its job, or is on its way, or is in S; and so are those that an orphaned
\* lease stands in the way of.
Covers(S) ==
  /\ \A m \in fired : Done(m) \/ m \in S \/ Hope(m)
  /\ \A i \in Instance : pc[i] = "release" => Done(occ[i]) \/ occ[i] \in S
  /\ Orphan => \A m \in Planned : Minute(m) = Minute(locked_at) \/ Minute(m) = Minute(locked_at) + 1 => m \in S

\* Every crash and every failed statement pays for two occurrences.
Paid(S) == IsFiniteSet(S) /\ Cardinality(S) <= 2 * (crashes + faults)

Plain ==
  /\ enabled /\ locked_at <= clock
  /\ \A i \in Instance : pc[i] # "idle" => occ[i] \in fired
  /\ \A i \in Instance : InSection(i) /\ locked_by = i => Minute(locked_at) = Minute(occ[i])

LossInv == toggles = 0 => Plain /\ \E S : Paid(S) /\ Covers(S)

LEMMA SameMinute ==
  ASSUME NEW m \in Planned, NEW n \in Planned, Minute(m) = Minute(n)
  PROVE  m = n
BY PlannedTime

\* One more crash or fault pays for an occurrence and the next.
LEMMA OneMore ==
  ASSUME TypeOK, NEW S, Paid(S), NEW m,
         \/ crashes' = crashes + 1 /\ faults' = faults
         \/ crashes' = crashes /\ faults' = faults + 1
  PROVE  Paid(S \cup {m, m + MinuteLen})'
<1>1. crashes \in Nat /\ faults \in Nat
  BY CronAssumption DEF TypeOK
<1> DEFINE T == S \cup {m}
           U == T \cup {m + MinuteLen}
<1>2. IsFiniteSet(S) /\ Cardinality(S) \in Nat
  BY FS_CardinalityType DEF Paid
<1>3. IsFiniteSet(T) /\ Cardinality(T) <= Cardinality(S) + 1 /\ Cardinality(T) \in Nat
  BY <1>2, FS_AddElement
<1>4. IsFiniteSet(U) /\ Cardinality(U) <= Cardinality(T) + 1 /\ Cardinality(U) \in Nat
  <2> HIDE DEF T
  <2> QED BY <1>3, FS_AddElement
<1>5. U = S \cup {m, m + MinuteLen}
  OBVIOUS
<1>6. Cardinality(S) <= 2 * (crashes + faults)
  BY DEF Paid
<1> HIDE DEF T, U
<1>7. Cardinality(U) <= 2 * (crashes' + faults')
  BY <1>1, <1>2, <1>3, <1>4, <1>6
<1> QED BY <1>4, <1>5, <1>7 DEF Paid

LEMMA PaidStays ==
  ASSUME TypeOK, NEW S, Paid(S), crashes' = crashes, faults' = faults
  PROVE  Paid(S)'
BY DEF Paid

\* A step of one replica: it loses no occurrence that T does not have.
LEMMA CoversStep ==
  ASSUME NEW S, NEW T, Covers(S), S \subseteq T, NEW i \in Instance, jobs \subseteq jobs',
         \A j \in Instance \ {i} : pc'[j] = pc[j] /\ occ'[j] = occ[j],
         \A m \in fired' : m \in fired \/ (occ'[i] = m /\ pc'[i] \in {"fired", "release"}),
         pc[i] \in {"fired", "keyed", "locked", "checked"} =>
           \/ occ'[i] = occ[i] /\ pc'[i] \in {"fired", "keyed", "locked", "checked"}
           \/ (\E r \in jobs' : r.occ = occ[i]) \/ occ[i] \in T
           \/ \E j \in Instance \ {i} : occ[j] = occ[i] /\ pc[j] \in {"locked", "checked"},
         pc'[i] = "release" => (\E r \in jobs' : r.occ = occ'[i]) \/ occ'[i] \in T,
         Orphan' => \/ Orphan /\ locked_at' = locked_at
                    \/ \A m \in Planned :
                         Minute(m) = Minute(locked_at') \/ Minute(m) = Minute(locked_at') + 1 => m \in T
  PROVE  Covers(T)'
<1>1. ASSUME NEW m \in fired'
      PROVE  Done(m)' \/ m \in T \/ Hope(m)'
  <2>1. CASE m \in fired /\ Done(m)
    BY <2>1 DEF Done
  <2>2. CASE m \in fired /\ m \in S
    BY <2>2
  <2>3. CASE m \in fired /\ Hope(m)
    <3>1. PICK j \in Instance : occ[j] = m /\ pc[j] \in {"fired", "keyed", "locked", "checked"}
      BY <2>3 DEF Hope
    <3>2. CASE j = i
      BY <3>1, <3>2 DEF Hope, Done
    <3>3. CASE j # i
      BY <3>1, <3>3 DEF Hope
    <3> QED BY <3>2, <3>3
  <2>4. CASE occ'[i] = m /\ pc'[i] \in {"fired", "release"}
    BY <2>4 DEF Hope, Done
  <2> QED BY <1>1, <2>1, <2>2, <2>3, <2>4 DEF Covers
<1>2. ASSUME NEW j \in Instance, pc'[j] = "release"
      PROVE  (\E r \in jobs' : r.occ = occ'[j]) \/ occ'[j] \in T
  BY <1>2 DEF Covers, Done
<1>3. Orphan' => \A m \in Planned :
        Minute(m) = Minute(locked_at') \/ Minute(m) = Minute(locked_at') + 1 => m \in T
  BY DEF Covers
<1>4. (\A j \in Instance : pc[j] = "release" => Done(occ[j]) \/ occ[j] \in T)'
  BY <1>2 DEF Done
<1>5. (Orphan => \A m \in Planned : Minute(m) = Minute(locked_at) \/ Minute(m) = Minute(locked_at) + 1
                                    => m \in T)'
  BY <1>3 DEF Minute
<1> QED BY <1>1, <1>4, <1>5 DEF Covers

LEMMA PlainStep ==
  ASSUME TypeOK, Plain, NEW i \in Instance, UNCHANGED <<clock, enabled>>, fired \subseteq fired',
         \A j \in Instance \ {i} : pc'[j] = pc[j] /\ occ'[j] = occ[j],
         locked_at' = locked_at \/ locked_at' = clock \/ locked_at' = 0,
         pc'[i] # "idle" => occ'[i] \in fired',
         InSection(i)' /\ locked_by' = i => Minute(locked_at') = Minute(occ'[i]),
         \A j \in Instance \ {i} : locked_by' = j => locked_by = j /\ locked_at' = locked_at
  PROVE  Plain'
<1>1. locked_at' <= clock'
  BY CronAssumption DEF TypeOK, Plain
<1>2. \A j \in Instance : pc'[j] # "idle" => occ'[j] \in fired'
  BY DEF Plain
<1>3. \A j \in Instance : InSection(j)' /\ locked_by' = j => Minute(locked_at') = Minute(occ'[j])
  BY DEF Plain, InSection
<1> QED BY <1>1, <1>2, <1>3 DEF Plain, Minute

\* The occurrences an orphaned lease of i stands in the way of.
LEMMA OrphanCost ==
  ASSUME NEW m \in Planned, NEW T, m \in T, m + MinuteLen \in T, NEW n \in Planned,
         Minute(n) = Minute(m) \/ Minute(n) = Minute(m) + 1
  PROVE  n \in T
<1>1. MinuteLen \in Nat \ {0} /\ m \in Nat /\ n \in Nat /\ Minute(m) \in Nat /\ Minute(n) \in Nat
      /\ m = MinuteLen * Minute(m) /\ n = MinuteLen * Minute(n)
  BY PlannedTime, CronAssumption
<1>2. MinuteLen * (Minute(m) + 1) = MinuteLen * Minute(m) + MinuteLen
  BY <1>1
<1> QED BY <1>1, <1>2

LEMMA LossStep ==
  ASSUME InSync, ShortLease, TypeOK, scene.prompt, MinuteInv, LossInv, [Next]_vars
  PROVE  LossInv'
<1> SUFFICES ASSUME toggles' = 0
             PROVE  Plain' /\ \E S : (Paid(S) /\ Covers(S))'
  BY DEF LossInv, Paid, Covers
<1>a. toggles = 0
  BY DEF TypeOK, Next, InstanceNext, vars, histVars, Start, Fire, FireSkipped, ReadKey, Acquire, AcquireMiss,
         EnqueueCheck, Insert, Release, Crash, Toggle, Tick
<1>b. Plain
  BY <1>a DEF LossInv
<1>c. PICK S : Paid(S) /\ Covers(S)
  BY <1>a DEF LossInv
<1>d. /\ pc \in [Instance -> Running \cup {"idle"}] /\ up \in [Instance -> BOOLEAN]
      /\ occ \in [Instance -> Planned \cup {NoTime}] /\ key \in [Instance -> Nat \cup {NoTime}]
      /\ next \in [Instance -> Planned \cup {NoTime}]
      /\ locked_by \in Instance \cup {NoInstance} /\ NoInstance \notin Instance
      /\ clock \in Nat /\ locked_at \in Nat /\ jobs \subseteq [key : Nat, occ : Planned, by : Instance]
      /\ \A i \in Instance : /\ up[i] <=> next[i] # NoTime
                             /\ pc[i] # "idle" => up[i] /\ occ[i] \in Planned
  BY CronAssumption DEF TypeOK
<1>e. \A i \in Instance : Local(i) = clock
  BY <1>d DEF InSync, Local
<1> USE DEF Goto, dbVars, runVars, histVars, Works, Fails, InSection, Running
\* A step that leaves everything in place.
<1>1. CASE /\ UNCHANGED <<enabled, locked_by, locked_at, jobs, pc, occ, fired, crashes, faults>>
           /\ clock' = clock \/ clock' = clock + 1
  <2>1. Plain'
    BY <1>1, <1>b, <1>d DEF Plain, Minute
  <2>2. Covers(S)'
    BY <1>1, <1>c DEF Covers, Done, Hope, Orphan, Minute
  <2> QED BY <1>1, <1>c, <2>1, <2>2, PaidStays
<1>2. CASE (\E i \in Instance : Start(i)) \/ Tick \/ UNCHANGED vars
  BY <1>1, <1>2 DEF Start, Tick, vars
<1>3. ASSUME NEW i \in Instance, Fire(i) \/ FireSkipped(i)
      PROVE  Plain' /\ \E T : (Paid(T) /\ Covers(T))'
  <2>1. /\ UNCHANGED <<clock, enabled, locked_by, locked_at, jobs, crashes, faults>>
        /\ fired' = fired \cup {next[i]} /\ next[i] \in Planned
        /\ \A j \in Instance \ {i} : pc'[j] = pc[j] /\ occ'[j] = occ[j]
    BY <1>3, <1>d DEF Fire, FireSkipped
  <2>2. CASE Fire(i)
    <3>1. pc[i] = "idle" /\ pc'[i] = "fired" /\ occ'[i] = next[i]
      BY <1>d, <2>2 DEF Fire
    <3>2. Orphan' <=> Orphan
      BY <1>d, <2>1, <3>1 DEF Orphan
    <3>3. Covers(S)'
      BY <1>c, <2>1, <3>1, <3>2, CoversStep
    <3>4. Plain'
      BY <1>b, <2>1, <3>1, PlainStep
    <3> QED BY <1>c, <2>1, <3>3, <3>4, PaidStays
  <2>3. CASE FireSkipped(i)
    <3>1. pc[i] # "idle" /\ UNCHANGED <<pc, occ>> /\ up[i] /\ clock >= next[i]
      BY <1>e, <2>3 DEF FireSkipped
    <3>2. Minute(next[i]) = Minute(clock) /\ Minute(occ[i]) = Minute(clock) /\ occ[i] \in Planned
      <4>1. next[i] \in Nat
        BY <2>1, CronAssumption
      <4>2. next[i] <= clock
        BY <1>d, <3>1, <4>1
      <4> QED BY <1>d, <3>1, <4>2 DEF MinuteInv
    <3>3. occ[i] = next[i]
      BY <2>1, <3>2, SameMinute
    <3>4. fired' = fired
      BY <1>b, <2>1, <3>1, <3>3 DEF Plain
    <3> QED BY <1>1, <2>1, <3>1, <3>4
  <2> QED BY <1>3, <2>2, <2>3
<1>4. ASSUME NEW i \in Instance, ReadKey(i)
      PROVE  Plain' /\ \E T : (Paid(T) /\ Covers(T))'
  <2>1. /\ UNCHANGED <<clock, enabled, locked_by, locked_at, jobs, crashes, fired, occ>>
        /\ pc[i] = "fired" /\ pc'[i] = "keyed"
        /\ \A j \in Instance \ {i} : pc'[j] = pc[j] /\ occ'[j] = occ[j]
    BY <1>4, <1>d DEF ReadKey
  <2>2. Orphan' <=> Orphan
    BY <1>d, <2>1 DEF Orphan
  <2>3. Plain'
    BY <1>b, <2>1, PlainStep DEF Plain
  <2>4. CASE faults' = faults
    <3>1. Covers(S)'
      BY <1>c, <2>1, <2>2, CoversStep
    <3> QED BY <1>c, <2>1, <2>3, <2>4, <3>1, PaidStays
  <2>5. CASE faults' = faults + 1
    <3>1. PICK m : m = occ[i]
      OBVIOUS
    <3>2. Covers(S \cup {m, m + MinuteLen})'
      BY <1>c, <2>1, <2>2, CoversStep
    <3>3. Paid(S \cup {m, m + MinuteLen})'
      BY <1>c, <2>1, <2>5, OneMore
    <3> QED BY <2>3, <3>2, <3>3
  <2> QED BY <1>4, <2>4, <2>5 DEF ReadKey
<1>5. ASSUME NEW i \in Instance, Acquire(i)
      PROVE  Plain' /\ \E T : (Paid(T) /\ Covers(T))'
  <2>1. /\ UNCHANGED <<clock, enabled, jobs, crashes, faults, fired, occ>>
        /\ pc[i] = "keyed" /\ pc'[i] = "locked" /\ locked_by' = i /\ locked_at' = clock
        /\ \A j \in Instance \ {i} : pc'[j] = pc[j] /\ occ'[j] = occ[j]
    BY <1>5, <1>d DEF Acquire
  <2>2. ~Orphan'
    BY <2>1 DEF Orphan
  <2>3. Minute(clock) = Minute(occ[i])
    BY <2>1 DEF MinuteInv
  <2>4. Plain'
    BY <1>b, <2>1, <2>3, PlainStep DEF Plain
  <2>5. Covers(S)'
    BY <1>c, <2>1, <2>2, CoversStep
  <2> QED BY <1>c, <2>1, <2>4, <2>5, PaidStays

\* A fault or a crash while the job of i runs pays for its occurrence and the next.
<1>f. ASSUME NEW i \in Instance, pc[i] # "idle",
             UNCHANGED <<clock, enabled, locked_by, locked_at, jobs, fired>>,
             \/ crashes' = crashes + 1 /\ faults' = faults
             \/ crashes' = crashes /\ faults' = faults + 1,
             pc'[i] = "idle" \/ (pc'[i] = "release" /\ occ'[i] = occ[i] /\ pc[i] \in {"locked", "checked"}),
             \A j \in Instance \ {i} : pc'[j] = pc[j] /\ occ'[j] = occ[j]
      PROVE  Plain' /\ \E T : (Paid(T) /\ Covers(T))'
  <2>1. PICK m : m = occ[i]
    OBVIOUS
  <2> DEFINE T == S \cup {m, m + MinuteLen}
  <2>2. m \in Planned /\ m \in T
    BY <1>d, <1>f, <2>1
  <2>3. Orphan' => Orphan \/ Minute(locked_at) = Minute(m)
    BY <1>b, <1>f, <2>1 DEF Orphan, Plain
  <2>4. Minute(locked_at) = Minute(m) =>
          \A n \in Planned : Minute(n) = Minute(locked_at) \/ Minute(n) = Minute(locked_at) + 1 => n \in T
    BY <2>2, OrphanCost
  <2>5. Covers(T)'
    <3> HIDE DEF T
    <3>1. S \subseteq T
      BY DEF T
    <3> QED BY <1>c, <1>f, <2>1, <2>2, <2>3, <2>4, <3>1, CoversStep
  <2>6. Plain'
    BY <1>b, <1>f, PlainStep DEF Plain
  <2>7. Paid(T)'
    BY <1>c, <1>f, OneMore
  <2> QED BY <2>5, <2>6, <2>7
<1>6. ASSUME NEW i \in Instance, AcquireMiss(i)
      PROVE  Plain' /\ \E T : (Paid(T) /\ Covers(T))'
  <2>1. /\ UNCHANGED <<clock, enabled, locked_by, locked_at, jobs, crashes, fired>>
        /\ pc[i] = "keyed" /\ pc'[i] = "idle"
        /\ \A j \in Instance \ {i} : pc'[j] = pc[j] /\ occ'[j] = occ[j]
    BY <1>6, <1>d DEF AcquireMiss, Return
  <2>2. CASE faults' = faults + 1
    BY <1>f, <2>1, <2>2
  <2>3. CASE ~(enabled /\ LeaseFree) /\ faults' = faults
    <3>1. locked_by # NoInstance /\ clock - locked_at <= LeaseLen /\ locked_at <= clock
      BY <1>b, <1>d, <2>3, CronAssumption DEF LeaseFree, Plain
    <3>2. Minute(clock) = Minute(locked_at) \/ Minute(clock) = Minute(locked_at) + 1
      <4>1. clock <= locked_at + MinuteLen
        BY <1>d, <3>1, CronAssumption DEF ShortLease
      <4> QED BY <1>d, <3>1, <4>1, NextMinute
    <3>3. occ[i] \in Planned /\ Minute(occ[i]) = Minute(clock)
      BY <1>d, <2>1 DEF MinuteInv
    <3>4. Orphan' <=> Orphan
      BY <1>d, <2>1 DEF Orphan
    <3>5. Plain'
      BY <1>b, <2>1, PlainStep DEF Plain
    <3>6. \/ (\E r \in jobs : r.occ = occ[i]) \/ occ[i] \in S
          \/ \E j \in Instance \ {i} : occ[j] = occ[i] /\ pc[j] \in {"locked", "checked"}
      <4>1. CASE Orphan
        BY <1>c, <3>2, <3>3, <4>1 DEF Covers
      <4>2. CASE ~Orphan
        <5>1. PICK j \in Instance : j = locked_by /\ pc[j] \in {"locked", "checked", "release"}
          BY <1>d, <3>1, <4>2 DEF Orphan
        <5>2. j # i /\ occ[j] = occ[i]
          BY <1>d, <2>1, <3>3, <5>1, SameMinute DEF MinuteInv
        <5>3. CASE pc[j] = "release"
          BY <1>c, <5>2, <5>3 DEF Covers, Done
        <5> QED BY <5>1, <5>2, <5>3
      <4> QED BY <4>1, <4>2
    <3>7. Covers(S)'
      BY <1>c, <2>1, <3>4, <3>6, CoversStep
    <3> QED BY <1>c, <2>1, <2>3, <3>5, <3>7, PaidStays
  <2> QED BY <1>6, <2>2, <2>3 DEF AcquireMiss
<1>7. ASSUME NEW i \in Instance, EnqueueCheck(i)
      PROVE  Plain' /\ \E T : (Paid(T) /\ Covers(T))'
  <2>1. /\ UNCHANGED <<clock, enabled, locked_by, locked_at, jobs, crashes, fired, occ>>
        /\ pc[i] = "locked"
        /\ \A j \in Instance \ {i} : pc'[j] = pc[j] /\ occ'[j] = occ[j]
    BY <1>7, <1>d DEF EnqueueCheck
  <2>2. CASE faults' = faults + 1 /\ pc'[i] = "release"
    BY <1>f, <2>1, <2>2
  <2>3. CASE faults' = faults /\ pc'[i] = "checked"
    <3>1. Orphan' <=> Orphan
      BY <1>d, <2>1, <2>3 DEF Orphan
    <3>2. Plain'
      BY <1>b, <2>1, <2>3, PlainStep DEF Plain
    <3>3. Covers(S)'
      BY <1>c, <2>1, <2>3, <3>1, CoversStep
    <3> QED BY <1>c, <2>1, <2>3, <3>2, <3>3, PaidStays
  <2>4. enabled
    BY <1>b DEF Plain
  <2> QED BY <1>7, <1>d, <2>2, <2>3, <2>4 DEF EnqueueCheck
<1>8. ASSUME NEW i \in Instance, Insert(i)
      PROVE  Plain' /\ \E T : (Paid(T) /\ Covers(T))'
  <2>1. /\ UNCHANGED <<clock, enabled, locked_by, locked_at, crashes, fired, occ>>
        /\ pc[i] = "checked" /\ pc'[i] = "release"
        /\ \A j \in Instance \ {i} : pc'[j] = pc[j] /\ occ'[j] = occ[j]
    BY <1>8, <1>d DEF Insert
  <2>2. CASE faults' = faults + 1 /\ UNCHANGED jobs
    BY <1>f, <2>1, <2>2
  <2>3. ASSUME faults' = faults, jobs \subseteq jobs', \E r \in jobs' : r.occ = occ[i]
        PROVE  Plain' /\ \E T : (Paid(T) /\ Covers(T))'
    <3>1. Orphan' <=> Orphan
      BY <1>d, <2>1, <2>3 DEF Orphan
    <3>2. Plain'
      BY <1>b, <2>1, <2>3, PlainStep DEF Plain
    <3>3. Covers(S)'
      BY <1>c, <2>1, <2>3, <3>1, CoversStep
    <3> QED BY <1>c, <2>1, <2>3, <3>2, <3>3, PaidStays
  <2>4. Taken(key[i]) => \E r \in jobs : r.occ = occ[i]
    <3>1. occ[i] \in Planned /\ key[i] = Minute(occ[i])
      BY <1>d, <2>1 DEF MinuteInv
    <3>2. \A r \in jobs : r.occ \in Planned /\ r.key = Minute(r.occ)
      BY <1>d DEF MinuteInv
    <3> QED BY <3>1, <3>2, SameMinute DEF Taken
  <2>5. CASE Taken(key[i]) /\ faults' = faults /\ UNCHANGED jobs
    BY <2>3, <2>4, <2>5
  <2>6. CASE faults' = faults /\ jobs' = jobs \cup {[key |-> key[i], occ |-> occ[i], by |-> i]}
    <3>1. PICK r : r = [key |-> key[i], occ |-> occ[i], by |-> i]
      OBVIOUS
    <3>2. r \in jobs' /\ r.occ = occ[i]
      BY <2>6, <3>1
    <3> QED BY <2>3, <2>6, <3>2
  <2> QED BY <1>8, <2>2, <2>5, <2>6 DEF Insert
<1>9. ASSUME NEW i \in Instance, Release(i)
      PROVE  Plain' /\ \E T : (Paid(T) /\ Covers(T))'
  <2>1. /\ UNCHANGED <<clock, enabled, jobs, crashes, fired>>
        /\ pc[i] = "release" /\ pc'[i] = "idle"
        /\ \A j \in Instance \ {i} : pc'[j] = pc[j] /\ occ'[j] = occ[j]
    BY <1>9, <1>d DEF Release, Return
  <2>2. CASE faults' = faults + 1 /\ UNCHANGED <<locked_by, locked_at>>
    BY <1>f, <2>1, <2>2
  <2>3. ASSUME faults' = faults,
               \/ locked_by' = NoInstance /\ locked_at' = 0
               \/ locked_by # i /\ UNCHANGED <<locked_by, locked_at>>
        PROVE  Plain' /\ \E T : (Paid(T) /\ Covers(T))'
    <3>1. Orphan' => Orphan /\ locked_at' = locked_at
      BY <1>d, <2>1, <2>3 DEF Orphan
    <3>2. Plain'
      BY <1>b, <1>d, <2>1, <2>3, PlainStep DEF Plain
    <3>3. Covers(S)'
      BY <1>c, <2>1, <2>3, <3>1, CoversStep
    <3> QED BY <1>c, <2>1, <2>3, <3>2, <3>3, PaidStays
  <2> QED BY <1>9, <2>2, <2>3 DEF Release
<1>10. ASSUME NEW i \in Instance, Crash(i)
       PROVE  Plain' /\ \E T : (Paid(T) /\ Covers(T))'
  <2>1. /\ UNCHANGED <<clock, enabled, locked_by, locked_at, jobs, fired>>
        /\ crashes' = crashes + 1 /\ faults' = faults /\ pc'[i] = "idle"
        /\ \A j \in Instance \ {i} : pc'[j] = pc[j] /\ occ'[j] = occ[j]
    BY <1>10, <1>d DEF Crash, Return
  <2>2. CASE pc[i] # "idle"
    BY <1>f, <2>1, <2>2
  <2>3. CASE pc[i] = "idle"
    <3>1. Orphan' <=> Orphan
      BY <1>d, <2>1, <2>3 DEF Orphan
    <3>2. Plain'
      BY <1>b, <2>1, PlainStep
    <3>3. PICK m : m = occ[i]
      OBVIOUS
    <3>4. Covers(S \cup {m, m + MinuteLen})'
      BY <1>c, <2>1, <2>3, <3>1, CoversStep
    <3>5. Paid(S \cup {m, m + MinuteLen})'
      BY <1>c, <2>1, OneMore
    <3> QED BY <3>2, <3>4, <3>5
  <2> QED BY <2>2, <2>3
<1>11. CASE Toggle
  <2>1. toggles' = toggles + 1 /\ toggles \in Nat
    BY <1>11 DEF Toggle, TypeOK
  <2> QED BY <1>a, <2>1
<1> QED BY <1>2, <1>3, <1>4, <1>5, <1>6, <1>7, <1>8, <1>9, <1>10, <1>11 DEF Next, InstanceNext

\* A crash or a failed statement costs at most the occurrence it interrupts
\* and the one that meets the lease left behind, for any number of replicas and
\* any schedule: when their clocks agree with the database's, the lease is no
\* longer than a minute (both are 60 s) and fired jobs end within their minute.
THEOREM LossIsBounded == ASSUME InSync, ShortLease PROVE Spec => []LossBounded
<1> DEFINE Inv == TypeOK /\ (scene.prompt => MinuteInv /\ LossInv)
<1>1. Init => Inv
  <2> SUFFICES ASSUME Init PROVE Inv
    OBVIOUS
  <2>1. TypeOK /\ MinuteInv
    BY TypeInit DEF Init, MinuteInv
  <2>2. Plain
    BY DEF Init, Plain, InSection
  <2>3. Covers({})
    BY DEF Init, Covers, Orphan
  <2>4. Paid({})
    BY FS_EmptySet DEF Init, Paid
  <2> QED BY <2>1, <2>2, <2>3, <2>4 DEF LossInv
<1>2. Inv /\ [Next]_vars => Inv'
  <2>1. [Next]_vars => scene' = scene
    BY DEF Next, InstanceNext, vars, histVars, Start, Fire, FireSkipped, ReadKey, Acquire, AcquireMiss,
           EnqueueCheck, Insert, Release, Crash, Toggle, Tick
  <2> QED
    BY <2>1, TypeStep, MinuteStep, LossStep
<1>3. Inv => LossBounded
  <2> SUFFICES ASSUME TypeOK, LossInv, toggles = 0, Quiet
               PROVE  Cardinality(Missed) <= 2 * (crashes + faults)
    BY DEF LossBounded
  <2>1. PICK S : Paid(S) /\ Covers(S)
    BY DEF LossInv
  <2>2. Missed \subseteq S
    BY <2>1 DEF Covers, Quiet, Hope, Done, Missed
  <2>3. IsFiniteSet(S) /\ Cardinality(Missed) <= Cardinality(S) /\ Cardinality(S) <= 2 * (crashes + faults)
    BY <2>1, <2>2, FS_Subset DEF Paid
  <2>4. Cardinality(Missed) \in Nat /\ Cardinality(S) \in Nat /\ crashes \in Nat /\ faults \in Nat
    BY <2>2, <2>3, FS_Subset, FS_CardinalityType, CronAssumption DEF TypeOK
  <2> QED BY <2>3, <2>4
<1> QED
  BY <1>1, <1>2, <1>3, PTL DEF Spec

-----------------------------------------------------------------------------
(* The timetable.  Only Insert is seen from outside, and the time.          *)

\* Later planned times have later minutes.
LEMMA PlanOrder ==
  ASSUME NEW a \in Planned, NEW c \in Planned, Minute(a) < Minute(c)
  PROVE  a < c
<1> DEFINE L == MinuteLen
           p == Minute(a)
           q == Minute(c)
<1>1. L \in Nat \ {0} /\ p \in Nat /\ q \in Nat /\ a = L * p /\ c = L * q /\ p + 1 <= q
  BY PlannedTime, CronAssumption
<1> HIDE DEF L, p, q
<1>2. \A x, y \in Nat : x <= y => L * x <= L * y
  BY <1>1
<1>3. L * (p + 1) <= L * q /\ L * (p + 1) = L * p + L
  BY <1>1, <1>2
<1> QED
  BY <1>1, <1>3

\* A planned time's minute ends a minute later.
LEMMA OwnMinute ==
  ASSUME NEW m \in Planned, NEW t \in Nat, Minute(t) = Minute(m)
  PROVE  t < m + MinuteLen
<1>1. m = MinuteLen * Minute(m) /\ t < MinuteLen * Minute(t) + MinuteLen
  BY PlannedTime, CronAssumption DEF Minute
<1> QED
  BY <1>1

LEMMA TimeInt == Planned \cup {NoTime} \subseteq Int
<1>1. Planned \subseteq Nat /\ NoTime \in Int
  BY CronAssumption DEF NoTime
<1>2. \A m \in Nat : m \in Int
  OBVIOUS
<1> QED
  BY <1>1, <1>2, Zenon

\* No job is fired before its time, and no key is ahead of the clock.
PlanInv ==
  /\ TypeOK /\ IsFiniteSet(jobs)
  /\ \A i \in Instance : pc[i] # "idle" => occ[i] <= clock
  /\ scene.prompt => MinuteInv /\ \A r \in jobs : r.key <= Minute(clock)

\* A job is enqueued by an insert, which finds its key free.
LEMMA Inserts ==
  ASSUME TypeOK, [Next]_vars, jobs' # jobs
  PROVE  \E i \in Instance :
           /\ pc[i] = "checked" /\ occ[i] \in Planned
           /\ \A r \in jobs : r.key # key[i]
           /\ jobs' = jobs \cup {[key |-> key[i], occ |-> occ[i], by |-> i]}
<1>1. PICK i \in Instance : Insert(i)
  BY DEF Next, InstanceNext, vars, dbVars, Start, Fire, FireSkipped, ReadKey, Acquire, AcquireMiss,
         EnqueueCheck, Release, Crash, Toggle, Tick
<1>2. pc[i] = "checked" /\ occ[i] \in Planned
  BY <1>1 DEF Insert, TypeOK
<1>3. ~Taken(key[i]) /\ jobs' = jobs \cup {[key |-> key[i], occ |-> occ[i], by |-> i]}
  BY <1>1 DEF Insert
<1> QED
  BY <1>1, <1>2, <1>3 DEF Taken

LEMMA PlanStep == ASSUME InSync PROVE PlanInv /\ [Next]_vars => PlanInv'
<1> SUFFICES ASSUME PlanInv, [Next]_vars PROVE PlanInv'
  OBVIOUS
<1>0. TypeOK /\ TypeOK'
  BY TypeStep DEF PlanInv
<1>1. clock \in Nat /\ \A i \in Instance : Local(i) = clock
  BY <1>0, CronAssumption DEF TypeOK, InSync, Local
<1>2. scene' = scene
  BY DEF Next, InstanceNext, vars, histVars, Start, Fire, FireSkipped, ReadKey, Acquire, AcquireMiss,
         EnqueueCheck, Insert, Release, Crash, Toggle, Tick
<1>3. clock' = clock \/ (Tick /\ clock' = clock + 1 /\ UNCHANGED <<pc, occ, jobs>>)
  BY DEF Next, InstanceNext, vars, dbVars, runVars, Start, Fire, FireSkipped, ReadKey, Acquire,
         AcquireMiss, EnqueueCheck, Insert, Release, Crash, Toggle, Tick
<1>4. Minute(clock) \in Nat /\ Minute(clock') \in Nat /\ Minute(clock) <= Minute(clock')
  <2>1. CASE clock' = clock
    BY <1>1, <2>1, MinuteNat
  <2>2. CASE clock' = clock + 1
    <3>1. Minute(clock + 1) = Minute(clock) \/ Minute(clock + 1) = Minute(clock) + 1
      BY <1>1, NextMinute, CronAssumption
    <3> QED
      BY <1>1, <2>2, <3>1, MinuteNat
  <2> QED
    BY <1>3, <2>1, <2>2
<1>5. IsFiniteSet(jobs')
  <2>1. CASE jobs' = jobs
    BY <2>1 DEF PlanInv
  <2>2. CASE jobs' # jobs
    <3>1. PICK r : jobs' = jobs \cup {r}
      BY <1>0, <2>2, Inserts
    <3> QED
      BY <3>1, FS_AddElement DEF PlanInv
  <2> QED
    BY <2>1, <2>2
<1>6. ASSUME NEW i \in Instance, pc'[i] # "idle" PROVE occ'[i] <= clock'
  <2>1. CASE pc[i] # "idle" /\ occ'[i] = occ[i]
    <3>1. occ[i] \in Int /\ occ[i] <= clock
      BY <1>0, <2>1, TimeInt DEF PlanInv, TypeOK
    <3> QED
      BY <1>1, <1>3, <2>1, <3>1
  <2>2. CASE Fire(i)
    <3>1. occ'[i] = next[i] /\ next[i] <= Local(i) /\ clock' = clock
      <4>1. next[i] \in Int
        BY <1>0, TimeInt DEF TypeOK
      <4> QED
        BY <1>0, <1>1, <2>2, <4>1 DEF Fire, TypeOK
    <3> QED
      BY <1>1, <3>1
  <2>3. (pc[i] # "idle" /\ occ'[i] = occ[i]) \/ Fire(i)
    <3> USE <1>0, <1>6 DEF TypeOK, Goto, Return, runVars, dbVars
    <3>1. CASE UNCHANGED vars \/ Toggle \/ Tick
      BY <3>1 DEF vars, Toggle, Tick
    <3>2. ASSUME NEW j \in Instance, Start(j) \/ FireSkipped(j) PROVE pc[i] # "idle" /\ occ'[i] = occ[i]
      BY <3>2 DEF Start, FireSkipped
    <3>3. ASSUME NEW j \in Instance, Fire(j) PROVE (pc[i] # "idle" /\ occ'[i] = occ[i]) \/ Fire(i)
      BY <3>3 DEF Fire
    <3>4. ASSUME NEW j \in Instance, ReadKey(j) \/ Acquire(j) \/ EnqueueCheck(j) \/ Insert(j)
          PROVE pc[i] # "idle" /\ occ'[i] = occ[i]
      BY <3>4 DEF ReadKey, Acquire, EnqueueCheck, Insert
    <3>5. ASSUME NEW j \in Instance, AcquireMiss(j) \/ Release(j) \/ Crash(j)
          PROVE pc[i] # "idle" /\ occ'[i] = occ[i]
      BY <3>5 DEF AcquireMiss, Release, Crash
    <3> QED
      BY <3>1, <3>2, <3>3, <3>4, <3>5 DEF Next, InstanceNext
  <2> QED
    BY <2>1, <2>2, <2>3
<1>7. ASSUME scene'.prompt, NEW r \in jobs' PROVE r.key <= Minute(clock')
  <2>0. scene.prompt /\ MinuteInv /\ \A x \in jobs : x.key \in Nat /\ x.key <= Minute(clock)
    BY <1>0, <1>2, <1>7 DEF PlanInv, TypeOK
  <2>1. CASE r \in jobs
    BY <1>4, <2>0, <2>1
  <2>2. CASE r \notin jobs
    <3>1. PICK i \in Instance : /\ pc[i] = "checked"
                                /\ jobs' = jobs \cup {[key |-> key[i], occ |-> occ[i], by |-> i]}
      BY <1>0, <1>7, <2>2, Inserts
    <3>2. r.key = key[i] /\ key[i] = Minute(occ[i]) /\ Minute(occ[i]) = Minute(clock)
      BY <1>7, <2>0, <2>2, <3>1 DEF MinuteInv
    <3> QED
      BY <1>4, <3>2
  <2> QED
    BY <2>1, <2>2
<1>8. scene'.prompt => MinuteInv'
  BY <1>0, <1>2, MinuteStep DEF PlanInv
<1> QED
  BY <1>0, <1>5, <1>6, <1>7, <1>8 DEF PlanInv

LEMMA TimetableStep ==
  ASSUME InSync PROVE PlanInv /\ [Next]_vars => [Plan!Next]_(Plan!vars)
<1> SUFFICES ASSUME PlanInv, [Next]_vars PROVE Plan!Next \/ UNCHANGED Plan!vars
  OBVIOUS
<1>0. TypeOK /\ clock \in Nat
  BY DEF PlanInv, TypeOK
<1>1. scene' = scene
  BY DEF Next, InstanceNext, vars, histVars, Start, Fire, FireSkipped, ReadKey, Acquire, AcquireMiss,
         EnqueueCheck, Insert, Release, Crash, Toggle, Tick
<1>2. clock' = clock \/ (clock' = clock + 1 /\ jobs' = jobs)
  BY DEF Next, InstanceNext, vars, dbVars, Start, Fire, FireSkipped, ReadKey, Acquire,
         AcquireMiss, EnqueueCheck, Insert, Release, Crash, Toggle, Tick
<1>3. CASE jobs' = jobs
  <2>1. \A m \in Planned : JobsOf(m)' = JobsOf(m)
    BY <1>3 DEF JobsOf
  <2>2. [m \in Planned |-> Cardinality(JobsOf(m))]' = [m \in Planned |-> Cardinality(JobsOf(m))]
    BY <2>1
  <2>3. CASE clock' = clock
    BY <1>1, <2>2, <2>3 DEF Plan!vars
  <2>4. CASE clock' = clock + 1
    BY <1>1, <2>2, <2>4 DEF Plan!Next, Plan!Pass
  <2> QED
    BY <1>2, <2>3, <2>4
<1>4. CASE jobs' # jobs
  <2>1. PICK i \in Instance, m \in Planned :
          /\ pc[i] = "checked" /\ occ[i] = m
          /\ \A r \in jobs : r.key # key[i]
          /\ jobs' = jobs \cup {[key |-> key[i], occ |-> m, by |-> i]}
    BY <1>0, <1>4, Inserts
  <2>2. PICK r : r \notin jobs /\ r.occ = m /\ jobs' = jobs \cup {r}
    BY <2>1
  <2>3. m <= clock
    BY <2>1 DEF PlanInv
  <2>4. JobsOf(m)' = JobsOf(m) \cup {r} /\ r \notin JobsOf(m)
    BY <2>2 DEF JobsOf
  <2>5. \A x \in Planned : x # m => JobsOf(x)' = JobsOf(x)
    BY <2>2 DEF JobsOf
  <2>6. \A x \in Planned : IsFiniteSet(JobsOf(x))
    BY FS_Subset DEF PlanInv, JobsOf
  <2>7. Cardinality(JobsOf(m)') = Cardinality(JobsOf(m)) + 1
    BY <2>4, <2>6, FS_AddElement
  <2>8. [x \in Planned |-> Cardinality(JobsOf(x))]'
          = [[x \in Planned |-> Cardinality(JobsOf(x))] EXCEPT ![m] = @ + 1]
    BY <2>5, <2>7
  <2>9. ASSUME scene.prompt PROVE Plan!OnTime(m)
    <3>0. MinuteInv /\ (\A x \in jobs : x.key \in Nat /\ x.key <= Minute(clock))
      BY <2>9, <1>0 DEF PlanInv, TypeOK
    <3>1. key[i] = Minute(m) /\ Minute(m) = Minute(clock) /\ Minute(clock) \in Nat
      BY <1>0, <2>1, <3>0, MinuteNat DEF MinuteInv
    <3>2. clock < m + MinuteLen
      BY <1>0, <3>1, OwnMinute
    <3>3. ASSUME NEW x \in Planned, Cardinality(JobsOf(x)) > 0 PROVE x < m
      <4>1. PICK y \in jobs : y.occ = x
        <5>1. JobsOf(x) # {}
          BY <3>3, FS_EmptySet
        <5> QED
          BY <5>1 DEF JobsOf
      <4>2. y.key = Minute(x) /\ y.key # Minute(m) /\ y.key \in Nat /\ y.key <= Minute(m)
        BY <2>1, <3>0, <3>1, <4>1 DEF MinuteInv
      <4>3. Minute(x) < Minute(m)
        BY <3>1, <4>2
      <4> QED
        BY <4>3, PlanOrder
    <3> QED
      BY <3>2, <3>3 DEF Plan!OnTime
  <2>10. clock' = clock
    BY <1>0, <1>2, <1>4
  <2>11. Plan!Enqueue(m)
    BY <1>1, <2>3, <2>8, <2>9, <2>10 DEF Plan!Enqueue
  <2> QED
    BY <2>11 DEF Plan!Next
<1> QED
  BY <1>3, <1>4

\* However many replicas fire a task, and whatever crashes or fails, they keep
\* one timetable when their clocks agree with the database's: no job before its
\* time, and, if fired jobs end within their minute, each in its own minute,
\* in the order of the plan, and once.
THEOREM ReplicasKeepTimetable == ASSUME InSync PROVE Spec => KeepsTimetable
<1>1. Init => PlanInv
  BY TypeInit, FS_EmptySet DEF Init, PlanInv, MinuteInv
<1>2. Init => Plan!Init
  <2> SUFFICES ASSUME Init PROVE Plan!Init
    OBVIOUS
  <2>1. \A m \in Planned : Cardinality(JobsOf(m)) = 0
    BY FS_EmptySet DEF Init, JobsOf
  <2>2. scene.prompt \in BOOLEAN
    BY CronAssumption DEF Init
  <2> QED
    BY <2>1, <2>2 DEF Init, Plan!Init
<1>3. PlanInv /\ [Next]_vars => PlanInv'
  BY PlanStep
<1>4. PlanInv /\ [Next]_vars => [Plan!Next]_(Plan!vars)
  BY TimetableStep
<1> QED
  BY <1>1, <1>2, <1>3, <1>4, PTL DEF Spec, KeepsTimetable, Plan!Spec

-----------------------------------------------------------------------------
(* Least elements, ascending lists, and the first element after a time     *)

\* Every set of naturals that is not empty has a least element.
LEMMA Least ==
  ASSUME NEW T, T \subseteq Nat, T # {}
  PROVE  \E n \in T : \A m \in T : n <= m
<1>1. PICK n \in T : \A m \in T : <<m, n>> \notin OpToRel(<, Nat)
  BY NatLessThanWellFounded, WFMin
<1>2. \A m \in T : m \in Nat /\ n \in Nat /\ ~(m < n)
  BY <1>1 DEF OpToRel
<1> QED
  BY <1>2

LEMMA MinIsLeast ==
  ASSUME NEW T, T \subseteq Nat, T # {}
  PROVE  Min(T) \in T /\ \A m \in T : Min(T) <= m
  BY Least DEF Min

\* The earliest of a set of times: one of the set with no earlier one.
LEMMA EarliestIs ==
  ASSUME NEW T, T \subseteq Nat
  PROVE  /\ Earliest(T) = Zero <=> T = {}
         /\ T # {} => Earliest(T) \in T /\ \A m \in T : Earliest(T) <= m
<1>1. CASE T = {}
  BY <1>1 DEF Earliest
<1>2. CASE T # {}
  <2>1. Min(T) \in T /\ \A m \in T : Min(T) <= m
    BY <1>2, MinIsLeast
  <2>2. Earliest(T) = Min(T)
    BY <1>2 DEF Earliest
  <2>3. Min(T) # Zero
    BY <2>1 DEF Zero
  <2> QED
    BY <1>2, <2>1, <2>2, <2>3
<1> QED
  BY <1>1, <1>2

\* An ascending list of a set of times.
Sorted(s, S) ==
  /\ s \in Seq(S)
  /\ \A x \in S : \E i \in DOMAIN s : s[i] = x
  /\ \A i, j \in DOMAIN s : i < j => s[i] < s[j]

LEMMA AscendingSorted ==
  ASSUME NEW S, S \subseteq Nat, IsFiniteSet(S)
  PROVE  Sorted(Ascending(S), S)
<1> DEFINE n == Cardinality(S)
           below(x) == {y \in S : y < x}
           rank == [x \in S |-> Cardinality(below(x))]
<1>1. n \in Nat
  BY FS_CardinalityType
<1>2. \A x : IsFiniteSet(below(x)) /\ Cardinality(below(x)) \in Nat
  BY FS_Subset, FS_CardinalityType
<1>0. \A x \in S : rank[x] = Cardinality(below(x))
  OBVIOUS
<1>3. ASSUME NEW x \in S, NEW y \in S, x < y
      PROVE  rank[x] < rank[y]
  <2>1. x \in Nat /\ y \in Nat
    OBVIOUS
  <2>2. below(x) \in SUBSET below(y) /\ x \in below(y) /\ x \notin below(x)
    <3>1. \A z \in below(x) : z \in S /\ z \in Nat /\ z < y
      BY <2>1, <1>3
    <3>2. below(x) \in SUBSET below(y)
      BY <3>1
    <3>3. x \in below(y) /\ x \notin below(x)
      BY <2>1, <1>3
    <3> QED
      BY <3>2, <3>3
  <2> HIDE DEF below, rank
  <2>3. Cardinality(below(x)) <= Cardinality(below(y)) /\ Cardinality(below(x)) # Cardinality(below(y))
    BY <2>2, <1>2, FS_Subset
  <2> QED
    BY <2>3, <1>2, <1>0
<1>4. \A x \in S : rank[x] \in 0 .. n - 1
  <2> SUFFICES ASSUME NEW x \in S PROVE rank[x] \in 0 .. n - 1
    OBVIOUS
  <2>1. below(x) \in SUBSET S /\ below(x) # S
    OBVIOUS
  <2>2. Cardinality(below(x)) <= n /\ Cardinality(below(x)) # n
    BY <2>1, FS_Subset
  <2> QED
    BY <2>2, <1>1, <1>2
<1>5. \A x, y \in S : rank[x] = rank[y] => x = y
  <2> SUFFICES ASSUME NEW x \in S, NEW y \in S, rank[x] = rank[y], x # y PROVE FALSE
    OBVIOUS
  <2>1. x \in Nat /\ y \in Nat /\ rank[x] \in Nat /\ rank[y] \in Nat
    BY <1>2
  <2>2. CASE x < y
    BY <2>1, <2>2, <1>3
  <2>3. CASE y < x
    BY <2>1, <2>3, <1>3
  <2> QED
    BY <2>1, <2>2, <2>3
<1>6. rank \in Surjection(S, 0 .. n - 1)
  <2>1. rank \in Injection(S, 0 .. n - 1)
    BY <1>4, <1>5 DEF Injection, IsInjective
  <2>2. IsFiniteSet(0 .. n - 1) /\ Cardinality(0 .. n - 1) = n
    <3>1. 0 \in Int /\ n - 1 \in Int
      BY <1>1
    <3>2. IsFiniteSet(0 .. n - 1) /\ Cardinality(0 .. n - 1) = IF 0 > n - 1 THEN 0 ELSE n - 1 - 0 + 1
      BY <3>1, FS_Interval
    <3> HIDE DEF n
    <3> QED
      BY <3>2, <1>1
  <2> HIDE DEF rank
  <2> QED
    BY <2>1, <2>2, FS_Injection
<1>7. \A r \in 0 .. n - 1 : \E x \in S : rank[x] = r
  BY <1>6 DEF Surjection
<1> DEFINE s == Ascending(S)
<1>8. s = [i \in 1 .. n |-> CHOOSE x \in S : rank[x] = i - 1]
  <2>1. \A i \in 1 .. n : (CHOOSE x \in S : Cardinality(below(x)) = i - 1) = CHOOSE x \in S : rank[x] = i - 1
    BY <1>0
  <2>2. s = [i \in 1 .. n |-> CHOOSE x \in S : Cardinality(below(x)) = i - 1]
    BY DEF Ascending
  <2> HIDE DEF s, below, rank
  <2> QED
    BY <2>1, <2>2
<1>9. \A i \in 1 .. n : s[i] \in S /\ rank[s[i]] = i - 1
  <2> SUFFICES ASSUME NEW i \in 1 .. n PROVE s[i] \in S /\ rank[s[i]] = i - 1
    OBVIOUS
  <2>1. \E x \in S : rank[x] = i - 1
    BY <1>1, <1>7
  <2> HIDE DEF rank
  <2> QED
    BY <1>8, <2>1
<1> HIDE DEF s, rank, n
<1>10. s \in Seq(S) /\ DOMAIN s = 1 .. n
  BY <1>1, <1>8, <1>9
<1>11. \A x \in S : \E i \in DOMAIN s : s[i] = x
  <2> SUFFICES ASSUME NEW x \in S PROVE \E i \in DOMAIN s : s[i] = x
    OBVIOUS
  <2>1. rank[x] + 1 \in 1 .. n
    BY <1>1, <1>4
  <2>2. s[rank[x] + 1] \in S /\ rank[s[rank[x] + 1]] = rank[x]
    BY <2>1, <1>1, <1>4, <1>9
  <2> QED
    BY <2>1, <2>2, <1>5, <1>10
<1>12. ASSUME NEW i \in DOMAIN s, NEW j \in DOMAIN s, i < j
       PROVE  s[i] < s[j]
  <2>1. s[i] \in S /\ s[j] \in S /\ rank[s[i]] = i - 1 /\ rank[s[j]] = j - 1
    BY <1>9, <1>10
  <2>2. s[i] \in Nat /\ s[j] \in Nat /\ i \in Nat /\ j \in Nat
    <3>1. s[i] \in Nat /\ s[j] \in Nat
      BY <2>1
    <3>2. i \in 1 .. n /\ j \in 1 .. n
      BY <1>10
    <3> QED
      BY <3>1, <3>2, <1>1
  <2>3. s[i] # s[j]
    BY <2>1, <2>2, <1>12
  <2>4. ~(s[j] < s[i])
    <3>1. s[j] < s[i] => rank[s[j]] < rank[s[i]]
      BY <2>1, <1>3
    <3> QED
      BY <3>1, <2>1, <2>2, <1>12
  <2> QED
    BY <2>2, <2>3, <2>4
<1> QED
  BY <1>10, <1>11, <1>12 DEF Sorted, s

\* The first of an ascending list after t is the earliest time after t.
LEMMA FirstAfterSorted ==
  ASSUME NEW S, S \subseteq Nat, NEW s, Sorted(s, S), NEW t \in Int
  PROVE  /\ FirstAfter(s, t) = Zero => \A x \in S : x <= t
         /\ FirstAfter(s, t) # Zero =>
              /\ FirstAfter(s, t) \in S /\ FirstAfter(s, t) > t
              /\ \A x \in S : x > t => FirstAfter(s, t) <= x
<1> DEFINE later == {k \in DOMAIN s : s[k] > t}
<1>1. DOMAIN s \subseteq Nat /\ (\A k \in DOMAIN s : s[k] \in S /\ s[k] \in Nat)
  <2>1. s \in Seq(S) /\ Len(s) \in Nat /\ DOMAIN s = 1 .. Len(s)
    BY DEF Sorted
  <2>2. \A k \in DOMAIN s : s[k] \in S
    BY <2>1
  <2>3. DOMAIN s \subseteq Nat
    BY <2>1
  <2>4. \A x \in S : x \in Nat
    OBVIOUS
  <2> QED
    BY <2>2, <2>3, <2>4
<1>2. CASE later = {}
  <2>1. FirstAfter(s, t) = Zero
    BY <1>2 DEF FirstAfter
  <2>2. \A x \in S : x <= t
    BY <1>1, <1>2 DEF Sorted
  <2> QED
    BY <2>1, <2>2
<1>3. CASE later # {}
  <2> DEFINE k == Min(later)
  <2>1. k \in later /\ \A j \in later : k <= j
    <3>1. later \subseteq Nat
      BY <1>1
    <3> HIDE DEF later
    <3> QED
      BY <1>3, <3>1, MinIsLeast
  <2>2. FirstAfter(s, t) = s[k]
    BY <1>3 DEF FirstAfter
  <2> HIDE DEF k
  <2>3. s[k] \in S /\ s[k] \in Nat /\ s[k] > t /\ k \in Nat
    BY <2>1, <1>1
  <2>4. ASSUME NEW x \in S, x > t PROVE s[k] <= x
    <3>1. PICK j \in DOMAIN s : s[j] = x
      BY DEF Sorted
    <3>2. j \in later /\ j \in Nat
      BY <3>1, <2>4, <1>1
    <3>3. k = j \/ k < j
      BY <3>2, <2>1, <2>3
    <3>4. k < j => s[k] < s[j]
      BY <2>1, <3>1 DEF Sorted
    <3> QED
      BY <3>1, <3>3, <3>4, <2>3
  <2> QED
    BY <2>2, <2>3, <2>4 DEF Zero
<1> QED
  BY <1>2, <1>3

-----------------------------------------------------------------------------
(* Lists of lists                                                          *)

\* A list after another holds the elements of both.
LEMMA ConcatRange ==
  ASSUME NEW X, NEW a \in Seq(X), NEW b \in Seq(X)
  PROVE  a \o b \in Seq(X) /\ Range(a \o b) = Range(a) \cup Range(b)
<1>1. /\ a \o b \in Seq(X) /\ Len(a \o b) = Len(a) + Len(b) /\ Len(a) \in Nat /\ Len(b) \in Nat
      /\ DOMAIN (a \o b) = 1 .. Len(a) + Len(b) /\ DOMAIN a = 1 .. Len(a) /\ DOMAIN b = 1 .. Len(b)
  OBVIOUS
<1>2. \A i \in 1 .. Len(a) : (a \o b)[i] = a[i]
  OBVIOUS
<1>3. \A i \in 1 .. Len(b) : (a \o b)[i + Len(a)] = b[i]
  OBVIOUS
<1>4. \A i \in 1 .. Len(a) + Len(b) :
        i \in 1 .. Len(a) \/ (i - Len(a) \in 1 .. Len(b) /\ i = (i - Len(a)) + Len(a))
  BY <1>1
<1>5. \A i \in 1 .. Len(b) : i + Len(a) \in 1 .. Len(a) + Len(b)
  BY <1>1
<1>6. \A i \in 1 .. Len(a) : i \in 1 .. Len(a) + Len(b)
  BY <1>1
<1> DEFINE c == a \o b
<1> HIDE DEF c
<1>7. ASSUME NEW x \in Range(c) PROVE x \in Range(a) \cup Range(b)
  <2>1. PICK i \in 1 .. Len(a) + Len(b) : x = c[i]
    BY <1>1, <1>7 DEF Range, c
  <2>2. CASE i \in 1 .. Len(a)
    BY <2>1, <2>2, <1>1, <1>2 DEF Range, c
  <2>3. CASE i - Len(a) \in 1 .. Len(b) /\ i = (i - Len(a)) + Len(a)
    <3>1. x = b[i - Len(a)]
      BY <2>1, <2>3, <1>3 DEF c
    <3> QED
      BY <3>1, <2>3, <1>1 DEF Range
  <2> QED
    BY <1>4, <2>2, <2>3
<1>8. ASSUME NEW x \in Range(a) PROVE x \in Range(c)
  BY <1>8, <1>1, <1>2, <1>6 DEF Range, c
<1>9. ASSUME NEW x \in Range(b) PROVE x \in Range(c)
  BY <1>9, <1>1, <1>3, <1>5 DEF Range, c
<1> QED
  BY <1>1, <1>7, <1>8, <1>9 DEF c

\* A list of lists, flattened, holds the elements of each.
LEMMA Flattened ==
  ASSUME NEW X, NEW ss \in Seq(Seq(X))
  PROVE  /\ FlattenSeq(ss) \in Seq(X)
         /\ \A x : x \in Range(FlattenSeq(ss)) <=> \E i \in DOMAIN ss : x \in Range(ss[i])
<1> DEFINE N == Len(ss)
           Put(f, n) == IF n = 1 THEN ss[n] ELSE f[n - 1] \o ss[n]
           Has(n, f) == f = [k \in 1 .. n |-> Put(f, k)]
           F == CHOOSE f : Has(N, f)
<1>0. N \in Nat /\ DOMAIN ss = 1 .. N /\ \A i \in 1 .. N : ss[i] \in Seq(X)
  OBVIOUS
<1>1. FlattenSeq(ss) = IF N = 0 THEN ss ELSE F[N]
  BY DEF FlattenSeq
<1>2. \A n \in Nat : \E f : Has(n, f)
  <2> DEFINE T == {n \in Nat : ~ \E f : Has(n, f)}
  <2>1. SUFFICES ASSUME T # {} PROVE FALSE
    OBVIOUS
  <2>2. PICK n \in T : \A m \in T : n <= m
    BY <2>1, Least
  <2>3. CASE n = 0
    <3> DEFINE g == [k \in 1 .. 0 |-> <<>>]
    <3>1. Has(0, g)
      OBVIOUS
    <3> QED
      BY <2>3, <3>1
  <2>4. CASE n # 0
    <3>0. n \in Nat /\ n - 1 \in Nat /\ ~(n <= n - 1)
      BY <2>4
    <3>1. n - 1 \notin T
      BY <2>2, <3>0
    <3>2. PICK f : Has(n - 1, f)
      BY <3>0, <3>1
    <3> DEFINE g == [k \in 1 .. n |-> Put(f, k)]
    <3>3. \A k \in 1 .. n - 1 : g[k] = f[k]
      <4> SUFFICES ASSUME NEW k \in 1 .. n - 1 PROVE g[k] = f[k]
        OBVIOUS
      <4>1. k \in 1 .. n
        BY <3>0
      <4>2. f[k] = Put(f, k)
        BY <3>2
      <4> QED
        BY <4>1, <4>2
    <3>4. ASSUME NEW k \in 1 .. n PROVE Put(g, k) = Put(f, k)
      <4>1. k # 1 => k - 1 \in 1 .. n - 1
        BY <3>0
      <4> HIDE DEF g
      <4> QED
        BY <3>3, <4>1
    <3>5. Has(n, g)
      BY <3>4
    <3> QED
      BY <3>5
  <2> QED
    BY <2>3, <2>4
<1>3. Has(N, F)
  BY <1>0, <1>2
<1> HIDE DEF F
<1> DEFINE Good(n) == F[n] \in Seq(X) /\ \A x : x \in Range(F[n]) <=> \E i \in 1 .. n : x \in Range(ss[i])
<1>4. \A n \in 1 .. N : Good(n)
  <2> DEFINE T == {n \in 1 .. N : ~Good(n)}
  <2>1. SUFFICES ASSUME T # {} PROVE FALSE
    BY DEF T
  <2>2. PICK n \in T : \A m \in T : n <= m
    <3>1. T \subseteq Nat
      BY <1>0
    <3> HIDE DEF T
    <3> QED
      BY <2>1, <3>1, Least
  <2>3. F[n] = Put(F, n) /\ n \in 1 .. N /\ n \in Nat
    <3>1. n \in 1 .. N
      BY <2>2
    <3>2. F[n] = Put(F, n)
      <4> HIDE DEF N
      <4> QED
        BY <1>3, <3>1
    <3> QED
      BY <3>1, <3>2, <1>0
  <2>4. CASE n = 1
    <3>1. F[n] = ss[1] /\ ss[1] \in Seq(X)
      BY <2>3, <2>4, <1>0
    <3>2. Good(n)
      <4>1. \A i : i \in 1 .. 1 <=> i = 1
        OBVIOUS
      <4> QED
        BY <2>4, <3>1, <4>1
    <3> QED
      BY <3>2
  <2>5. CASE n # 1
    <3>1. n - 1 \in 1 .. N /\ ~(n <= n - 1)
      BY <2>3, <2>5, <1>0
    <3>2. Good(n - 1)
      <4>1. n - 1 \notin T
        BY <2>2, <3>1
      <4> QED
        BY <4>1, <3>1
    <3>3. F[n] = F[n - 1] \o ss[n] /\ ss[n] \in Seq(X)
      BY <2>3, <2>5, <1>0
    <3>4. F[n] \in Seq(X) /\ Range(F[n]) = Range(F[n - 1]) \cup Range(ss[n])
      BY <3>2, <3>3, ConcatRange
    <3>5. \A i : i \in 1 .. n <=> i \in 1 .. n - 1 \/ i = n
      BY <2>3, <2>5
    <3>6. Good(n)
      <4> HIDE DEF T
      <4> QED
        BY <3>2, <3>4, <3>5
    <3> QED
      BY <3>6
  <2> QED
    BY <2>4, <2>5
<1>5. CASE N = 0
  <2>1. FlattenSeq(ss) = <<>> /\ DOMAIN ss = {}
    BY <1>0, <1>1, <1>5
  <2>2. <<>> \in Seq(X) /\ Range(<<>>) = {}
    BY DEF Range
  <2> QED
    BY <2>1, <2>2
<1>6. CASE N # 0
  <2>1. N \in 1 .. N
    BY <1>0, <1>6
  <2>2. FlattenSeq(ss) = F[N] /\ Good(N)
    BY <2>1, <1>1, <1>4, <1>6
  <2> HIDE DEF N
  <2> QED
    BY <2>2, <1>0
<1> QED
  BY <1>5, <1>6

-----------------------------------------------------------------------------
(* Years                                                                   *)

\* Every time lies in its year.
LEMMA YearBounds ==
  ASSUME NEW t \in Nat
  PROVE  /\ YearOf(t) \in Nat /\ YearOf(t) >= FirstYear
         /\ YearStart(YearOf(t)) <= t /\ t < YearStart(YearOf(t) + 1)
<1> DEFINE q == t \div YearLen
<1>1. FirstYear \in Nat /\ YearLen \in Nat \ {0}
  BY CalendarAssumption
<1>2. q \in Nat /\ q * YearLen <= t /\ t < (q + 1) * YearLen
  BY <1>1
<1>3. YearOf(t) = FirstYear + q
  BY DEF YearOf
<1> HIDE DEF q
<1>4. (FirstYear + q) - FirstYear = q /\ (FirstYear + q + 1) - FirstYear = q + 1
  BY <1>1, <1>2
<1>5. YearStart(FirstYear + q) = q * YearLen /\ YearStart(FirstYear + q + 1) = (q + 1) * YearLen
  <2>1. \A y, d : y - FirstYear = d => YearStart(y) = d * YearLen
    BY DEF YearStart
  <2> QED
    BY <2>1, <1>4
<1>6. YearOf(t) \in Nat /\ YearOf(t) >= FirstYear
  BY <1>1, <1>2, <1>3
<1>7. YearStart(YearOf(t)) = q * YearLen /\ YearStart(YearOf(t) + 1) = (q + 1) * YearLen
  BY <1>3, <1>5
<1> QED
  BY <1>2, <1>6, <1>7

\* Later years begin later.
LEMMA YearStartGrows ==
  ASSUME NEW y \in Int, NEW z \in Int, y <= z
  PROVE  YearStart(y) \in Int /\ YearStart(y) <= YearStart(z)
<1>1. FirstYear \in Nat /\ YearLen \in Nat \ {0}
  BY CalendarAssumption
<1>2. z - FirstYear \in Int /\ y - FirstYear \in Int /\ y - FirstYear <= z - FirstYear
  BY <1>1
<1>3. \A a, b \in Int, c \in Nat : a <= b => a * c <= b * c
  OBVIOUS
<1> QED
  BY <1>1, <1>2, <1>3 DEF YearStart

\* A time is in or after a year that has begun, and before one that has not.
LEMMA YearBegun ==
  ASSUME NEW t \in Nat, NEW y \in Int
  PROVE  YearStart(y) <= t <=> y <= YearOf(t)
<1>1. YearOf(t) \in Nat /\ YearStart(YearOf(t)) <= t /\ t < YearStart(YearOf(t) + 1)
  BY YearBounds
<1>2. YearStart(y) \in Int /\ YearStart(YearOf(t)) \in Int /\ YearStart(YearOf(t) + 1) \in Int
  BY <1>1, YearStartGrows
<1>3. CASE y <= YearOf(t)
  <2>1. YearStart(y) <= YearStart(YearOf(t))
    BY <1>1, <1>3, YearStartGrows
  <2> QED
    BY <1>1, <1>2, <1>3, <2>1
<1>4. CASE ~(y <= YearOf(t))
  <2>1. YearOf(t) + 1 <= y
    BY <1>1, <1>4
  <2>2. YearStart(YearOf(t) + 1) <= YearStart(y)
    BY <1>1, <2>1, YearStartGrows
  <2> QED
    BY <1>1, <1>2, <1>4, <2>2
<1> QED
  BY <1>3, <1>4

\* Earlier times lie in the same or in earlier years.
LEMMA YearOfGrows ==
  ASSUME NEW t \in Nat, NEW u \in Nat, t <= u
  PROVE  YearOf(t) <= YearOf(u)
<1>1. YearOf(t) \in Nat /\ YearStart(YearOf(t)) <= t /\ YearStart(YearOf(t)) \in Int
  BY YearBounds, YearStartGrows
<1>2. YearStart(YearOf(t)) <= u
  BY <1>1
<1> QED
  BY <1>1, <1>2, YearBegun

\* A year begins in itself.
LEMMA YearOfStart ==
  ASSUME NEW y \in Nat, y >= FirstYear
  PROVE  YearStart(y) \in Nat /\ YearOf(YearStart(y)) = y
<1>1. FirstYear \in Nat /\ YearLen \in Nat \ {0}
  BY CalendarAssumption
<1>2. y - FirstYear \in Nat
  BY <1>1
<1>3. \A a, c \in Nat : a * c \in Nat
  OBVIOUS
<1>4. YearStart(y) \in Nat
  BY <1>1, <1>2, <1>3 DEF YearStart
<1>5. y <= YearOf(YearStart(y)) /\ YearOf(YearStart(y)) \in Nat
  BY <1>4, YearBegun, YearBounds
<1>6. YearStart(y) < YearStart(y + 1)
  BY <1>1, <1>2 DEF YearStart
<1>7. ~(y + 1 <= YearOf(YearStart(y)))
  <2>1. YearStart(y + 1) \in Int
    BY YearStartGrows
  <2>2. ~(YearStart(y + 1) <= YearStart(y))
    BY <2>1, <1>4, <1>6
  <2> QED
    BY <1>4, <2>2, YearBegun
<1> QED
  BY <1>4, <1>5, <1>7

-----------------------------------------------------------------------------
(* Standard fields, with and without years                                 *)

\* The library's search: the first time of the fields after t, and Zero only
\* if there is none in the years it looks at.
LEMMA SpecNextIs ==
  ASSUME NEW S, S \subseteq Nat, NEW t \in Nat
  PROVE  /\ SpecNext(S, t) = Zero => \A x \in S : x > t => YearOf(x) > YearOf(t) + Probe
         /\ SpecNext(S, t) # Zero =>
              /\ SpecNext(S, t) \in S /\ SpecNext(S, t) > t
              /\ \A x \in S : x > t => SpecNext(S, t) <= x
<1> DEFINE near == {x \in After(S, t) : YearOf(x) <= YearOf(t) + Probe}
           d == Earliest(near)
<1>0. SpecNext(S, t) = d
  BY DEF SpecNext
<1>1. /\ near \subseteq Nat
      /\ \A x : x \in near <=> x \in S /\ x > t /\ YearOf(x) <= YearOf(t) + Probe
  BY DEF After
<1> HIDE DEF near
<1>2. d = Zero <=> near = {}
  BY <1>1, EarliestIs
<1>3. near # {} => d \in near /\ \A m \in near : d <= m
  BY <1>1, EarliestIs
<1> HIDE DEF d
<1>4. Probe \in Nat /\ YearOf(t) \in Nat /\ \A x \in S : x \in Nat /\ YearOf(x) \in Nat
  BY CalendarAssumption, YearBounds
<1>5. ASSUME d = Zero, NEW x \in S, x > t PROVE YearOf(x) > YearOf(t) + Probe
  <2>1. x \notin near
    BY <1>2, <1>5
  <2> QED
    BY <2>1, <1>1, <1>4, <1>5
<1>6. ASSUME d # Zero PROVE d \in S /\ d > t /\ \A x \in S : x > t => d <= x
  <2>1. d \in near /\ \A m \in near : d <= m
    BY <1>2, <1>3, <1>6
  <2>2. d \in S /\ d \in Nat /\ d > t /\ YearOf(d) <= YearOf(t) + Probe
    BY <2>1, <1>1, <1>4
  <2>3. ASSUME NEW x \in S, x > t PROVE d <= x
    <3>1. CASE x \in near
      BY <2>1, <3>1
    <3>2. CASE x \notin near
      <4>1. ~(YearOf(x) <= YearOf(t) + Probe)
        BY <3>2, <2>3, <1>1
      <4>2. ~(YearOf(x) <= YearOf(d))
        BY <4>1, <2>2, <1>4
      <4>3. ~(x <= d)
        BY <4>2, <2>2, <1>4, YearOfGrows
      <4> QED
        BY <4>3, <2>2, <1>4
    <3> QED
      BY <3>1, <3>2
  <2> QED
    BY <2>2, <2>3
<1> QED
  BY <1>0, <1>5, <1>6

\* The values of a field that is accepted.
LEMMA ValuesWithin ==
  ASSUME NEW f \in Field, NEW min \in Nat, NEW max \in Nat, Within(f, min, max)
  PROVE  Values(f) \subseteq min .. max /\ Values(f) # {} /\ IsFiniteSet(Values(f))
<1>1. f # <<>> /\ (\A i \in DOMAIN f : f[i].lo \in Int /\ f[i].hi \in Int) /\ DOMAIN f # {}
  <2> DEFINE Item == [lo : Int, hi : Int]
  <2>1. f \in Seq(Item) /\ f # <<>>
    BY DEF Within, Field
  <2> HIDE DEF Item
  <2>2. \A i \in DOMAIN f : f[i] \in Item
    BY <2>1
  <2>3. 1 \in DOMAIN f
    BY <2>1
  <2>4. \A i \in DOMAIN f : f[i].lo \in Int /\ f[i].hi \in Int
    BY <2>2 DEF Item
  <2> QED
    BY <2>1, <2>3, <2>4
<1>2. \A i \in DOMAIN f : f[i].lo <= f[i].hi /\ f[i].lo >= min /\ f[i].hi <= max
  BY DEF Within, Valid
<1>3. Values(f) \subseteq min .. max
  <2> SUFFICES ASSUME NEW x \in Values(f) PROVE x \in min .. max
    OBVIOUS
  <2>1. PICK i \in DOMAIN f : x \in f[i].lo .. f[i].hi
    BY DEF Values
  <2> QED
    BY <2>1, <1>1, <1>2
<1>4. Values(f) # {}
  <2>1. PICK i \in DOMAIN f : TRUE
    BY <1>1
  <2>2. f[i].lo \in f[i].lo .. f[i].hi
    BY <1>1, <1>2
  <2> QED
    BY <2>2 DEF Values
<1>5. IsFiniteSet(min .. max)
  BY FS_Interval
<1> QED
  BY <1>3, <1>4, <1>5, FS_Subset

\* A list of years and the fields it goes with.
YearsOf(s, V) ==
  /\ s.occ \subseteq Times
  /\ V \subseteq Nat /\ V # {}
  /\ Sorted(s.years, V)
Listed(s, V) == {x \in s.occ : YearOf(x) \in V}

LEMMA YearlyTypes ==
  ASSUME NEW s, NEW V, YearsOf(s, V)
  PROVE  /\ s.occ \subseteq Nat /\ Len(s.years) \in Nat \ {0}
         /\ DOMAIN s.years = 1 .. Len(s.years)
         /\ \A k \in 1 .. Len(s.years) : s.years[k] \in V /\ s.years[k] \in Nat
         /\ \A x \in s.occ : x \in Nat /\ YearOf(x) \in Nat
<1>1. Times \subseteq Nat
  BY DEF Times
<1>2. s.years \in Seq(V) /\ DOMAIN s.years = 1 .. Len(s.years) /\ Len(s.years) \in Nat
  BY DEF YearsOf, Sorted
<1>3. Len(s.years) # 0
  <2>1. PICK v \in V : TRUE
    BY DEF YearsOf
  <2>2. PICK i \in DOMAIN s.years : s.years[i] = v
    BY DEF YearsOf, Sorted
  <2> QED
    BY <2>2, <1>2
<1>4. \A k \in 1 .. Len(s.years) : s.years[k] \in V
  BY <1>2
<1>5. V \subseteq Nat /\ s.occ \subseteq Nat
  BY <1>1 DEF YearsOf
<1>6. \A x \in s.occ : x \in Nat /\ YearOf(x) \in Nat
  BY <1>5, YearBounds
<1> QED
  BY <1>2, <1>3, <1>4, <1>5, <1>6

\* One round finds the first time of the list after t; or jumps to the start of
\* a later year of the list, over a time of the fields but none of the list; or
\* gives up, and then the list has no time in the years the library looks at.
LEMMA RoundIs ==
  ASSUME NEW s, NEW V, YearsOf(s, V), NEW t \in Nat
  PROVE  LET r == Round(s, t) IN
         /\ r.found # Zero =>
              /\ r.from = Zero /\ r.found \in Listed(s, V) /\ r.found > t
              /\ \A x \in Listed(s, V) : x > t => r.found <= x
         /\ r.found = Zero /\ r.from # Zero =>
              \E y \in V, z \in s.occ :
                /\ y > YearOf(t) /\ r.from = YearStart(y) /\ YearStart(y) \in Nat /\ YearOf(r.from) = y
                /\ t < z /\ z < r.from
                /\ \A x \in Listed(s, V) : x > t => r.from <= x
         /\ r.found = Zero /\ r.from = Zero =>
              \A x \in Listed(s, V) : x > t => YearOf(x) > YearOf(t) + Probe
<1> DEFINE cand == SpecNext(s.occ, t)
           year == YearOf(cand)
           listed == nextYearAfter(s.years, year)
           r == Round(s, t)
<1>0. /\ s.occ \subseteq Nat /\ Len(s.years) \in Nat \ {0} /\ t # Zero /\ DOMAIN s.years = 1 .. Len(s.years)
      /\ \A k \in 1 .. Len(s.years) : s.years[k] \in V /\ s.years[k] \in Nat
      /\ \A x \in s.occ : x \in Nat /\ YearOf(x) \in Nat
  BY YearlyTypes DEF Zero
<1>1. cand = Zero => \A x \in s.occ : x > t => YearOf(x) > YearOf(t) + Probe
  BY <1>0, SpecNextIs
<1>2. cand # Zero => cand \in s.occ /\ cand > t /\ \A x \in s.occ : x > t => cand <= x
  BY <1>0, SpecNextIs
<1>3. CASE cand = Zero
  <2>1. r = [found |-> Zero, from |-> Zero]
    BY <1>3 DEF Round
  <2> QED
    BY <2>1, <1>1, <1>3 DEF Listed
<1>4. CASE cand # Zero /\ Contains(s.years, year)
  <2>1. r = [found |-> cand, from |-> Zero]
    BY <1>0, <1>4 DEF Round
  <2>2. year \in V
    BY <1>0, <1>4 DEF Contains
  <2> HIDE DEF cand
  <2> QED
    BY <2>1, <2>2, <1>2, <1>4 DEF Listed
<1>5. CASE cand # Zero /\ ~Contains(s.years, year)
  <2>1. r = [found |-> Zero,
             from |-> IF year > s.years[Len(s.years)] \/ listed = Zero THEN Zero ELSE YearStart(listed)]
    BY <1>0, <1>5 DEF Round
  <2>2. cand \in s.occ /\ cand \in Nat /\ year \in Nat /\ t < cand /\ \A x \in s.occ : x > t => cand <= x
    BY <1>0, <1>2, <1>5
  <2> DEFINE ys == s.years
  <2>3. Sorted(ys, V) /\ V \subseteq Nat /\ \A v \in V : v \in Nat
    BY DEF YearsOf
  <2>4. year \notin V
    <3>1. ASSUME year \in V PROVE FALSE
      <4>1. PICK i \in DOMAIN ys : ys[i] = year
        BY <3>1, <2>3 DEF Sorted
      <4> QED
        BY <4>1, <1>0, <1>5 DEF Contains
    <3> QED
      BY <3>1
  <2>5. listed = FirstAfter(ys, year)
    BY DEF nextYearAfter
  <2>6. /\ listed = Zero => \A v \in V : v <= year
        /\ listed # Zero => listed \in V /\ listed > year /\ \A v \in V : v > year => listed <= v
    <3> HIDE DEF listed, year, ys
    <3>1. year \in Int
      BY <2>2
    <3>2. /\ FirstAfter(ys, year) = Zero => \A v \in V : v <= year
          /\ FirstAfter(ys, year) # Zero =>
               /\ FirstAfter(ys, year) \in V /\ FirstAfter(ys, year) > year
               /\ \A v \in V : v > year => FirstAfter(ys, year) <= v
      BY <3>1, <2>3, FirstAfterSorted
    <3> QED
      BY <3>2, <2>5
  <2>7. year > ys[Len(ys)] => \A v \in V : v <= year
    <3> SUFFICES ASSUME year > ys[Len(ys)], NEW v \in V PROVE v <= year
      OBVIOUS
    <3>1. PICK i \in DOMAIN ys : ys[i] = v
      BY <2>3 DEF Sorted
    <3>2. Len(ys) \in DOMAIN ys /\ i \in Nat /\ i <= Len(ys) /\ ys[Len(ys)] \in Nat
      BY <3>1, <1>0
    <3>3. i = Len(ys) \/ ys[i] < ys[Len(ys)]
      <4>1. i = Len(ys) \/ i < Len(ys)
        BY <3>2, <1>0
      <4>2. i < Len(ys) => ys[i] < ys[Len(ys)]
        BY <3>1, <3>2, <2>3 DEF Sorted
      <4> QED
        BY <4>1, <4>2
    <3> HIDE DEF ys, year
    <3> QED
      BY <3>1, <3>2, <3>3, <2>2, <2>3
  <2>8. \A x \in Listed(s, V) : x > t => x \in Nat /\ YearOf(x) \in V /\ YearOf(x) > year
    <3> SUFFICES ASSUME NEW x \in Listed(s, V), x > t
                 PROVE  x \in Nat /\ YearOf(x) \in V /\ YearOf(x) > year
      OBVIOUS
    <3>1. x \in s.occ /\ x \in Nat /\ YearOf(x) \in V /\ YearOf(x) \in Nat /\ cand <= x
      BY <1>0, <2>2 DEF Listed
    <3>2. year <= YearOf(x)
      BY <3>1, <2>2, YearOfGrows
    <3> HIDE DEF year
    <3> QED
      BY <3>1, <3>2, <2>2, <2>4
  <2> HIDE DEF r, year, listed, cand
  <2>9. CASE year > ys[Len(ys)] \/ listed = Zero
    <3>1. r.found = Zero /\ r.from = Zero
      BY <2>1, <2>9
    <3>2. \A v \in V : v <= year
      BY <2>6, <2>7, <2>9
    <3>3. \A x \in Listed(s, V) : ~(x > t)
      <4> SUFFICES ASSUME NEW x \in Listed(s, V), x > t PROVE FALSE
        OBVIOUS
      <4>1. YearOf(x) \in V /\ YearOf(x) > year
        BY <2>8
      <4>2. YearOf(x) \in Nat /\ YearOf(x) <= year
        BY <4>1, <3>2, <2>3
      <4> QED
        BY <4>1, <4>2, <2>2
    <3> QED
      BY <3>1, <3>3 DEF r
  <2>10. CASE ~(year > ys[Len(ys)] \/ listed = Zero)
    <3>1. r.found = Zero /\ r.from = YearStart(listed)
      BY <2>1, <2>10
    <3>2. listed \in V /\ listed \in Nat /\ listed > year /\ \A v \in V : v > year => listed <= v
      BY <2>3, <2>6, <2>10
    <3>3. year >= FirstYear /\ FirstYear \in Nat /\ YearOf(t) <= year /\ YearOf(t) \in Nat
      BY <2>2, CalendarAssumption, YearBounds, YearOfGrows DEF year
    <3>4. YearStart(listed) \in Nat /\ YearOf(YearStart(listed)) = listed /\ listed > YearOf(t)
      <4>1. listed >= FirstYear /\ listed > YearOf(t)
        BY <3>2, <3>3, <2>2
      <4> QED
        BY <4>1, <3>2, YearOfStart
    <3>5. cand < YearStart(listed)
      <4>1. ~(listed <= YearOf(cand))
        BY <3>2, <2>2 DEF year
      <4>2. ~(YearStart(listed) <= cand)
        BY <4>1, <3>2, <2>2, YearBegun
      <4> QED
        BY <4>2, <3>4, <2>2
    <3>6. \A x \in Listed(s, V) : x > t => YearStart(listed) <= x
      <4> SUFFICES ASSUME NEW x \in Listed(s, V), x > t PROVE YearStart(listed) <= x
        OBVIOUS
      <4>1. x \in Nat /\ listed <= YearOf(x)
        BY <3>2, <2>8
      <4> QED
        BY <4>1, <3>2, YearBegun
    <3>7. r.from # Zero
      BY <3>1, <3>4 DEF Zero
    <3> QED
      BY <3>1, <3>2, <3>4, <3>5, <3>6, <3>7, <2>2 DEF r
  <2> QED
    BY <2>9, <2>10
<1> QED
  BY <1>3, <1>4, <1>5

\* The rounds are what their recursive definition says.
LEMMA RoundsAre ==
  ASSUME NEW s, Len(s.years) \in Nat, NEW t
  PROVE  \A n \in 1 .. Len(s.years) + 2 :
           Rounds(s, t)[n] = Round(s, IF n = 1 THEN t ELSE Rounds(s, t)[n - 1].from)
<1> DEFINE N == Len(s.years) + 2
           Put(f, n) == Round(s, IF n = 1 THEN t ELSE f[n - 1].from)
           Has(n, f) == f = [k \in 1 .. n |-> Put(f, k)]
           F == CHOOSE f : Has(N, f)
<1>0. N \in Nat
  OBVIOUS
<1>1. Rounds(s, t) = F
  BY DEF Rounds
<1>2. \A n \in Nat : \E f : Has(n, f)
  <2> DEFINE T == {n \in Nat : ~ \E f : Has(n, f)}
  <2>1. SUFFICES ASSUME T # {} PROVE FALSE
    OBVIOUS
  <2>2. PICK n \in T : \A m \in T : n <= m
    BY <2>1, Least
  <2>3. CASE n = 0
    <3> DEFINE g == [k \in 1 .. 0 |-> <<>>]
    <3>1. Has(0, g)
      OBVIOUS
    <3> QED
      BY <2>3, <3>1
  <2>4. CASE n # 0
    <3>0. n \in Nat /\ n - 1 \in Nat /\ ~(n <= n - 1)
      BY <2>4
    <3>1. n - 1 \notin T
      BY <2>2, <3>0
    <3>2. PICK f : Has(n - 1, f)
      BY <3>0, <3>1
    <3> DEFINE g == [k \in 1 .. n |-> Put(f, k)]
    <3>3. \A k \in 1 .. n - 1 : g[k] = f[k]
      <4> SUFFICES ASSUME NEW k \in 1 .. n - 1 PROVE g[k] = f[k]
        OBVIOUS
      <4>1. k \in 1 .. n
        BY <3>0
      <4>2. f[k] = Put(f, k)
        BY <3>2
      <4> QED
        BY <4>1, <4>2
    <3>4. ASSUME NEW k \in 1 .. n PROVE Put(g, k) = Put(f, k)
      <4>1. k # 1 => k - 1 \in 1 .. n - 1
        BY <3>0
      <4> HIDE DEF g
      <4> QED
        BY <3>3, <4>1
    <3>5. Has(n, g)
      BY <3>4
    <3> QED
      BY <3>5
  <2> QED
    BY <2>3, <2>4
<1>3. Has(N, F)
  BY <1>0, <1>2
<1> HIDE DEF F, N
<1> QED
  BY <1>1, <1>3 DEF N

\* A time that the jump to the start of its year may pass over.
Passed(s, t, x) == x = YearStart(YearOf(x)) /\ \E z \in s.occ : t < z /\ z < x

\* YearlyNext finds a time of the list, and passes over none but those.
LEMMA YearlyNextIs ==
  ASSUME NEW s, NEW V, YearsOf(s, V), NEW t \in Nat
  PROVE  LET d == YearlyNext(s, t) IN
         /\ d # Zero =>
              /\ d \in Listed(s, V) /\ d > t
              /\ \A x \in Listed(s, V) : x > t /\ x < d => Passed(s, t, x)
         /\ d = Zero =>
              \A x \in Listed(s, V) : x > t /\ YearOf(x) <= YearOf(t) + Probe => Passed(s, t, x)
<1> DEFINE L  == Len(s.years)
           ys == s.years
           R  == Rounds(s, t)
           M  == Listed(s, V)
           F(n) == IF n = 1 THEN t ELSE R[n - 1].from
           D(n) == {R[m].found : m \in 1 .. n - 1} \ {Zero}
           Going(n) ==
             /\ F(n) \in Nat /\ F(n) >= t /\ D(n) = {}
             /\ n = 1 \/ \E k \in 1 .. L : k >= n - 1 /\ YearOf(F(n)) = ys[k]
             /\ \A x \in M : x > t /\ x <= F(n) => Passed(s, t, x)
           GaveUp(n) ==
             D(n) = {} /\ \A x \in M : x > t /\ YearOf(x) <= YearOf(t) + Probe => Passed(s, t, x)
           Hit(n) ==
             \E d \in M : D(n) = {d} /\ d > t /\ \A x \in M : x > t /\ x < d => Passed(s, t, x)
           J(n) == (F(n) # Zero /\ Going(n)) \/ (F(n) = Zero /\ (GaveUp(n) \/ Hit(n)))
<1>1. /\ L \in Nat \ {0} /\ DOMAIN ys = 1 .. L /\ M \subseteq Nat /\ s.occ \subseteq Nat
      /\ (\A k \in 1 .. L : ys[k] \in V /\ ys[k] \in Nat)
      /\ (\A x \in M : x \in Nat /\ x # Zero /\ YearOf(x) \in Nat /\ YearOf(x) \in V /\ x \in s.occ)
  BY YearlyTypes DEF Listed, Zero
<1>2. \A n \in 1 .. L + 2 : R[n] = Round(s, F(n)) /\ F(n + 1) = R[n].from
  <2> SUFFICES ASSUME NEW n \in 1 .. L + 2 PROVE R[n] = Round(s, F(n)) /\ F(n + 1) = R[n].from
    OBVIOUS
  <2>1. n + 1 # 1 /\ (n + 1) - 1 = n
    BY <1>1
  <2>2. R[n] = Round(s, F(n))
    BY <1>1, RoundsAre
  <2> HIDE DEF R
  <2>3. F(n + 1) = R[n].from
    BY <2>1
  <2> QED
    BY <2>2, <2>3
<1>3. \A n \in 1 .. L + 2 : D(n + 1) = D(n) \cup ({R[n].found} \ {Zero})
  <2> SUFFICES ASSUME NEW n \in 1 .. L + 2 PROVE D(n + 1) = D(n) \cup ({R[n].found} \ {Zero})
    OBVIOUS
  <2>1. \A m : m \in 1 .. n + 1 - 1 <=> m \in 1 .. n - 1 \/ m = n
    BY <1>1
  <2> HIDE DEF R
  <2> QED
    BY <2>1
<1>4. J(1)
  <2>1. F(1) = t /\ t # Zero /\ D(1) = {}
    BY DEF Zero
  <2>2. Going(1)
    BY <2>1, <1>1
  <2> HIDE DEF F, Going
  <2> QED
    BY <2>1, <2>2
<1> HIDE DEF F, D, R, L, ys, M
<1>5. ASSUME NEW n \in 1 .. L + 2, J(n) PROVE J(n + 1)
  <2>0. n \in Nat /\ n + 1 # 1
    BY <1>1
  <2>1. CASE F(n) = Zero
    <3>1. R[n] = [found |-> Zero, from |-> Zero]
      BY <2>1, <1>2 DEF Round
    <3>2. F(n + 1) = Zero /\ D(n + 1) = D(n)
      <4>1. R[n].found = Zero /\ R[n].from = Zero
        BY <3>1
      <4>2. D(n + 1) = D(n) \cup ({R[n].found} \ {Zero})
        BY <1>3
      <4>3. {R[n].found} \ {Zero} = {}
        BY <4>1
      <4> QED
        BY <4>1, <4>2, <4>3, <1>2
    <3>3. GaveUp(n) \/ Hit(n)
      BY <1>5, <2>1
    <3> QED
      BY <3>2, <3>3
  <2>2. CASE F(n) # Zero
    <3> DEFINE f == F(n)
               r == R[n]
    <3>1. Going(n)
      BY <1>5, <2>2
    <3>2. f \in Nat /\ f >= t /\ r = Round(s, f) /\ F(n + 1) = r.from
      BY <3>1, <1>2
    <3>3. /\ r.found # Zero =>
               /\ r.from = Zero /\ r.found \in M /\ r.found > f
               /\ \A x \in M : x > f => r.found <= x
          /\ r.found = Zero /\ r.from # Zero =>
               \E y \in V, z \in s.occ :
                 /\ y > YearOf(f) /\ r.from = YearStart(y) /\ YearStart(y) \in Nat /\ YearOf(r.from) = y
                 /\ f < z /\ z < r.from
                 /\ \A x \in M : x > f => r.from <= x
          /\ r.found = Zero /\ r.from = Zero =>
               \A x \in M : x > f => YearOf(x) > YearOf(f) + Probe
      <4> HIDE DEF f, r
      <4> QED
        BY <3>2, RoundIs DEF M
    <3>4. \A x \in M : x > t /\ x <= f => Passed(s, t, x)
      BY <3>1
    <3>5. D(n) = {}
      BY <3>1
    <3>6. n = 1 \/ \E k \in 1 .. L : k >= n - 1 /\ YearOf(f) = ys[k]
      BY <3>1
    <3>7. D(n + 1) = {r.found} \ {Zero}
      BY <3>5, <1>3
    <3> HIDE DEF f, r
    <3>8. CASE r.found # Zero
      <4>1. F(n + 1) = Zero /\ D(n + 1) = {r.found} /\ r.found \in M /\ r.found > f /\ r.found \in Nat
        BY <3>2, <3>3, <3>7, <3>8, <1>1
      <4>2. \A x \in M : x > t /\ x < r.found => Passed(s, t, x)
        <5> SUFFICES ASSUME NEW x \in M, x > t, x < r.found PROVE Passed(s, t, x)
          OBVIOUS
        <5>1. ~(x > f)
          BY <3>3, <3>8, <4>1, <1>1
        <5>2. x <= f
          BY <5>1, <3>2, <1>1
        <5> QED
          BY <5>2, <3>4
      <4>3. r.found > t
        BY <4>1, <3>2
      <4> QED
        BY <4>1, <4>2, <4>3
    <3>9. CASE r.found = Zero /\ r.from = Zero
      <4>1. F(n + 1) = Zero /\ D(n + 1) = {}
        BY <3>2, <3>7, <3>9
      <4>2. ASSUME NEW x \in M, x > t, YearOf(x) <= YearOf(t) + Probe PROVE Passed(s, t, x)
        <5>1. x \in Nat /\ YearOf(x) \in Nat /\ YearOf(t) \in Nat /\ YearOf(f) \in Nat
              /\ YearOf(t) <= YearOf(f) /\ Probe \in Nat
          BY <1>1, <3>2, CalendarAssumption, YearBounds, YearOfGrows
        <5>2. ~(YearOf(x) > YearOf(f) + Probe)
          BY <4>2, <5>1
        <5>3. ~(x > f)
          BY <5>2, <3>3, <3>9
        <5>4. x <= f
          BY <5>1, <5>3, <3>2
        <5> QED
          BY <5>4, <4>2, <3>4
      <4> QED
        BY <4>1, <4>2
    <3>10. CASE r.found = Zero /\ r.from # Zero
      <4>1. PICK y \in V, z \in s.occ :
                 /\ y > YearOf(f) /\ r.from = YearStart(y) /\ YearStart(y) \in Nat /\ YearOf(r.from) = y
                 /\ f < z /\ z < r.from
                 /\ \A x \in M : x > f => r.from <= x
        BY <3>3, <3>10
      <4>2. F(n + 1) = r.from /\ F(n + 1) # Zero /\ D(n + 1) = {} /\ F(n + 1) \in Nat
        BY <3>2, <3>7, <3>10, <4>1
      <4>3. z \in Nat /\ r.from \in Nat /\ f < r.from /\ t < z /\ r.from >= t
        BY <4>1, <3>2, <1>1
      <4>4. ASSUME NEW x \in M, x > t, x <= r.from PROVE Passed(s, t, x)
        <5>1. CASE x <= f
          BY <5>1, <4>4, <3>4
        <5>2. CASE ~(x <= f)
          <6>1. x = r.from
            BY <5>2, <4>1, <4>3, <4>4, <3>2, <1>1
          <6> QED
            BY <6>1, <4>1, <4>3 DEF Passed
        <5> QED
          BY <5>1, <5>2
      <4>5. PICK k \in 1 .. L : ys[k] = y
        BY <1>1 DEF YearsOf, Sorted, ys
      <4>6. k >= n + 1 - 1
        <5>1. CASE n = 1
          BY <5>1, <1>1
        <5>2. CASE n # 1
          <6>1. PICK j \in 1 .. L : j >= n - 1 /\ YearOf(f) = ys[j]
            BY <3>6, <5>2
          <6>2. ys[j] < ys[k] /\ ys[j] \in Nat /\ ys[k] \in Nat
            BY <6>1, <4>1, <4>5, <1>1
          <6>3. ~(k < j) /\ k # j
            <7>1. k < j => ys[k] < ys[j]
              BY <1>1 DEF YearsOf, Sorted, ys
            <7> QED
              BY <7>1, <6>2
          <6>4. j \in Nat /\ k \in Nat
            BY <1>1
          <6> QED
            BY <6>1, <6>3, <6>4, <2>0
        <5> QED
          BY <5>1, <5>2
      <4>7. Going(n + 1)
        BY <4>1, <4>2, <4>3, <4>4, <4>5, <4>6
      <4> QED
        BY <4>2, <4>7
    <3> QED
      BY <3>8, <3>9, <3>10
  <2> QED
    BY <2>1, <2>2
<1> HIDE DEF J
<1>6. J(L + 3)
  <2> DEFINE T == {n \in 1 .. L + 3 : ~J(n)}
  <2>1. ASSUME T # {} PROVE FALSE
    <3>1. PICK n \in T : \A m \in T : n <= m
      <4>1. T \subseteq Nat
        BY <1>1
      <4> HIDE DEF T
      <4> QED
        BY <2>1, <4>1, Least
    <3>2. n # 1 /\ n \in Nat /\ n \in 1 .. L + 3 /\ ~J(n)
      BY <1>1, <1>4
    <3>3. n - 1 \in 1 .. L + 2 /\ ~(n <= n - 1) /\ n - 1 \in 1 .. L + 3 /\ (n - 1) + 1 = n
      BY <3>2, <1>1
    <3>4. J(n - 1)
      BY <3>1, <3>3
    <3>5. J((n - 1) + 1)
      BY <3>3, <3>4, <1>5
    <3> QED
      BY <3>2, <3>3, <3>5
  <2>2. L + 3 \in 1 .. L + 3
    BY <1>1
  <2> QED
    BY <2>1, <2>2
<1>7. F(L + 3) = Zero
  <2> SUFFICES ASSUME F(L + 3) # Zero PROVE FALSE
    OBVIOUS
  <2>1. Going(L + 3)
    BY <1>6 DEF J
  <2>2. L + 3 # 1 /\ \A k \in 1 .. L : ~(k >= (L + 3) - 1)
    BY <1>1
  <2> QED
    BY <2>1, <2>2
<1>8. GaveUp(L + 3) \/ Hit(L + 3)
  BY <1>6, <1>7 DEF J
<1>9. YearlyNext(s, t) = Earliest(D(L + 3))
  <2>1. L + 3 - 1 = L + 2
    BY <1>1
  <2> QED
    BY <2>1 DEF YearlyNext, D, R, L
<1>10. CASE GaveUp(L + 3)
  <2>1. YearlyNext(s, t) = Zero
    BY <1>9, <1>10 DEF Earliest
  <2> QED
    BY <2>1, <1>10 DEF M
<1>11. CASE Hit(L + 3)
  <2>1. PICK d \in M : D(L + 3) = {d} /\ d > t /\ \A x \in M : x > t /\ x < d => Passed(s, t, x)
    BY <1>11
  <2>2. {d} \subseteq Nat /\ {d} # {} /\ d # Zero
    BY <1>1
  <2>3. Earliest({d}) \in {d}
    BY <2>2, EarliestIs
  <2>4. YearlyNext(s, t) = d
    BY <2>1, <2>3, <1>9
  <2> QED
    BY <2>1, <2>2, <2>4 DEF M
<1> QED
  BY <1>8, <1>10, <1>11

-----------------------------------------------------------------------------
(* What the parser makes of an expression                                  *)

LEMMA ExpressionIs ==
  ASSUME NEW e \in Expressions
  PROVE  /\ e.rule \in {"fields", "monthly", "yearly", "term"}
         /\ e.rule = "fields" => e.tail \in Field /\ e.occ \subseteq Times
         /\ e.rule = "monthly" => e.days \in Field
         /\ e.rule = "yearly" => e.days \in Field /\ e.months \in Field
         /\ e.rule = "term" => e.names \in Seq(STRING)
<1>1. CASE e \in [rule : {"fields"}, fields : Nat, tail : Field, occ : SUBSET Times]
  BY <1>1
<1>2. CASE e \in [rule : {"monthly"}, days : Field]
  BY <1>2
<1>3. CASE e \in [rule : {"yearly"}, months : Field, days : Field]
  BY <1>3
<1>4. CASE e \in [rule : {"term"}, names : Seq(STRING)]
  BY <1>4
<1> QED
  BY <1>1, <1>2, <1>3, <1>4, ExpressionAssumption

LEMMA ParsedFields ==
  ASSUME NEW e \in Accepted, e.rule = "fields"
  PROVE  \/ /\ ~looksLikeYearSpec(e)
            /\ Parse(e) = [kind |-> "standard", occ |-> e.occ]
         \/ /\ looksLikeYearSpec(e) /\ Within(e.tail, yearMin, yearMax)
            /\ Parse(e) = [kind |-> "years", occ |-> e.occ, years |-> parseYearList(e.tail)]
<1>1. Parse(e) # Error
  BY DEF Accepted
<1>2. CASE looksLikeYearSpec(e)
  <2>1. Parse(e) = parseYearlySpec(e)
    BY <1>2 DEF Parse
  <2> QED
    BY <1>1, <1>2, <2>1 DEF parseYearlySpec
<1>3. CASE ~looksLikeYearSpec(e)
  BY <1>3 DEF Parse
<1> QED
  BY <1>2, <1>3

\* The months of a rule of the moon.
MonthsOf(e) == IF e.rule = "monthly" THEN 1 .. MonthsInYear ELSE Values(e.months)

LEMMA ParsedDays ==
  ASSUME NEW e \in Accepted, e.rule \in {"monthly", "yearly"}
  PROVE  /\ validDays(e.days) /\ e.days \in Field
         /\ Parse(e).kind \in {"monthly", "yearly"} /\ Parse(e).days = parseDayField(e.days)
         /\ MonthsOf(e) \subseteq 1 .. MonthsInYear /\ IsFiniteSet(MonthsOf(e))
         /\ Parse(e).months = Ascending(MonthsOf(e))
<1>1. Parse(e) # Error /\ e \in Expressions /\ Parse(e) = parseLunarSchedule(e)
  BY DEF Accepted, Parse
<1>2. CASE e.rule = "monthly"
  <2>1. validDays(e.days)
    BY <1>1, <1>2 DEF parseLunarSchedule
  <2>2. Parse(e) = [kind |-> "monthly", months |-> Ascending(1 .. MonthsInYear), days |-> parseDayField(e.days)]
    BY <1>1, <1>2, <2>1 DEF parseLunarSchedule
  <2>3. IsFiniteSet(1 .. MonthsInYear)
    BY CalendarAssumption, FS_Interval
  <2> QED
    BY <1>1, <1>2, <2>1, <2>2, <2>3, ExpressionIs DEF MonthsOf
<1>3. CASE e.rule = "yearly"
  <2>1. validDays(e.days) /\ Within(e.months, 1, MonthsInYear)
    BY <1>1, <1>3 DEF parseLunarSchedule
  <2>2. Parse(e) = [kind |-> "yearly", months |-> Ascending(Values(e.months)), days |-> parseDayField(e.days)]
    BY <1>1, <1>3, <2>1 DEF parseLunarSchedule
  <2>3. e.months \in Field /\ e.days \in Field
    BY <1>1, <1>3, ExpressionIs
  <2>4. Values(e.months) \subseteq 1 .. MonthsInYear /\ IsFiniteSet(Values(e.months))
    BY <2>1, <2>3, CalendarAssumption, ValuesWithin
  <2> QED
    BY <1>3, <2>1, <2>2, <2>3, <2>4 DEF MonthsOf
<1> QED
  BY <1>2, <1>3

LEMMA ParsedTerm ==
  ASSUME NEW e \in Accepted, e.rule = "term"
  PROVE  /\ Parse(e) = [kind |-> "term", names |-> e.names] /\ e.names \in Seq(STRING)
         /\ \A n \in Range(e.names) : n \in DOMAIN lunarFestivals \/ n \in DOMAIN Term
<1>1. Parse(e) # Error /\ e \in Expressions /\ Parse(e) = parseLunarSchedule(e)
  BY DEF Accepted, Parse
<1>2. \A i \in DOMAIN e.names : isKnownTermName(e.names[i])
  BY <1>1 DEF parseLunarSchedule
<1>3. Parse(e) = [kind |-> "term", names |-> e.names]
  BY <1>1, <1>2 DEF parseLunarSchedule
<1> QED
  BY <1>1, <1>2, <1>3, ExpressionIs DEF isKnownTermName, Range

LEMMA SortedRange ==
  ASSUME NEW S, NEW s, Sorted(s, S)
  PROVE  s \in Seq(S) /\ Range(s) = S /\ DOMAIN s = 1 .. Len(s)
<1>1. s \in Seq(S) /\ \A x \in S : \E i \in DOMAIN s : s[i] = x
  BY DEF Sorted
<1>2. \A i \in DOMAIN s : s[i] \in S
  BY <1>1
<1> QED
  BY <1>1, <1>2 DEF Range

\* The days of a field that is accepted: those written, in whatever order.
LEMMA DaysAre ==
  ASSUME NEW f \in Field, validDays(f)
  PROVE  /\ parseDayField(f) \in Seq(Int)
         /\ \A d : d \in Range(parseDayField(f)) <=>
              \E i \in DOMAIN f : IF f[i] = lunarDayLast THEN d = lunarDayLast.lo ELSE d \in f[i].lo .. f[i].hi
         /\ \A i \in DOMAIN f : f[i] # lunarDayLast => f[i].lo .. f[i].hi \subseteq 1 .. 30
<1> DEFINE Item == [lo : Int, hi : Int]
           ss == [i \in DOMAIN f |-> IF f[i] = lunarDayLast THEN <<lunarDayLast.lo>> ELSE Ascending(f[i].lo .. f[i].hi)]
<1>1. f \in Seq(Item)
  BY DEF Field
<1>2. lunarDayLast.lo \in Int
  BY DEF lunarDayLast
<1>3. \A i \in DOMAIN f : f[i].lo \in Int /\ f[i].hi \in Int
  <2> HIDE DEF Item
  <2>1. \A i \in DOMAIN f : f[i] \in Item
    BY <1>1
  <2> QED
    BY <2>1 DEF Item
<1>4. DOMAIN f = 1 .. Len(f) /\ Len(f) \in Nat
  <2> HIDE DEF Item
  <2> QED
    BY <1>1
<1>5. \A i \in DOMAIN f : f[i] # lunarDayLast =>
        /\ f[i].lo .. f[i].hi \subseteq 1 .. 30
        /\ Ascending(f[i].lo .. f[i].hi) \in Seq(Int) /\ Range(Ascending(f[i].lo .. f[i].hi)) = f[i].lo .. f[i].hi
  <2> SUFFICES ASSUME NEW i \in DOMAIN f, f[i] # lunarDayLast
               PROVE  /\ f[i].lo .. f[i].hi \subseteq 1 .. 30
                      /\ Ascending(f[i].lo .. f[i].hi) \in Seq(Int)
                      /\ Range(Ascending(f[i].lo .. f[i].hi)) = f[i].lo .. f[i].hi
    OBVIOUS
  <2> DEFINE S == f[i].lo .. f[i].hi
  <2>1. f[i].lo >= 1 /\ f[i].hi <= 30 /\ f[i].lo \in Int /\ f[i].hi \in Int
    BY <1>3 DEF validDays, Valid
  <2>2. S \subseteq 1 .. 30 /\ S \subseteq Nat /\ IsFiniteSet(S)
    <3> DEFINE a == f[i].lo
               b == f[i].hi
    <3>1. a \in Int /\ b \in Int /\ a >= 1 /\ b <= 30
      BY <2>1
    <3> HIDE DEF a, b
    <3>2. IsFiniteSet(a .. b)
      BY <3>1, FS_Interval
    <3>3. a .. b \subseteq 1 .. 30 /\ a .. b \subseteq Nat
      BY <3>1
    <3> QED
      BY <3>2, <3>3 DEF a, b
  <2> HIDE DEF S
  <2>3. Ascending(S) \in Seq(S) /\ Range(Ascending(S)) = S
    BY <2>2, AscendingSorted, SortedRange
  <2>4. Ascending(S) \in Seq(Int)
    <3> DEFINE s == Ascending(S)
    <3> HIDE DEF s
    <3>1. s \in Seq(S) /\ \A x \in S : x \in Int
      BY <2>2, <2>3 DEF s
    <3>2. Len(s) \in Nat /\ s = [k \in 1 .. Len(s) |-> s[k]] /\ \A k \in 1 .. Len(s) : s[k] \in S
      BY <3>1
    <3>3. \A k \in 1 .. Len(s) : s[k] \in Int
      BY <3>1, <3>2
    <3>4. s \in Seq(Int)
      BY <3>2, <3>3
    <3> QED
      BY <3>4 DEF s
  <2> QED
    BY <2>2, <2>3, <2>4 DEF S
<1>6. \A i \in DOMAIN f :
        /\ ss[i] \in Seq(Int)
        /\ \A d : d \in Range(ss[i]) <=> IF f[i] = lunarDayLast THEN d = lunarDayLast.lo ELSE d \in f[i].lo .. f[i].hi
  <2> SUFFICES ASSUME NEW i \in DOMAIN f
               PROVE  /\ ss[i] \in Seq(Int)
                      /\ \A d : d \in Range(ss[i]) <=>
                           IF f[i] = lunarDayLast THEN d = lunarDayLast.lo ELSE d \in f[i].lo .. f[i].hi
    OBVIOUS
  <2>1. CASE f[i] = lunarDayLast
    <3>1. ss[i] = <<lunarDayLast.lo>>
      BY <2>1
    <3> HIDE DEF ss
    <3> QED
      BY <2>1, <3>1, <1>2 DEF Range
  <2>2. CASE f[i] # lunarDayLast
    <3>1. ss[i] = Ascending(f[i].lo .. f[i].hi)
      BY <2>2
    <3> HIDE DEF ss
    <3> QED
      BY <2>2, <3>1, <1>5
  <2> QED
    BY <2>1, <2>2
<1>7. ss \in Seq(Seq(Int)) /\ DOMAIN ss = DOMAIN f
  <2>1. DOMAIN ss = DOMAIN f
    OBVIOUS
  <2>2. ss = [i \in 1 .. Len(f) |-> ss[i]]
    BY <1>4
  <2> HIDE DEF ss
  <2> QED
    BY <2>1, <2>2, <1>4, <1>6
<1>8. parseDayField(f) = FlattenSeq(ss)
  BY DEF parseDayField
<1> HIDE DEF ss
<1>9. FlattenSeq(ss) \in Seq(Int) /\ \A x : x \in Range(FlattenSeq(ss)) <=> \E i \in DOMAIN ss : x \in Range(ss[i])
  BY <1>7, Flattened
<1> QED
  BY <1>5, <1>6, <1>7, <1>8, <1>9

-----------------------------------------------------------------------------
(* The times of a year of the moon                                         *)

\* x is a day of the moon's year y.
MoonDay(y, x) == \E m \in 1 .. MonthsInYear, k \in Nat :
  k \in 1 .. Moon[y][m].days /\ x = Moon[y][m].first + k - 1

LEMMA DayInYear ==
  ASSUME NEW y \in Years, NEW m \in 1 .. MonthsInYear, NEW d \in Int, d = lunarDayLast.lo \/ d >= 1
  PROVE  /\ lunarDayInYear(y, m, d) \in Seq(Nat)
         /\ \A x : x \in Range(lunarDayInYear(y, m, d)) <=>
              \E k \in 1 .. Moon[y][m].days :
                k = (IF d = lunarDayLast.lo THEN Moon[y][m].days ELSE d) /\ x = Moon[y][m].first + k - 1
<1> DEFINE month == Moon[y][m]
           day == IF d = lunarDayLast.lo THEN month.days ELSE d
<1>1. month.first \in Nat /\ month.days \in Nat \ {0}
  BY MoonAssumption
<1>2. day \in Nat /\ day >= 1
  BY <1>1
<1>3. lunarDayInYear(y, m, d) = IF day > month.days THEN <<>> ELSE <<month.first + day - 1>>
  BY DEF lunarDayInYear
<1> HIDE DEF day, month
<1>4. CASE day > month.days
  <2>1. lunarDayInYear(y, m, d) = <<>>
    BY <1>3, <1>4
  <2>2. <<>> \in Seq(Nat) /\ Range(<<>>) = {}
    BY DEF Range
  <2>3. day \notin 1 .. month.days
    BY <1>1, <1>2, <1>4
  <2> QED
    BY <2>1, <2>2, <2>3 DEF day, month
<1>5. CASE ~(day > month.days)
  <2>1. lunarDayInYear(y, m, d) = <<month.first + day - 1>>
    BY <1>3, <1>5
  <2>2. month.first + day - 1 \in Nat /\ day \in 1 .. month.days
    BY <1>1, <1>2, <1>5
  <2>3. \A v \in Nat : <<v>> \in Seq(Nat) /\ Range(<<v>>) = {v}
    BY DEF Range
  <2>4. lunarDayInYear(y, m, d) \in Seq(Nat) /\ Range(lunarDayInYear(y, m, d)) = {month.first + day - 1}
    BY <2>1, <2>2, <2>3
  <2> QED
    BY <2>2, <2>4 DEF day, month
<1> QED
  BY <1>4, <1>5

\* The days of the moon's year y lie between the start of the sun's year y and
\* the end of the next, and before those of a later year of the moon.
LEMMA MoonDays ==
  ASSUME NEW y \in Years, NEW x, MoonDay(y, x)
  PROVE  /\ x \in Nat /\ y <= YearOf(x) /\ YearOf(x) <= y + 1
         /\ \A z \in Years : \A v : y < z /\ MoonDay(z, v) => x < v
<1> DEFINE last(w, m) == Moon[w][m].first + Moon[w][m].days - 1
<1>0. Years \subseteq Int /\ y \in Int
  BY CalendarAssumption DEF Years
<1>1. \A w \in Years : \A u : MoonDay(w, u) =>
        \E m \in 1 .. MonthsInYear : u \in Nat /\ Moon[w][m].first <= u /\ u <= last(w, m)
  <2> SUFFICES ASSUME NEW w \in Years, NEW u, MoonDay(w, u)
               PROVE  \E m \in 1 .. MonthsInYear : u \in Nat /\ Moon[w][m].first <= u /\ u <= last(w, m)
    OBVIOUS
  <2>1. PICK m \in 1 .. MonthsInYear, k \in Nat : k \in 1 .. Moon[w][m].days /\ u = Moon[w][m].first + k - 1
    BY DEF MoonDay
  <2>2. Moon[w][m].first \in Nat /\ Moon[w][m].days \in Nat
    BY MoonAssumption
  <2>3. u \in Nat /\ Moon[w][m].first <= u /\ u <= last(w, m)
    BY <2>1, <2>2
  <2> QED
    BY <2>3
<1>2. \A w \in Years, m \in 1 .. MonthsInYear :
        /\ Moon[w][m].first \in Nat /\ last(w, m) \in Int
        /\ YearStart(w) <= Moon[w][m].first /\ last(w, m) < YearStart(w + 2)
        /\ w + 1 \in Years => \A k \in 1 .. MonthsInYear : last(w, m) < Moon[w + 1][k].first
  <2> SUFFICES ASSUME NEW w \in Years, NEW m \in 1 .. MonthsInYear
               PROVE  /\ Moon[w][m].first \in Nat /\ last(w, m) \in Int
                      /\ YearStart(w) <= Moon[w][m].first /\ last(w, m) < YearStart(w + 2)
                      /\ w + 1 \in Years => \A k \in 1 .. MonthsInYear : last(w, m) < Moon[w + 1][k].first
    OBVIOUS
  <2>1. Moon[w][m].first \in Nat /\ Moon[w][m].days \in Nat \ {0}
    BY MoonAssumption
  <2>2. YearStart(w) <= Moon[w][m].first /\ last(w, m) < YearStart(w + 2)
    BY MoonAssumption
  <2>3. w + 1 \in Years => \A k \in 1 .. MonthsInYear : last(w, m) < Moon[w + 1][k].first
    BY MoonAssumption
  <2>4. last(w, m) \in Int
    BY <2>1
  <2> HIDE DEF last
  <2> QED
    BY <2>1, <2>2, <2>3, <2>4
<1> HIDE DEF last
<1>3. PICK m \in 1 .. MonthsInYear : x \in Nat /\ Moon[y][m].first <= x /\ x <= last(y, m)
  BY <1>1
<1>4. YearStart(y) \in Int /\ YearStart(y + 2) \in Int
  BY <1>0, YearStartGrows
<1>5. YearStart(y) <= x /\ x < YearStart(y + 2)
  BY <1>2, <1>3, <1>4
<1>6. YearOf(x) \in Nat /\ y <= YearOf(x) /\ YearOf(x) <= y + 1
  <2>1. y <= YearOf(x)
    BY <1>0, <1>3, <1>5, YearBegun
  <2>2. ~(y + 2 <= YearOf(x))
    <3>1. ~(YearStart(y + 2) <= x)
      BY <1>3, <1>4, <1>5
    <3>2. y + 2 \in Int
      BY <1>0
    <3> QED
      BY <3>1, <3>2, <1>3, YearBegun
  <2>3. YearOf(x) \in Nat
    BY <1>3, YearBounds
  <2> QED
    BY <2>1, <2>2, <2>3, <1>0
<1>7. ASSUME NEW z \in Years, NEW v, y < z, MoonDay(z, v) PROVE x < v
  <2>1. PICK k \in 1 .. MonthsInYear : v \in Nat /\ Moon[z][k].first <= v
    BY <1>1, <1>7
  <2>2. z \in Int /\ Moon[z][k].first \in Nat /\ last(y, m) \in Int /\ YearStart(z) <= Moon[z][k].first
    BY <1>0, <1>2
  <2>3. CASE z = y + 1
    <3>1. last(y, m) < Moon[z][k].first
      BY <2>3, <1>2
    <3> QED
      BY <3>1, <2>1, <2>2, <1>3
  <2>4. CASE z # y + 1
    <3>1. y + 2 <= z /\ y + 2 \in Int
      BY <2>2, <2>4, <1>0, <1>7
    <3>2. YearStart(y + 2) <= YearStart(z) /\ YearStart(z) \in Int
      BY <2>2, <3>1, YearStartGrows
    <3> QED
      BY <3>2, <2>1, <2>2, <1>3, <1>4, <1>5
  <2> QED
    BY <2>3, <2>4
<1> QED
  BY <1>3, <1>6, <1>7

\* A day of a month is found exactly if the field of days names it.
LEMMA DaysMatch ==
  ASSUME NEW f \in Field, validDays(f), NEW n \in Nat, NEW k \in 1 .. n
  PROVE  Matches(f, k, n) <=>
           \E d \in Range(parseDayField(f)) : k = IF d = lunarDayLast.lo THEN n ELSE d
<1>1. \A d : d \in Range(parseDayField(f)) <=>
        \E i \in DOMAIN f : IF f[i] = lunarDayLast THEN d = lunarDayLast.lo ELSE d \in f[i].lo .. f[i].hi
  BY DaysAre
<1>2. \A i \in DOMAIN f : f[i] # lunarDayLast => \A d \in f[i].lo .. f[i].hi : d # lunarDayLast.lo
  <2>1. \A i \in DOMAIN f : f[i] # lunarDayLast => f[i].lo .. f[i].hi \subseteq 1 .. 30
    BY DaysAre
  <2>2. \A d \in 1 .. 30 : d # lunarDayLast.lo
    BY DEF lunarDayLast
  <2> QED
    BY <2>1, <2>2
<1>3. ASSUME NEW i \in DOMAIN f, IF f[i] = lunarDayLast THEN k = n ELSE k \in f[i].lo .. f[i].hi
      PROVE  \E d \in Range(parseDayField(f)) : k = IF d = lunarDayLast.lo THEN n ELSE d
  <2>1. CASE f[i] = lunarDayLast
    <3>1. lunarDayLast.lo \in Range(parseDayField(f)) /\ k = n
      BY <1>1, <1>3, <2>1
    <3> QED
      BY <3>1
  <2>2. CASE f[i] # lunarDayLast
    <3>1. k \in Range(parseDayField(f)) /\ k # lunarDayLast.lo
      BY <1>1, <1>2, <1>3, <2>2
    <3> QED
      BY <3>1
  <2> QED
    BY <2>1, <2>2
<1>4. ASSUME NEW d \in Range(parseDayField(f)), k = IF d = lunarDayLast.lo THEN n ELSE d
      PROVE  \E i \in DOMAIN f : IF f[i] = lunarDayLast THEN k = n ELSE k \in f[i].lo .. f[i].hi
  <2>1. PICK i \in DOMAIN f : IF f[i] = lunarDayLast THEN d = lunarDayLast.lo ELSE d \in f[i].lo .. f[i].hi
    BY <1>1
  <2> QED
    BY <2>1, <1>2, <1>4
<1> QED
  BY <1>3, <1>4 DEF Matches

\* What a rule of the moon finds in a year, before it is sorted.
LEMMA RuleFound ==
  ASSUME NEW e \in Accepted, e.rule \in {"monthly", "yearly"}, NEW y \in Years
  PROVE  /\ Found(Parse(e), y) \in Seq(Nat)
         /\ \A x : x \in Range(Found(Parse(e), y)) <=>
              \E m \in MonthsOf(e), d \in Range(parseDayField(e.days)) : x \in Range(lunarDayInYear(y, m, d))
<1> DEFINE s == Parse(e)
           ms == s.months
           ds == s.days
           Ms == MonthsOf(e)
           inner(i) == [j \in DOMAIN ds |-> lunarDayInYear(y, ms[i], ds[j])]
           outer == [i \in DOMAIN ms |-> FlattenSeq(inner(i))]
<1>0. /\ validDays(e.days) /\ e.days \in Field /\ s.kind # "term" /\ ds = parseDayField(e.days)
      /\ Ms \subseteq 1 .. MonthsInYear /\ IsFiniteSet(Ms) /\ ms = Ascending(Ms)
  BY ParsedDays
<1>1. Found(s, y) = FlattenSeq(outer)
  BY <1>0 DEF Found
<1>2. ms \in Seq(Ms) /\ Range(ms) = Ms /\ DOMAIN ms = 1 .. Len(ms) /\ Len(ms) \in Nat
  <2>1. Ms \subseteq Nat
    BY <1>0
  <2> HIDE DEF Ms, ms
  <2>2. Sorted(ms, Ms)
    BY <1>0, <2>1, AscendingSorted
  <2>3. ms \in Seq(Ms) /\ Range(ms) = Ms /\ DOMAIN ms = 1 .. Len(ms)
    BY <2>2, SortedRange
  <2> QED
    BY <2>3
<1>3. ds \in Seq(Int) /\ DOMAIN ds = 1 .. Len(ds) /\ Len(ds) \in Nat
  <2>1. ds \in Seq(Int)
    BY <1>0, DaysAre
  <2> HIDE DEF ds
  <2> QED
    BY <2>1
<1>4. \A d \in Range(ds) : d \in Int /\ (d = lunarDayLast.lo \/ d >= 1)
  <2> SUFFICES ASSUME NEW d \in Range(ds) PROVE d \in Int /\ (d = lunarDayLast.lo \/ d >= 1)
    OBVIOUS
  <2>1. PICK i \in DOMAIN e.days :
          IF e.days[i] = lunarDayLast THEN d = lunarDayLast.lo ELSE d \in e.days[i].lo .. e.days[i].hi
    BY <1>0, DaysAre
  <2>2. e.days[i] # lunarDayLast => e.days[i].lo .. e.days[i].hi \subseteq 1 .. 30
    BY <1>0, DaysAre
  <2>3. d \in Int
    <3>1. d \in 1 .. 30 => d \in Int
      OBVIOUS
    <3> QED
      BY <2>1, <2>2, <3>1 DEF lunarDayLast
  <2>4. d \in 1 .. 30 => d >= 1
    OBVIOUS
  <2> QED
    BY <2>1, <2>2, <2>3, <2>4
<1> HIDE DEF ms, ds, Ms, s
<1>5. ASSUME NEW i \in DOMAIN ms
      PROVE  /\ FlattenSeq(inner(i)) \in Seq(Nat)
             /\ \A x : x \in Range(FlattenSeq(inner(i))) <=>
                  \E j \in DOMAIN ds : x \in Range(lunarDayInYear(y, ms[i], ds[j]))
  <2>1. ms[i] \in 1 .. MonthsInYear
    <3>1. ms[i] \in Ms
      BY <1>2
    <3> QED
      BY <3>1, <1>0
  <2>2. \A j \in DOMAIN ds : lunarDayInYear(y, ms[i], ds[j]) \in Seq(Nat)
    <3> SUFFICES ASSUME NEW j \in DOMAIN ds PROVE lunarDayInYear(y, ms[i], ds[j]) \in Seq(Nat)
      OBVIOUS
    <3>1. ds[j] \in Range(ds)
      BY DEF Range
    <3>2. ds[j] \in Int /\ (ds[j] = lunarDayLast.lo \/ ds[j] >= 1)
      BY <3>1, <1>4
    <3> QED
      BY <2>1, <3>2, DayInYear
  <2>3. inner(i) \in Seq(Seq(Nat)) /\ DOMAIN inner(i) = DOMAIN ds
    BY <2>2, <1>3
  <2>4. \A j \in DOMAIN ds : inner(i)[j] = lunarDayInYear(y, ms[i], ds[j])
    OBVIOUS
  <2> HIDE DEF inner
  <2>5. /\ FlattenSeq(inner(i)) \in Seq(Nat)
        /\ \A x : x \in Range(FlattenSeq(inner(i))) <=> \E j \in DOMAIN inner(i) : x \in Range(inner(i)[j])
    BY <2>3, Flattened
  <2> QED
    BY <2>3, <2>4, <2>5
<1> HIDE DEF inner
<1>6. outer \in Seq(Seq(Nat)) /\ DOMAIN outer = DOMAIN ms /\ \A i \in DOMAIN ms : outer[i] = FlattenSeq(inner(i))
  BY <1>2, <1>5
<1> HIDE DEF outer
<1>7. /\ Found(s, y) \in Seq(Nat)
      /\ \A x : x \in Range(Found(s, y)) <=> \E i \in DOMAIN outer : x \in Range(outer[i])
  BY <1>1, <1>6, Flattened
<1>8. \A x : x \in Range(Found(s, y)) <=>
        \E i \in DOMAIN ms, j \in DOMAIN ds : x \in Range(lunarDayInYear(y, ms[i], ds[j]))
  BY <1>5, <1>6, <1>7
<1>9. \A x : x \in Range(Found(s, y)) <=> \E m \in Range(ms), d \in Range(ds) : x \in Range(lunarDayInYear(y, m, d))
  <2>1. \A i \in DOMAIN ms : ms[i] \in Range(ms)
    BY DEF Range
  <2>2. \A j \in DOMAIN ds : ds[j] \in Range(ds)
    BY DEF Range
  <2>3. \A m \in Range(ms) : \E i \in DOMAIN ms : m = ms[i]
    BY DEF Range
  <2>4. \A d \in Range(ds) : \E j \in DOMAIN ds : d = ds[j]
    BY DEF Range
  <2> QED
    BY <2>1, <2>2, <2>3, <2>4, <1>8
<1> QED
  BY <1>7, <1>9, <1>2, <1>0 DEF s, Ms

\* ... is what is written down for the year.
LEMMA RuleWritten ==
  ASSUME NEW e \in Accepted, e.rule \in {"monthly", "yearly"}, NEW y \in Years
  PROVE  /\ Found(Parse(e), y) \in Seq(Nat) /\ Range(Found(Parse(e), y)) = Written(e, y)
         /\ \A x \in Written(e, y) : MoonDay(y, x)
<1> DEFINE day(m, k) == Moon[y][m].first + k - 1
           days(m) == Moon[y][m].days
           Named(m, k) == Matches(e.days, k, days(m))
           Ms == MonthsOf(e)
           R == Range(parseDayField(e.days))
<1>0. validDays(e.days) /\ e.days \in Field /\ Ms \subseteq 1 .. MonthsInYear
  BY ParsedDays
<1>1. \A x : x \in Written(e, y) <=> \E m \in Ms : \E k \in 1 .. days(m) : Named(m, k) /\ x = day(m, k)
  <2>1. Written(e, y) = UNION {{day(m, d) : d \in {d \in 1 .. days(m) : Named(m, d)}} : m \in Ms}
    BY DEF Written, MonthsOf
  <2> HIDE DEF day, days, Named, Ms
  <2> QED
    BY <2>1
<1>2. \A m \in Ms : days(m) \in Nat
  BY <1>0, MoonAssumption
<1>3. \A d \in R : d \in Int /\ (d = lunarDayLast.lo \/ d >= 1)
  <2> SUFFICES ASSUME NEW d \in R PROVE d \in Int /\ (d = lunarDayLast.lo \/ d >= 1)
    OBVIOUS
  <2>1. PICK i \in DOMAIN e.days :
          IF e.days[i] = lunarDayLast THEN d = lunarDayLast.lo ELSE d \in e.days[i].lo .. e.days[i].hi
    BY <1>0, DaysAre
  <2>2. e.days[i] # lunarDayLast => e.days[i].lo .. e.days[i].hi \subseteq 1 .. 30
    BY <1>0, DaysAre
  <2>3. d \in 1 .. 30 => d \in Int /\ d >= 1
    OBVIOUS
  <2> QED
    BY <2>1, <2>2, <2>3 DEF lunarDayLast
<1>4. \A m \in Ms, d \in R : \A x : x \in Range(lunarDayInYear(y, m, d)) <=>
        \E k \in 1 .. days(m) : k = (IF d = lunarDayLast.lo THEN days(m) ELSE d) /\ x = day(m, k)
  BY <1>0, <1>3, DayInYear
<1>5. \A m \in Ms : \A k \in 1 .. days(m) :
        Named(m, k) <=> \E d \in R : k = IF d = lunarDayLast.lo THEN days(m) ELSE d
  BY <1>0, <1>2, DaysMatch
<1>6. /\ Found(Parse(e), y) \in Seq(Nat)
      /\ \A x : x \in Range(Found(Parse(e), y)) <=>
           \E m \in Ms, d \in R : x \in Range(lunarDayInYear(y, m, d))
  BY RuleFound
<1> HIDE DEF day, days, Named, Ms, R
<1>7. \A x : x \in Range(Found(Parse(e), y)) <=> x \in Written(e, y)
  BY <1>1, <1>4, <1>5, <1>6
<1>8. ASSUME NEW x \in Written(e, y) PROVE MoonDay(y, x)
  <2>1. PICK m \in Ms : \E k \in 1 .. days(m) : x = day(m, k)
    BY <1>1
  <2>2. PICK k \in 1 .. days(m) : x = day(m, k)
    BY <2>1
  <2>3. k \in Nat /\ m \in 1 .. MonthsInYear
    BY <1>0, <1>2
  <2> QED
    BY <2>2, <2>3 DEF MoonDay, day, days
<1> QED
  BY <1>6, <1>7, <1>8

\* The same for a list of festivals and solar terms.
LEMMA TermWritten ==
  ASSUME NEW e \in Accepted, e.rule = "term", NEW y \in Years
  PROVE  /\ Found(Parse(e), y) \in Seq(Nat) /\ Range(Found(Parse(e), y)) = Written(e, y)
         /\ \A x \in Written(e, y) : x \in Nat
         /\ (\A n \in Range(e.names) : n \in DOMAIN lunarFestivals) => \A x \in Written(e, y) : MoonDay(y, x)
         /\ (\A n \in Range(e.names) : n \notin DOMAIN lunarFestivals) => \A x \in Written(e, y) : YearOf(x) = y
<1> DEFINE ns == e.names
           at(n) == termCandidatesInYear(y, n)
           ss == [i \in DOMAIN ns |-> at(ns[i])]
<1>0. /\ Parse(e) = [kind |-> "term", names |-> ns] /\ ns \in Seq(STRING)
      /\ \A n \in Range(ns) : n \in DOMAIN lunarFestivals \/ n \in DOMAIN Term
  BY ParsedTerm
<1>1. Found(Parse(e), y) = FlattenSeq(ss)
  BY <1>0 DEF Found
<1>2. DOMAIN ns = 1 .. Len(ns) /\ Len(ns) \in Nat
  BY <1>0
<1>3. \A n \in DOMAIN lunarFestivals : at(n) \in Seq(Nat) /\ \A x \in Range(at(n)) : MoonDay(y, x) /\ x \in Nat
  <2> SUFFICES ASSUME NEW n \in DOMAIN lunarFestivals
               PROVE  at(n) \in Seq(Nat) /\ \A x \in Range(at(n)) : MoonDay(y, x) /\ x \in Nat
    OBVIOUS
  <2> DEFINE m == lunarFestivals[n].month
             d == lunarFestivals[n].day
  <2>1. m \in 1 .. MonthsInYear /\ d \in Int /\ (d = lunarDayLast.lo \/ d >= 1)
    <3>1. m \in 1 .. MonthsInYear /\ d \in (Nat \ {0}) \cup {lunarDayLast.lo}
      BY TermAssumption
    <3> QED
      BY <3>1 DEF lunarDayLast
  <2>2. at(n) = lunarDayInYear(y, m, d)
    BY DEF termCandidatesInYear
  <2> HIDE DEF m, d, at
  <2>3. /\ lunarDayInYear(y, m, d) \in Seq(Nat)
        /\ \A x : x \in Range(lunarDayInYear(y, m, d)) <=>
             \E k \in 1 .. Moon[y][m].days :
               k = (IF d = lunarDayLast.lo THEN Moon[y][m].days ELSE d) /\ x = Moon[y][m].first + k - 1
    BY <2>1, DayInYear
  <2>4. ASSUME NEW x \in Range(at(n)) PROVE MoonDay(y, x) /\ x \in Nat
    <3>1. PICK k \in 1 .. Moon[y][m].days : x = Moon[y][m].first + k - 1
      BY <2>2, <2>3
    <3>2. Moon[y][m].days \in Nat
      BY <2>1, MoonAssumption
    <3>3. k \in Nat
      BY <3>2
    <3>4. MoonDay(y, x)
      BY <2>1, <3>1, <3>3 DEF MoonDay
    <3> QED
      BY <3>4, MoonDays
  <2> QED
    BY <2>2, <2>3, <2>4
<1>4. \A n \in DOMAIN Term : n \notin DOMAIN lunarFestivals =>
        at(n) \in Seq(Nat) /\ \A x \in Range(at(n)) : YearOf(x) = y /\ x \in Nat
  <2> SUFFICES ASSUME NEW n \in DOMAIN Term, n \notin DOMAIN lunarFestivals
               PROVE  at(n) \in Seq(Nat) /\ \A x \in Range(at(n)) : YearOf(x) = y /\ x \in Nat
    OBVIOUS
  <2>1. Term[n][y] \in Nat /\ YearOf(Term[n][y]) = y
    BY TermAssumption
  <2>2. at(n) = <<Term[n][y]>>
    BY DEF termCandidatesInYear
  <2>3. Range(at(n)) = {Term[n][y]}
    BY <2>2 DEF Range
  <2> QED
    BY <2>1, <2>2, <2>3
<1> HIDE DEF at
<1>5. \A i \in DOMAIN ns : ns[i] \in Range(ns)
  BY DEF Range
<1>6. \A i \in DOMAIN ns : ss[i] = at(ns[i]) /\ ss[i] \in Seq(Nat)
  BY <1>0, <1>3, <1>4, <1>5
<1>7. ss \in Seq(Seq(Nat)) /\ DOMAIN ss = DOMAIN ns
  <2>1. \A i \in DOMAIN ns : at(ns[i]) \in Seq(Nat)
    BY <1>6
  <2> HIDE DEF ns
  <2> QED
    BY <2>1, <1>2
<1> HIDE DEF ss
<1>8. /\ FlattenSeq(ss) \in Seq(Nat)
      /\ \A x : x \in Range(FlattenSeq(ss)) <=> \E i \in DOMAIN ss : x \in Range(ss[i])
  BY <1>7, Flattened
<1>9. \A x : x \in Written(e, y) <=> \E n \in Range(ns) : x \in Range(at(n))
  <2>1. Written(e, y) = UNION {Range(at(n)) : n \in Range(ns)}
    BY DEF Written, at
  <2> HIDE DEF ns
  <2> QED
    BY <2>1
<1>10. \A x : x \in Written(e, y) <=> x \in Range(FlattenSeq(ss))
  <2>1. \A n \in Range(ns) : \E i \in DOMAIN ns : n = ns[i]
    BY DEF Range
  <2> HIDE DEF ns
  <2> QED
    BY <2>1, <1>5, <1>6, <1>7, <1>8, <1>9
<1> HIDE DEF ns
<1>11. \A x \in Written(e, y) : x \in Nat
  BY <1>0, <1>3, <1>4, <1>9
<1>12. ASSUME \A n \in Range(ns) : n \in DOMAIN lunarFestivals, NEW x \in Written(e, y) PROVE MoonDay(y, x)
  BY <1>3, <1>9, <1>12
<1>13. ASSUME \A n \in Range(ns) : n \notin DOMAIN lunarFestivals, NEW x \in Written(e, y) PROVE YearOf(x) = y
  BY <1>0, <1>4, <1>9, <1>13
<1> QED
  BY <1>1, <1>8, <1>10, <1>11, <1>12, <1>13 DEF ns

-----------------------------------------------------------------------------
(* The search over the moon's years                                        *)

LEMMA RangeFinite ==
  ASSUME NEW X, NEW s \in Seq(X)
  PROVE  IsFiniteSet(Range(s))
<1>1. Len(s) \in Nat /\ DOMAIN s = 1 .. Len(s) /\ s = [i \in 1 .. Len(s) |-> s[i]]
  OBVIOUS
<1>2. s \in Surjection(1 .. Len(s), Range(s))
  BY <1>1 DEF Surjection, Range
<1>3. IsFiniteSet(1 .. Len(s))
  <2> DEFINE n == Len(s)
  <2>1. 1 \in Int /\ n \in Int
    BY <1>1
  <2> HIDE DEF n
  <2>2. IsFiniteSet(1 .. n)
    BY <2>1, FS_Interval
  <2> QED
    BY <2>2 DEF n
<1> QED
  BY <1>2, <1>3, FS_Surjection

\* The candidates of a year are the times written down for it, in ascending
\* order.
LEMMA YearListed ==
  ASSUME NEW e \in Accepted, e.rule # "fields", NEW y \in Years
  PROVE  Sorted(candidatesForYear(Parse(e), y), Written(e, y)) /\ Written(e, y) \subseteq Nat
<1>0. e.rule \in {"monthly", "yearly", "term"}
  BY ExpressionIs DEF Accepted
<1>1. /\ Found(Parse(e), y) \in Seq(Nat) /\ Range(Found(Parse(e), y)) = Written(e, y)
      /\ \A x \in Written(e, y) : x \in Nat
  <2>1. CASE e.rule = "term"
    BY <2>1, TermWritten
  <2>2. CASE e.rule # "term"
    <3>1. /\ Found(Parse(e), y) \in Seq(Nat) /\ Range(Found(Parse(e), y)) = Written(e, y)
          /\ \A x \in Written(e, y) : MoonDay(y, x)
      BY <1>0, <2>2, RuleWritten
    <3> QED
      BY <3>1, MoonDays
  <2> QED
    BY <2>1, <2>2
<1>2. IsFiniteSet(Written(e, y))
  BY <1>1, RangeFinite
<1>3. Written(e, y) \subseteq Nat
  BY <1>1
<1> QED
  BY <1>1, <1>2, <1>3, AscendingSorted DEF candidatesForYear

\* The search finds the first time after t of the first year, from the sun's
\* year of t on, that has one.
LEMMA LunarNextIs ==
  ASSUME NEW e \in Accepted, e.rule # "fields", NEW t \in Nat
  PROVE  LET d == LunarNext(Parse(e), t) IN
         /\ d = Zero =>
              \A y \in Years : YearOf(t) <= y /\ y <= YearOf(t) + Lookahead => \A x \in Written(e, y) : x <= t
         /\ d # Zero =>
              \E y \in Years :
                /\ YearOf(t) <= y /\ d \in Written(e, y) /\ d > t
                /\ \A x \in Written(e, y) : x > t => d <= x
                /\ \A z \in Years : YearOf(t) <= z /\ z < y => \A x \in Written(e, z) : x <= t
<1> DEFINE First(y) == FirstAfter(candidatesForYear(Parse(e), y), t)
           scanned == {y \in Years : YearOf(t) <= y /\ y <= YearOf(t) + Lookahead}
           hit == {y \in scanned : First(y) # Zero}
           d == LunarNext(Parse(e), t)
<1>1. \A y \in Years :
        /\ First(y) = Zero => \A x \in Written(e, y) : x <= t
        /\ First(y) # Zero =>
             /\ First(y) \in Written(e, y) /\ First(y) > t
             /\ \A x \in Written(e, y) : x > t => First(y) <= x
  BY YearListed, FirstAfterSorted
<1>2. d = IF hit = {} THEN Zero ELSE First(Min(hit))
  BY DEF LunarNext
<1>3. \A y \in Years : y \in Nat
  BY CalendarAssumption DEF Years
<1>4. \A y : y \in scanned <=> y \in Years /\ YearOf(t) <= y /\ y <= YearOf(t) + Lookahead
  OBVIOUS
<1>5. \A y : y \in hit <=> y \in scanned /\ First(y) # Zero
  OBVIOUS
<1> HIDE DEF d, hit, scanned, First
<1>6. CASE hit = {}
  <2>1. d = Zero
    BY <1>2, <1>6
  <2>2. \A y \in scanned : First(y) = Zero
    BY <1>5, <1>6
  <2> QED
    BY <2>1, <2>2, <1>1, <1>4 DEF d
<1>7. CASE hit # {}
  <2> DEFINE y == Min(hit)
  <2>1. y \in hit /\ \A z \in hit : y <= z
    <3>1. hit \subseteq Nat
      BY <1>3, <1>4, <1>5
    <3> QED
      BY <1>7, <3>1, MinIsLeast
  <2>2. d = First(y)
    BY <1>2, <1>7
  <2> HIDE DEF y
  <2>3. y \in Years /\ y \in Nat /\ YearOf(t) <= y /\ y <= YearOf(t) + Lookahead /\ First(y) # Zero
    BY <2>1, <1>3, <1>4, <1>5
  <2>4. ASSUME NEW z \in Years, YearOf(t) <= z, z < y PROVE First(z) = Zero
    <3>1. z \in Nat /\ z <= YearOf(t) + Lookahead
      BY <2>3, <2>4, <1>3, CalendarAssumption, YearBounds
    <3>2. ~(y <= z)
      BY <2>3, <2>4, <3>1
    <3> QED
      BY <2>1, <2>4, <3>1, <3>2, <1>4, <1>5
  <2> QED
    BY <2>2, <2>3, <2>4, <1>1 DEF d
<1> QED
  BY <1>6, <1>7

-----------------------------------------------------------------------------
(* A registered expression                                                 *)

LEMMA MeaningIs ==
  ASSUME NEW e \in Expressions, e.rule = "fields"
  PROVE  \A x : x \in Meaning(e) <=>
           x \in e.occ /\ x \in Nat /\ (looksLikeYearSpec(e) => YearOf(x) \in Values(e.tail))
<1>1. e.occ \subseteq Times
  BY ExpressionIs
<1>2. \A x \in Times : x \in Nat /\ YearOf(x) \in Years
  <2> SUFFICES ASSUME NEW x \in Times PROVE x \in Nat /\ YearOf(x) \in Years
    OBVIOUS
  <2>1. /\ FirstYear \in Nat /\ LastYear \in Nat /\ YearLen \in Nat \ {0}
    BY CalendarAssumption
  <2>2. x \in Nat /\ x < YearLen * (LastYear + 1 - FirstYear)
    <3>1. LastYear + 1 - FirstYear \in Int
      BY <2>1
    <3>2. YearLen * (LastYear + 1 - FirstYear) \in Int
      BY <2>1, <3>1
    <3> QED
      BY <3>2 DEF Times
  <2>3. YearLen * (LastYear + 1 - FirstYear) = YearStart(LastYear + 1)
    BY <2>1 DEF YearStart
  <2>4. ~(LastYear + 1 <= YearOf(x))
    <3>1. YearStart(LastYear + 1) \in Int
      BY <2>1, YearStartGrows
    <3>2. ~(YearStart(LastYear + 1) <= x)
      BY <2>2, <2>3, <3>1
    <3> QED
      BY <2>1, <2>2, <3>2, YearBegun
  <2>5. YearOf(x) \in Nat /\ YearOf(x) >= FirstYear
    BY <2>2, YearBounds
  <2> QED
    BY <2>1, <2>2, <2>4, <2>5 DEF Years
<1>3. \A y, x : x \in Written(e, y) <=> x \in e.occ /\ YearOf(x) = y /\ (looksLikeYearSpec(e) => y \in Values(e.tail))
  BY DEF Written
<1>4. \A x : x \in Meaning(e) <=> \E y \in Years : x \in Written(e, y)
  BY DEF Meaning
<1> QED
  BY <1>1, <1>2, <1>3, <1>4

\* x lies in what a search that set out from t and came back with d has seen.
Looked(t, d, x) == x > t /\ IF d = Zero THEN YearOf(x) <= YearOf(t) + Probe ELSE x < d

\* A time that the search may pass over.
Exempt(e, t, x) ==
  IF e.rule = "fields" THEN looksLikeYearSpec(e) /\ Passed(e, t, x)
  ELSE Mixed(e) \/ (Festive(e) /\ YearOf(t) > FirstYear /\ x \in Written(e, YearOf(t) - 1))

\* d is a time of the expression after t, and no other is passed over.
FirstOf(e, t, d) ==
  /\ d = Zero \/ (d \in Meaning(e) /\ d \in Nat /\ d > t)
  /\ \A x \in Meaning(e) : Looked(t, d, x) => Exempt(e, t, x)

LEMMA FieldsFirst ==
  ASSUME NEW e \in Accepted, e.rule = "fields", NEW t \in Nat
  PROVE  FirstOf(e, t, NextTime(Parse(e), t))
<1> DEFINE S == e.occ
           d == NextTime(Parse(e), t)
<1>0. e \in Expressions /\ S \subseteq Times /\ S \subseteq Nat /\ e.tail \in Field /\ t \in Nat
  BY ExpressionIs DEF Accepted, Times
<1>1. \A x : x \in Meaning(e) <=>
        x \in S /\ x \in Nat /\ (looksLikeYearSpec(e) => YearOf(x) \in Values(e.tail))
  BY <1>0, MeaningIs
<1>2. YearOf(t) \in Nat /\ Probe \in Nat /\ \A x \in S : x \in Nat /\ YearOf(x) \in Nat
  BY <1>0, CalendarAssumption, YearBounds
<1>3. CASE ~looksLikeYearSpec(e)
  <2>1. d = SpecNext(S, t)
    <3>1. Parse(e) = [kind |-> "standard", occ |-> S]
      BY <1>3, ParsedFields
    <3> QED
      BY <3>1 DEF NextTime
  <2> HIDE DEF d
  <2>2. /\ d = Zero => \A x \in S : x > t => YearOf(x) > YearOf(t) + Probe
        /\ d # Zero => d \in S /\ d > t /\ \A x \in S : x > t => d <= x
    BY <1>0, <2>1, SpecNextIs
  <2>3. d = Zero \/ (d \in Meaning(e) /\ d \in Nat /\ d > t)
    BY <1>1, <1>2, <1>3, <2>2
  <2>4. ASSUME NEW x \in Meaning(e), Looked(t, d, x) PROVE FALSE
    <3>1. x \in S /\ x \in Nat /\ x > t
      BY <1>1, <2>4 DEF Looked
    <3>2. CASE d = Zero
      <4>1. YearOf(x) <= YearOf(t) + Probe /\ YearOf(x) > YearOf(t) + Probe
        BY <3>1, <3>2, <2>2, <2>4 DEF Looked
      <4> QED
        BY <4>1, <3>1, <1>2
    <3>3. CASE d # Zero
      <4>1. x < d /\ d <= x /\ d \in Nat
        BY <3>1, <3>3, <2>2, <2>3, <2>4 DEF Looked
      <4> QED
        BY <4>1, <3>1
    <3> QED
      BY <3>2, <3>3
  <2> QED
    BY <2>3, <2>4 DEF FirstOf, d
<1>4. CASE looksLikeYearSpec(e)
  <2> DEFINE V == Values(e.tail)
             s == [kind |-> "years", occ |-> S, years |-> parseYearList(e.tail)]
  <2>1. Parse(e) = s /\ Within(e.tail, yearMin, yearMax)
    BY <1>4, ParsedFields
  <2>2. d = YearlyNext(s, t)
    BY <2>1 DEF NextTime
  <2>3. V \subseteq Nat /\ V # {} /\ IsFiniteSet(V)
    <3>1. yearMin \in Nat /\ yearMax \in Nat
      BY CalendarAssumption
    <3>2. V \subseteq yearMin .. yearMax /\ V # {} /\ IsFiniteSet(V)
      BY <1>0, <2>1, <3>1, ValuesWithin
    <3> QED
      BY <3>1, <3>2
  <2>4. YearsOf(s, V)
    <3>1. Sorted(Ascending(V), V)
      BY <2>3, AscendingSorted
    <3> QED
      BY <1>0, <2>3, <3>1 DEF YearsOf, parseYearList
  <2>5. s.occ = S
    OBVIOUS
  <2> HIDE DEF s
  <2>6. \A x : x \in Meaning(e) <=> x \in Listed(s, V)
    BY <1>0, <1>1, <1>4, <2>5 DEF Listed
  <2> HIDE DEF V
  <2>7. /\ d # Zero =>
             /\ d \in Listed(s, V) /\ d > t
             /\ \A x \in Listed(s, V) : x > t /\ x < d => Passed(s, t, x)
        /\ d = Zero =>
             \A x \in Listed(s, V) : x > t /\ YearOf(x) <= YearOf(t) + Probe => Passed(s, t, x)
    BY <1>0, <2>2, <2>4, YearlyNextIs
  <2> HIDE DEF d
  <2>8. d = Zero \/ (d \in Meaning(e) /\ d \in Nat /\ d > t)
    BY <1>1, <2>6, <2>7
  <2>9. ASSUME NEW x \in Meaning(e), Looked(t, d, x) PROVE Exempt(e, t, x)
    <3>1. Passed(s, t, x)
      BY <2>6, <2>7, <2>9 DEF Looked
    <3> QED
      BY <3>1, <2>5, <1>4 DEF Passed, Exempt
  <2> QED
    BY <2>8, <2>9 DEF FirstOf, d
<1> QED
  BY <1>3, <1>4

LEMMA MoonFirst ==
  ASSUME NEW e \in Accepted, e.rule # "fields", NEW t \in Nat
  PROVE  FirstOf(e, t, NextTime(Parse(e), t))
<1> DEFINE Y == YearOf(t)
           d == NextTime(Parse(e), t)
<1>0. e \in Accepted /\ e.rule \in {"monthly", "yearly", "term"} /\ t \in Nat /\ Y \in Nat /\ Y >= FirstYear
  BY ExpressionIs, YearBounds DEF Accepted
<1>1. d = LunarNext(Parse(e), t)
  <2>1. Parse(e).kind \in {"monthly", "yearly", "term"}
    <3>1. CASE e.rule = "term"
      BY <3>1, <1>0, ParsedTerm
    <3>2. CASE e.rule # "term"
      BY <3>2, <1>0, ParsedDays
    <3> QED
      BY <3>1, <3>2
  <2> QED
    BY <2>1 DEF NextTime
<1> HIDE DEF Y, d
<1>2. /\ d = Zero =>
           \A y \in Years : Y <= y /\ y <= Y + Lookahead => \A x \in Written(e, y) : x <= t
      /\ d # Zero =>
           \E y \in Years :
             /\ Y <= y /\ d \in Written(e, y) /\ d > t
             /\ \A x \in Written(e, y) : x > t => d <= x
             /\ \A z \in Years : Y <= z /\ z < y => \A x \in Written(e, z) : x <= t
  BY <1>0, <1>1, LunarNextIs DEF Y
<1>3. \A y \in Years : y \in Nat /\ y >= FirstYear /\ \A x \in Written(e, y) : x \in Nat
  <2>1. \A y \in Years : y \in Nat /\ y >= FirstYear
    BY CalendarAssumption DEF Years
  <2>2. \A y \in Years : Written(e, y) \subseteq Nat
    BY <1>0, YearListed
  <2> QED
    BY <2>1, <2>2
<1>4. d = Zero \/ (d \in Meaning(e) /\ d \in Nat /\ d > t)
  BY <1>2, <1>3 DEF Meaning
<1>6. ASSUME ~Mixed(e)
      PROVE  \/ Festive(e) /\ \A y \in Years : \A x \in Written(e, y) : MoonDay(y, x)
             \/ ~Festive(e) /\ \A y \in Years : \A x \in Written(e, y) : YearOf(x) = y
  <2>1. CASE e.rule = "term"
    <3>1. \A n \in Range(e.names) : n \in DOMAIN lunarFestivals \/ n \in DOMAIN Term
      BY <1>0, <2>1, ParsedTerm
    <3>2. CASE Festive(e)
      <4>1. \A n \in Range(e.names) : n \in DOMAIN lunarFestivals
        BY <1>6, <2>1, <3>1, <3>2 DEF Mixed
      <4> QED
        BY <1>0, <2>1, <3>2, <4>1, TermWritten
    <3>3. CASE ~Festive(e)
      <4>1. \A n \in Range(e.names) : n \notin DOMAIN lunarFestivals
        BY <3>3 DEF Festive
      <4> QED
        BY <1>0, <2>1, <3>3, <4>1, TermWritten
    <3> QED
      BY <3>2, <3>3
  <2>2. CASE e.rule # "term"
    <3>1. e.rule \in {"monthly", "yearly"} /\ Festive(e)
      BY <1>0, <2>2 DEF Festive
    <3> QED
      BY <1>0, <3>1, RuleWritten
  <2> QED
    BY <2>1, <2>2
<1>7. ASSUME NEW x \in Meaning(e), Looked(t, d, x), ~Mixed(e)
      PROVE  Festive(e) /\ Y > FirstYear /\ x \in Written(e, Y - 1)
  <2>1. x > t /\ IF d = Zero THEN YearOf(x) <= Y + Probe ELSE x < d
    BY <1>7 DEF Looked, Y
  <2>2. PICK y \in Years : x \in Written(e, y)
    BY DEF Meaning
  <2>3. x \in Nat /\ YearOf(x) \in Nat /\ y \in Nat /\ Y <= YearOf(x)
    BY <2>1, <2>2, <1>0, <1>3, YearBounds, YearOfGrows DEF Y
  <2>4. ASSUME Y <= y, y <= YearOf(x) PROVE FALSE
    <3>2. ~(x <= t)
      BY <2>1, <2>3, <1>0
    <3>3. d # Zero
      <4> SUFFICES ASSUME d = Zero PROVE FALSE
        OBVIOUS
      <4>1. y <= Y + Lookahead
        BY <2>1, <2>3, <2>4, <1>0, CalendarAssumption
      <4> QED
        BY <4>1, <3>2, <2>2, <2>4, <1>2
    <3>4. PICK z \in Years :
            /\ Y <= z /\ d \in Written(e, z) /\ d > t
            /\ \A v \in Written(e, z) : v > t => d <= v
            /\ \A w \in Years : Y <= w /\ w < z => \A v \in Written(e, w) : v <= t
      BY <3>3, <1>2
    <3>5. d \in Nat /\ z \in Nat /\ x < d /\ ~(d <= x)
      BY <3>3, <3>4, <2>1, <2>3, <1>3
    <3>6. ~(y < z)
      BY <3>2, <3>4, <2>2, <2>4
    <3>7. y # z
      BY <3>4, <3>5, <2>1, <2>2
    <3>8. z < y
      BY <3>5, <3>6, <3>7, <2>3
    <3>9. CASE \A w \in Years : \A v \in Written(e, w) : MoonDay(w, v)
      <4>1. MoonDay(z, d) /\ MoonDay(y, x)
        BY <3>4, <3>9, <2>2
      <4>2. d < x
        BY <4>1, <3>8, MoonDays
      <4> QED
        BY <4>2, <3>5, <2>3
    <3>10. CASE \A w \in Years : \A v \in Written(e, w) : YearOf(v) = w
      <4>1. YearOf(d) = z /\ YearOf(x) = y
        BY <3>4, <3>10, <2>2
      <4>2. x <= d
        BY <3>5, <2>3
      <4>3. YearOf(x) <= YearOf(d)
        BY <4>2, <3>5, <2>3, YearOfGrows
      <4> QED
        BY <4>1, <4>3, <3>8, <2>3, <3>5
    <3> QED
      BY <3>9, <3>10, <1>6, <1>7
  <2>5. CASE Festive(e) /\ \A w \in Years : \A v \in Written(e, w) : MoonDay(w, v)
    <3>1. y <= YearOf(x) /\ YearOf(x) <= y + 1
      BY <2>2, <2>5, MoonDays
    <3>2. ~(Y <= y)
      BY <2>4, <3>1
    <3>3. y = Y - 1 /\ y >= FirstYear /\ FirstYear \in Nat
      BY <3>1, <3>2, <2>3, <1>0, <1>3, CalendarAssumption
    <3>4. Y > FirstYear
      BY <3>3, <1>0
    <3> QED
      BY <3>3, <3>4, <2>2, <2>5
  <2>6. CASE \A w \in Years : \A v \in Written(e, w) : YearOf(v) = w
    <3>1. YearOf(x) = y
      BY <2>2, <2>6
    <3> QED
      BY <3>1, <2>3, <2>4
  <2> QED
    BY <2>5, <2>6, <1>6, <1>7
<1>8. ASSUME NEW x \in Meaning(e), Looked(t, d, x) PROVE Exempt(e, t, x)
  BY <1>7, <1>8 DEF Exempt, Y
<1> QED
  BY <1>4, <1>8 DEF FirstOf, d

\* What Next returns, for every calendar, every expression and every time.
THEOREM NextIsFirst ==
  ASSUME NEW e \in Accepted, NEW t \in Nat
  PROVE  FirstOf(e, t, NextTime(Parse(e), t))
  BY FieldsFirst, MoonFirst

\* After every step, due is what Next gives for the time from which it looked.
EntryInv == expr \in Accepted /\ from \in Nat /\ due = NextTime(Parse(expr), from)

LEMMA EntryFirst ==
  ASSUME EntryInv
  PROVE  /\ YearlyNextIsFirst /\ LunarNextIsFirst
         /\ due = Zero \/ (due \in Nat /\ due > from)
<1>1. FirstOf(expr, from, due)
  BY NextIsFirst DEF EntryInv
<1>2. IsTime
  BY <1>1 DEF FirstOf, IsTime, After
<1>3. \A x \in Skipped : x \in Meaning(expr) /\ Looked(from, due, x)
  BY DEF Skipped, After, Looked
<1>4. \A x \in Skipped : Exempt(expr, from, x)
  BY <1>1, <1>3 DEF FirstOf
<1>5. YearlyNextIsFirst
  BY <1>2, <1>4 DEF YearlyNextIsFirst, Exempt, Passed
<1>6. LunarNextIsFirst
  BY <1>2, <1>4 DEF LunarNextIsFirst, Exempt
<1> QED
  BY <1>1, <1>5, <1>6 DEF FirstOf

\* That holds when the entry is added and after every firing and restart.
THEOREM EntryInvariant == EntrySpec => []EntryInv
<1>0. Times \subseteq Nat
  BY DEF Times
<1>1. EntryInit => EntryInv
  BY <1>0 DEF EntryInit, RegisterAt, EntryInv
<1>2. EntryInv /\ [EntryNext]_entryVars => EntryInv'
  <2> SUFFICES ASSUME EntryInv, [EntryNext]_entryVars PROVE EntryInv'
    OBVIOUS
  <2>1. CASE EntryFires
    <3>1. due \in Nat
      BY <2>1, EntryFirst DEF EntryFires
    <3> QED
      BY <2>1, <3>1 DEF EntryFires, EntryInv
  <2>2. CASE EntryRestarts
    BY <2>2, <1>0 DEF EntryRestarts, EntryInv
  <2>3. CASE UNCHANGED entryVars
    BY <2>3 DEF entryVars, EntryInv
  <2> QED
    BY <2>1, <2>2, <2>3 DEF EntryNext
<1> QED
  BY <1>1, <1>2, PTL DEF EntrySpec

\* YearlySpecSchedule.Next, for every calendar, fields and list of years: it
\* returns a time of the expression, and passes over none but one at the first
\* instant of a year to which it has jumped.
THEOREM YearlyIsFirst == EntrySpec => []YearlyNextIsFirst
<1>1. EntryInv => YearlyNextIsFirst
  BY EntryFirst
<1> QED
  BY <1>1, EntryInvariant, PTL

\* LunarSchedule.Next, for every calendar of the sun and the moon: it returns a
\* time of the rule, and passes over none but those of the moon's year that
\* began in the sun's year before, or where festivals and solar terms are mixed.
THEOREM LunarIsFirst == EntrySpec => []LunarNextIsFirst
<1>1. EntryInv => LunarNextIsFirst
  BY EntryFirst
<1> QED
  BY <1>1, EntryInvariant, PTL

Onwards == due = Zero \/ (due \in Nat /\ due > from)

\* An entry never fires twice for one time, nor for one before: every firing
\* moves on to a later time, or to none.
THEOREM FiresOnwards == EntrySpec => [][EntryFires => due' = Zero \/ due' > due]_entryVars
<1>1. EntryInv => Onwards
  BY EntryFirst DEF Onwards
<1>2. Onwards' => (EntryFires => due' = Zero \/ due' > due)
  BY DEF Onwards, EntryFires
<1> QED
  BY <1>1, <1>2, EntryInvariant, PTL DEF EntrySpec

-----------------------------------------------------------------------------
(* The planned times                                                       *)

\* Expressions for which nothing is passed over: without a list of years, or
\* with fields that do not name the first instant of a year; or solar terms.
Unexempt(e) ==
  IF e.rule = "fields" THEN looksLikeYearSpec(e) => \A x \in e.occ : x # YearStart(YearOf(x))
  ELSE ~Festive(e)

\* Where the planned times of a task are those its expression stands for, the
\* library's next run is the one that CronScheduler's actions take (Scheduler's
\* entries, whose Next is computed by the replica's clock), and there is none
\* only if there is no planned time in the years the library looks at.
THEOREM ExpressionGivesNext ==
  ASSUME NEW e \in Accepted, Unexempt(e), Planned = Meaning(e), NEW t \in Nat
  PROVE  LET m == NextTime(Parse(e), t) IN
         /\ m # Zero => IsNext(m, t)
         /\ m = Zero => \A x \in Planned : x > t => ~(YearOf(x) <= YearOf(t) + Probe)
<1> DEFINE m == NextTime(Parse(e), t)
<1> HIDE DEF m
<1>1. FirstOf(e, t, m)
  BY NextIsFirst DEF m
<1>2. ASSUME NEW x \in Meaning(e) PROVE ~Exempt(e, t, x) /\ x \in Nat
  <2>1. CASE e.rule = "fields"
    <3>1. x \in Nat /\ (looksLikeYearSpec(e) => x # YearStart(YearOf(x)))
      BY <2>1, MeaningIs DEF Unexempt, Accepted
    <3> QED
      BY <2>1, <3>1 DEF Exempt, Passed
  <2>2. CASE e.rule # "fields"
    <3>1. x \in Nat
      <4>1. PICK y \in Years : x \in Written(e, y)
        BY DEF Meaning
      <4> QED
        BY <2>2, <4>1, YearListed
    <3> QED
      BY <2>2, <3>1 DEF Exempt, Unexempt, Mixed
  <2> QED
    BY <2>1, <2>2
<1>3. \A x \in Meaning(e) : ~Looked(t, m, x)
  BY <1>1, <1>2 DEF FirstOf
<1>4. ASSUME m # Zero PROVE IsNext(m, t)
  <2>1. m \in Meaning(e) /\ m \in Nat /\ m > t
    BY <1>1, <1>4 DEF FirstOf
  <2>2. \A x \in Meaning(e) : x > t => m <= x
    BY <2>1, <1>2, <1>3, <1>4 DEF Looked
  <2> QED
    BY <2>1, <2>2 DEF IsNext
<1>5. ASSUME m = Zero, NEW x \in Planned, x > t PROVE ~(YearOf(x) <= YearOf(t) + Probe)
  BY <1>3, <1>5 DEF Looked
<1> QED
  BY <1>4, <1>5 DEF m
=============================================================================
