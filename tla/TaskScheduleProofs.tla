------------------------- MODULE TaskScheduleProofs -------------------------
(***************************************************************************)
(* Proofs about TaskSchedule, for any replicas, requests and expressions:  *)
(* the types; that a replica which never worked on two requests for a task *)
(* at once has no entry it has lost sight of; and that requests which do   *)
(* not overlap leave what the row asks for registered and shown.           *)
(*                                                                         *)
(* The order is: what the plans of the requests look like, whatever steps  *)
(* are still left of them; the inductive invariant IInv, which relates the *)
(* next step of a request to the entries of its replica, with a lemma for  *)
(* each kind of step; and SInv, which relates the steps left of the only   *)
(* request to the row, the entries and next_run_at, treated the same way.  *)
(***************************************************************************)
EXTENDS TaskSchedule, TLAPS

-----------------------------------------------------------------------------
(* Plans.                                                                  *)

\* How the scheduler's steps stand in what is left of a plan: unregistering
\* is load, remove, forget in a row, registering is add, store, and nothing
\* is registered twice.
Shape(T) ==
  /\ T \in Seq(Steps)
  /\ \A k \in 1 .. Len(T) :
       /\ T[k] = "load" => k + 2 <= Len(T) /\ T[k + 1] = "remove" /\ T[k + 2] = "forget"
       /\ T[k] = "remove" => k + 1 <= Len(T) /\ T[k + 1] = "forget" /\ (k > 1 => T[k - 1] = "load")
       /\ T[k] = "forget" /\ k > 1 => T[k - 1] = "remove"
       /\ T[k] = "add" => k + 1 <= Len(T) /\ T[k + 1] = "store"
       /\ T[k] = "store" /\ k > 1 => T[k - 1] = "add"
       /\ T[k] \in {"add", "store"} => \A j \in k + 1 .. Len(T) : T[j] # "add"

\* The plan registers without having unregistered.
Bare(T) == \E k \in 1 .. Len(T) : T[k] = "add" /\ \A j \in 1 .. k : T[j] \notin {"load", "remove"}

\* Nothing of the plan has been done yet.
Fresh(T) ==
  /\ Shape(T) /\ Len(T) > 0
  /\ T[1] \notin {"remove", "forget", "store"}

\* It unregisters before it registers, if it does.
Safe(T) == Fresh(T) /\ ~Bare(T)

\* The plan of Create: the row comes first.
Inserts(T) == Fresh(T) /\ T[1] = "insert"

\* The steps that write the row itself.
Writes == {"insert", "update", "setEnabled", "setEnabledBatch", "delete"}

\* Step b may come later than step a in a plan: what is registered is not
\* unregistered or registered again; the first write of Create, Update and
\* Toggle comes before the scheduler is touched; a plan writes the row once;
\* next_run_at is not cleared once it is computed, nor touched before a write
\* that may fail without a trace.
MayPrecede(a, b) ==
  /\ a \in {"add", "store"} => b \notin {"load", "remove", "add"}
  /\ b \in {"insert", "update", "setEnabled"} => a = "clearNext"
  /\ a \in Writes => b \notin Writes
  /\ a = "refresh" => b # "clearNext"
  /\ b \in {"insert", "setEnabled", "delete"} => a \notin {"clearNext", "refresh"}

\* The order of a whole plan, and the steps in it.
Orderly(T) == \A k \in 1 .. Len(T) : \A j \in 1 .. k - 1 : MayPrecede(T[j], T[k])
Left(T) == {T[k] : k \in 1 .. Len(T)}

\* The plan of each request, case by case: Create inserts first.
LEMMA CreateInserts ==
  ASSUME NEW w
  PROVE  /\ Inserts(CreatePlan(w)) /\ Orderly(CreatePlan(w))
         /\ Fires(w) =>
              Left(CreatePlan(w)) = {"insert", "add", "store", "refresh"}
         /\ ~Fires(w) =>
              Left(CreatePlan(w)) = {"insert"}
<1> DEFINE T == CreatePlan(w)
<1>1. CASE Fires(w)
  <2>1. /\ T \in Seq(Steps) /\ Len(T) = 4
        /\ T[1] = "insert" /\ T[2] = "add" /\ T[3] = "store" /\ T[4] = "refresh"
    BY <1>1 DEF CreatePlan, If, Fires, Unregister, Register, Schedule, Steps
  <2> HIDE DEF T
  <2>2. Fresh(T)
    BY <2>1 DEF Fresh, Shape
  <2>4. Orderly(T)
    BY <2>1 DEF Orderly, MayPrecede, Writes
  <2>5. Left(T) = {"insert", "add", "store", "refresh"}
    BY <2>1 DEF Left
  <2> QED BY <1>1, <2>1, <2>2, <2>4, <2>5 DEF Inserts, T
<1>2. CASE ~Fires(w)
  <2>1. /\ T \in Seq(Steps) /\ Len(T) = 1
        /\ T[1] = "insert"
    BY <1>2 DEF CreatePlan, If, Fires, Unregister, Register, Schedule, Steps
  <2> HIDE DEF T
  <2>2. Fresh(T)
    BY <2>1 DEF Fresh, Shape
  <2>4. Orderly(T)
    BY <2>1 DEF Orderly, MayPrecede, Writes
  <2>5. Left(T) = {"insert"}
    BY <2>1 DEF Left
  <2> QED BY <1>2, <2>1, <2>2, <2>4, <2>5 DEF Inserts, T
<1> QED BY <1>1, <1>2

\* Update unregisters before it registers.
LEMMA UpdateSafe ==
  ASSUME NEW w
  PROVE  /\ Safe(UpdatePlan(w)) /\ Orderly(UpdatePlan(w))
         /\ Fires(w) =>
              Left(UpdatePlan(w)) = {"update", "load", "remove", "forget", "add", "store", "refresh"}
         /\ ~Fires(w) /\ "cron" \in {task.kind, w.kind} =>
              Left(UpdatePlan(w)) = {"clearNext", "update", "load", "remove", "forget"}
         /\ ~Fires(w) /\ "cron" \notin {task.kind, w.kind} =>
              Left(UpdatePlan(w)) = {"clearNext", "update"}
<1> DEFINE T == UpdatePlan(w)
<1>1. CASE Fires(w)
  <2>1. /\ T \in Seq(Steps) /\ Len(T) = 7
        /\ T[1] = "update" /\ T[2] = "load" /\ T[3] = "remove" /\ T[4] = "forget"
        /\ T[5] = "add" /\ T[6] = "store" /\ T[7] = "refresh"
    BY <1>1 DEF UpdatePlan, If, Fires, Unregister, Register, Schedule, Steps
  <2> HIDE DEF T
  <2>2. Fresh(T)
    BY <2>1 DEF Fresh, Shape
  <2>3. ~Bare(T)
    BY <2>1 DEF Bare
  <2>4. Orderly(T)
    BY <2>1 DEF Orderly, MayPrecede, Writes
  <2>5. Left(T) = {"update", "load", "remove", "forget", "add", "store", "refresh"}
    BY <2>1 DEF Left
  <2> QED BY <1>1, <2>2, <2>3, <2>4, <2>5 DEF Safe, T
<1>2. CASE ~Fires(w) /\ "cron" \in {task.kind, w.kind}
  <2>1. /\ T \in Seq(Steps) /\ Len(T) = 5
        /\ T[1] = "clearNext" /\ T[2] = "update" /\ T[3] = "load" /\ T[4] = "remove"
        /\ T[5] = "forget"
    BY <1>2 DEF UpdatePlan, If, Fires, Unregister, Register, Schedule, Steps
  <2> HIDE DEF T
  <2>2. Fresh(T)
    BY <2>1 DEF Fresh, Shape
  <2>3. ~Bare(T)
    BY <2>1 DEF Bare
  <2>4. Orderly(T)
    BY <2>1 DEF Orderly, MayPrecede, Writes
  <2>5. Left(T) = {"clearNext", "update", "load", "remove", "forget"}
    BY <2>1 DEF Left
  <2> QED BY <1>2, <2>2, <2>3, <2>4, <2>5 DEF Safe, T
<1>3. CASE ~Fires(w) /\ "cron" \notin {task.kind, w.kind}
  <2>1. /\ T \in Seq(Steps) /\ Len(T) = 2
        /\ T[1] = "clearNext" /\ T[2] = "update"
    BY <1>3 DEF UpdatePlan, If, Fires, Unregister, Register, Schedule, Steps
  <2> HIDE DEF T
  <2>2. Fresh(T)
    BY <2>1 DEF Fresh, Shape
  <2>3. ~Bare(T)
    BY <2>1 DEF Bare
  <2>4. Orderly(T)
    BY <2>1 DEF Orderly, MayPrecede, Writes
  <2>5. Left(T) = {"clearNext", "update"}
    BY <2>1 DEF Left
  <2> QED BY <1>3, <2>2, <2>3, <2>4, <2>5 DEF Safe, T
<1> QED BY <1>1, <1>2, <1>3

\* So does Toggle.
LEMMA ToggleSafe ==
  ASSUME NEW w, w.kind = task.kind, w.enabled \in BOOLEAN
  PROVE  /\ Safe(TogglePlan(w)) /\ Orderly(TogglePlan(w))
         /\ task.kind = "cron" /\ w.enabled =>
              Left(TogglePlan(w)) = {"setEnabled", "load", "remove", "forget", "add", "store", "refresh"}
         /\ task.kind = "cron" /\ ~w.enabled =>
              Left(TogglePlan(w)) = {"setEnabled", "load", "remove", "forget", "clearNext"}
         /\ task.kind # "cron" =>
              Left(TogglePlan(w)) = {"setEnabled"}
<1> DEFINE T == TogglePlan(w)
<1>1. CASE task.kind = "cron" /\ w.enabled
  <2>1. /\ T \in Seq(Steps) /\ Len(T) = 7
        /\ T[1] = "setEnabled" /\ T[2] = "load" /\ T[3] = "remove" /\ T[4] = "forget"
        /\ T[5] = "add" /\ T[6] = "store" /\ T[7] = "refresh"
    BY <1>1 DEF TogglePlan, If, Fires, Unregister, Register, Schedule, Steps
  <2> HIDE DEF T
  <2>2. Fresh(T)
    BY <2>1 DEF Fresh, Shape
  <2>3. ~Bare(T)
    BY <2>1 DEF Bare
  <2>4. Orderly(T)
    BY <2>1 DEF Orderly, MayPrecede, Writes
  <2>5. Left(T) = {"setEnabled", "load", "remove", "forget", "add", "store", "refresh"}
    BY <2>1 DEF Left
  <2> QED BY <1>1, <2>2, <2>3, <2>4, <2>5 DEF Safe, T
<1>2. CASE task.kind = "cron" /\ ~w.enabled
  <2>1. /\ T \in Seq(Steps) /\ Len(T) = 5
        /\ T[1] = "setEnabled" /\ T[2] = "load" /\ T[3] = "remove" /\ T[4] = "forget"
        /\ T[5] = "clearNext"
    BY <1>2 DEF TogglePlan, If, Fires, Unregister, Register, Schedule, Steps
  <2> HIDE DEF T
  <2>2. Fresh(T)
    BY <2>1 DEF Fresh, Shape
  <2>3. ~Bare(T)
    BY <2>1 DEF Bare
  <2>4. Orderly(T)
    BY <2>1 DEF Orderly, MayPrecede, Writes
  <2>5. Left(T) = {"setEnabled", "load", "remove", "forget", "clearNext"}
    BY <2>1 DEF Left
  <2> QED BY <1>2, <2>2, <2>3, <2>4, <2>5 DEF Safe, T
<1>3. CASE task.kind # "cron"
  <2>1. /\ T \in Seq(Steps) /\ Len(T) = 1
        /\ T[1] = "setEnabled"
    BY <1>3 DEF TogglePlan, If, Fires, Unregister, Register, Schedule, Steps
  <2> HIDE DEF T
  <2>2. Fresh(T)
    BY <2>1 DEF Fresh, Shape
  <2>3. ~Bare(T)
    BY <2>1 DEF Bare
  <2>4. Orderly(T)
    BY <2>1 DEF Orderly, MayPrecede, Writes
  <2>5. Left(T) = {"setEnabled"}
    BY <2>1 DEF Left
  <2> QED BY <1>3, <2>2, <2>3, <2>4, <2>5 DEF Safe, T
<1> QED BY <1>1, <1>2, <1>3

\* So does BatchToggle.
LEMMA BatchToggleSafe ==
  ASSUME NEW w, w.kind = task.kind, w.enabled \in BOOLEAN
  PROVE  /\ Safe(BatchTogglePlan(w)) /\ Orderly(BatchTogglePlan(w))
         /\ task.kind = "cron" /\ w.enabled =>
              Left(BatchTogglePlan(w)) = {"load", "remove", "forget", "add", "store", "setEnabledBatch"}
         /\ task.kind = "cron" /\ ~w.enabled =>
              Left(BatchTogglePlan(w)) = {"load", "remove", "forget", "setEnabledBatch"}
         /\ task.kind # "cron" =>
              Left(BatchTogglePlan(w)) = {"setEnabledBatch"}
<1> DEFINE T == BatchTogglePlan(w)
<1>1. CASE task.kind = "cron" /\ w.enabled
  <2>1. /\ T \in Seq(Steps) /\ Len(T) = 6
        /\ T[1] = "load" /\ T[2] = "remove" /\ T[3] = "forget" /\ T[4] = "add"
        /\ T[5] = "store" /\ T[6] = "setEnabledBatch"
    BY <1>1 DEF BatchTogglePlan, If, Fires, Unregister, Register, Schedule, Steps
  <2> HIDE DEF T
  <2>2. Fresh(T)
    BY <2>1 DEF Fresh, Shape
  <2>3. ~Bare(T)
    BY <2>1 DEF Bare
  <2>4. Orderly(T)
    BY <2>1 DEF Orderly, MayPrecede, Writes
  <2>5. Left(T) = {"load", "remove", "forget", "add", "store", "setEnabledBatch"}
    BY <2>1 DEF Left
  <2> QED BY <1>1, <2>2, <2>3, <2>4, <2>5 DEF Safe, T
<1>2. CASE task.kind = "cron" /\ ~w.enabled
  <2>1. /\ T \in Seq(Steps) /\ Len(T) = 4
        /\ T[1] = "load" /\ T[2] = "remove" /\ T[3] = "forget" /\ T[4] = "setEnabledBatch"
    BY <1>2 DEF BatchTogglePlan, If, Fires, Unregister, Register, Schedule, Steps
  <2> HIDE DEF T
  <2>2. Fresh(T)
    BY <2>1 DEF Fresh, Shape
  <2>3. ~Bare(T)
    BY <2>1 DEF Bare
  <2>4. Orderly(T)
    BY <2>1 DEF Orderly, MayPrecede, Writes
  <2>5. Left(T) = {"load", "remove", "forget", "setEnabledBatch"}
    BY <2>1 DEF Left
  <2> QED BY <1>2, <2>2, <2>3, <2>4, <2>5 DEF Safe, T
<1>3. CASE task.kind # "cron"
  <2>1. /\ T \in Seq(Steps) /\ Len(T) = 1
        /\ T[1] = "setEnabledBatch"
    BY <1>3 DEF BatchTogglePlan, If, Fires, Unregister, Register, Schedule, Steps
  <2> HIDE DEF T
  <2>2. Fresh(T)
    BY <2>1 DEF Fresh, Shape
  <2>3. ~Bare(T)
    BY <2>1 DEF Bare
  <2>4. Orderly(T)
    BY <2>1 DEF Orderly, MayPrecede, Writes
  <2>5. Left(T) = {"setEnabledBatch"}
    BY <2>1 DEF Left
  <2> QED BY <1>3, <2>2, <2>3, <2>4, <2>5 DEF Safe, T
<1> QED BY <1>1, <1>2, <1>3

\* Delete only unregisters.
LEMMA DeleteSafe ==
  /\ Safe(DeletePlan) /\ Orderly(DeletePlan)
  /\ task.kind = "cron" =>
       Left(DeletePlan) = {"load", "remove", "forget", "delete"}
  /\ task.kind # "cron" =>
       Left(DeletePlan) = {"delete"}
<1> DEFINE T == DeletePlan
<1>1. CASE task.kind = "cron"
  <2>1. /\ T \in Seq(Steps) /\ Len(T) = 4
        /\ T[1] = "load" /\ T[2] = "remove" /\ T[3] = "forget" /\ T[4] = "delete"
    BY <1>1 DEF DeletePlan, If, Fires, Unregister, Register, Schedule, Steps
  <2> HIDE DEF T
  <2>2. Fresh(T)
    BY <2>1 DEF Fresh, Shape
  <2>3. ~Bare(T)
    BY <2>1 DEF Bare
  <2>4. Orderly(T)
    BY <2>1 DEF Orderly, MayPrecede, Writes
  <2>5. Left(T) = {"load", "remove", "forget", "delete"}
    BY <2>1 DEF Left
  <2> QED BY <1>1, <2>2, <2>3, <2>4, <2>5 DEF Safe, T
<1>2. CASE task.kind # "cron"
  <2>1. /\ T \in Seq(Steps) /\ Len(T) = 1
        /\ T[1] = "delete"
    BY <1>2 DEF DeletePlan, If, Fires, Unregister, Register, Schedule, Steps
  <2> HIDE DEF T
  <2>2. Fresh(T)
    BY <2>1 DEF Fresh, Shape
  <2>3. ~Bare(T)
    BY <2>1 DEF Bare
  <2>4. Orderly(T)
    BY <2>1 DEF Orderly, MayPrecede, Writes
  <2>5. Left(T) = {"delete"}
    BY <2>1 DEF Left
  <2> QED BY <1>2, <2>2, <2>3, <2>4, <2>5 DEF Safe, T
<1> QED BY <1>1, <1>2

\* The plan of a starting process.
BootPlan(refresh) == If(refresh, <<"refresh">>) \o Register

\* It only registers; there is nothing to unregister.
LEMMA BootFresh ==
  ASSUME NEW refresh \in BOOLEAN
  PROVE  /\ Fresh(BootPlan(refresh)) /\ Orderly(BootPlan(refresh))
         /\ refresh =>
              Left(BootPlan(refresh)) = {"refresh", "add", "store"}
         /\ ~refresh =>
              Left(BootPlan(refresh)) = {"add", "store"}
<1> DEFINE T == BootPlan(refresh)
<1>1. CASE refresh
  <2>1. /\ T \in Seq(Steps) /\ Len(T) = 3
        /\ T[1] = "refresh" /\ T[2] = "add" /\ T[3] = "store"
    BY <1>1 DEF BootPlan, If, Fires, Unregister, Register, Schedule, Steps
  <2> HIDE DEF T
  <2>2. Fresh(T)
    BY <2>1 DEF Fresh, Shape
  <2>4. Orderly(T)
    BY <2>1 DEF Orderly, MayPrecede, Writes
  <2>5. Left(T) = {"refresh", "add", "store"}
    BY <2>1 DEF Left
  <2> QED BY <1>1, <2>2, <2>4, <2>5 DEF T
<1>2. CASE ~refresh
  <2>1. /\ T \in Seq(Steps) /\ Len(T) = 2
        /\ T[1] = "add" /\ T[2] = "store"
    BY <1>2 DEF BootPlan, If, Fires, Unregister, Register, Schedule, Steps
  <2> HIDE DEF T
  <2>2. Fresh(T)
    BY <2>1 DEF Fresh, Shape
  <2>4. Orderly(T)
    BY <2>1 DEF Orderly, MayPrecede, Writes
  <2>5. Left(T) = {"add", "store"}
    BY <2>1 DEF Left
  <2> QED BY <1>2, <2>2, <2>4, <2>5 DEF T
<1> QED BY <1>1, <1>2

\* What is left of a plan has the shape of a plan.
LEMMA SuffixShape ==
  ASSUME NEW T, Shape(T), NEW d \in Nat,
         NEW U \in Seq(Steps), Len(U) = Len(T) - d,
         \A k \in 1 .. Len(U) : U[k] = T[k + d]
  PROVE  Shape(U)
<1>1. T \in Seq(Steps) /\ Len(T) \in Nat /\ Len(U) \in Nat
  BY DEF Shape
<1> SUFFICES ASSUME NEW k \in 1 .. Len(U)
             PROVE  /\ U[k] = "load" => k + 2 <= Len(U) /\ U[k + 1] = "remove" /\ U[k + 2] = "forget"
                    /\ U[k] = "remove" => k + 1 <= Len(U) /\ U[k + 1] = "forget" /\ (k > 1 => U[k - 1] = "load")
                    /\ U[k] = "forget" /\ k > 1 => U[k - 1] = "remove"
                    /\ U[k] = "add" => k + 1 <= Len(U) /\ U[k + 1] = "store"
                    /\ U[k] = "store" /\ k > 1 => U[k - 1] = "add"
                    /\ U[k] \in {"add", "store"} => \A j \in k + 1 .. Len(U) : U[j] # "add"
  BY DEF Shape
<1> DEFINE m == k + d
<1>2. /\ m \in 1 .. Len(T) /\ U[k] = T[m]
      /\ k + 1 <= Len(U) <=> m + 1 <= Len(T)
      /\ k + 2 <= Len(U) <=> m + 2 <= Len(T)
      /\ k > 1 => m > 1
  BY <1>1
<1>3. /\ k + 1 <= Len(U) => U[k + 1] = T[m + 1]
      /\ k + 2 <= Len(U) => U[k + 2] = T[m + 2]
      /\ k > 1 => U[k - 1] = T[m - 1]
  <2>1. k + 1 <= Len(U) => k + 1 \in 1 .. Len(U) /\ (k + 1) + d = m + 1 /\ U[k + 1] = T[(k + 1) + d]
    BY <1>1
  <2>2. k + 2 <= Len(U) => k + 2 \in 1 .. Len(U) /\ (k + 2) + d = m + 2 /\ U[k + 2] = T[(k + 2) + d]
    BY <1>1
  <2>3. k > 1 => U[k - 1] = T[m - 1]
    <3>1. k > 1 => k - 1 \in 1 .. Len(U)
      BY <1>1
    <3>2. (k - 1) + d = m - 1
      BY <1>1
    <3>3. k > 1 => U[k - 1] = T[(k - 1) + d]
      BY <3>1
    <3> QED BY <3>2, <3>3
  <2> QED BY <2>1, <2>2, <2>3
<1>4. \A j \in k + 1 .. Len(U) : j + d \in m + 1 .. Len(T) /\ U[j] = T[j + d]
  BY <1>1
<1>5. /\ T[m] = "load" => m + 2 <= Len(T) /\ T[m + 1] = "remove" /\ T[m + 2] = "forget"
      /\ T[m] = "remove" => m + 1 <= Len(T) /\ T[m + 1] = "forget" /\ (m > 1 => T[m - 1] = "load")
      /\ T[m] = "forget" /\ m > 1 => T[m - 1] = "remove"
      /\ T[m] = "add" => m + 1 <= Len(T) /\ T[m + 1] = "store"
      /\ T[m] = "store" /\ m > 1 => T[m - 1] = "add"
      /\ T[m] \in {"add", "store"} => \A j \in m + 1 .. Len(T) : T[j] # "add"
  BY <1>2 DEF Shape
<1>6. k + 1 <= Len(U) \/ ~(k + 2 <= Len(U))
  BY <1>1
<1> HIDE DEF m
<1> QED BY <1>2, <1>3, <1>4, <1>5, <1>6

\* One step less.
LEMMA TailOf ==
  ASSUME NEW T, Shape(T), Len(T) > 0
  PROVE  Shape(Tail(T)) /\ (Tail(T) # <<>> => Len(T) > 1)
<1>1. /\ T \in Seq(Steps) /\ Len(T) \in Nat /\ T # <<>>
      /\ Tail(T) \in Seq(Steps) /\ Len(Tail(T)) = Len(T) - 1
      /\ \A k \in 1 .. Len(Tail(T)) : Tail(T)[k] = T[k + 1]
  BY DEF Shape
<1>2. Shape(Tail(T))
  BY <1>1, SuffixShape
<1>3. Tail(T) # <<>> => Len(Tail(T)) # 0
  BY <1>1
<1> QED BY <1>1, <1>2, <1>3

\* What the next step tells of the one after it.
LEMMA TailShape ==
  ASSUME NEW T, Shape(T), Len(T) > 1
  PROVE  /\ Shape(Tail(T)) /\ Len(Tail(T)) > 0 /\ Tail(T)[1] = T[2]
         /\ T[2] = "remove" <=> T[1] = "load"
         /\ T[2] = "forget" <=> T[1] = "remove"
         /\ T[2] = "store" <=> T[1] = "add"
         /\ Bare(Tail(T)) => T[1] \notin {"load", "add", "store"} /\ (T[1] = "remove" \/ Bare(T))
<1> DEFINE U == Tail(T)
<1>1. /\ T \in Seq(Steps) /\ Len(T) \in Nat
      /\ U \in Seq(Steps) /\ Len(U) = Len(T) - 1
      /\ \A k \in 1 .. Len(T) - 1 : U[k] = T[k + 1]
  BY DEF Shape
<1> HIDE DEF U
<1>2. Shape(U)
  BY TailOf DEF U
<1>3. U[1] = T[2]
  BY <1>1
<1>4. /\ T[2] = "remove" <=> T[1] = "load"
      /\ T[2] = "forget" <=> T[1] = "remove"
      /\ T[2] = "store" <=> T[1] = "add"
  BY <1>1 DEF Shape
<1>5. ASSUME Bare(U)
      PROVE  T[1] \notin {"load", "add", "store"} /\ (T[1] = "remove" \/ Bare(T))
  <2>1. PICK k \in 1 .. Len(U) : U[k] = "add" /\ \A j \in 1 .. k : U[j] \notin {"load", "remove"}
    BY <1>5 DEF Bare
  <2>2. T[k + 1] = "add" /\ k + 1 \in 2 .. Len(T)
    BY <1>1, <2>1
  <2>3. T[1] \notin {"add", "store"}
    BY <1>1, <2>2 DEF Shape
  <2>4. T[1] # "load"
    BY <1>3, <1>4, <2>1
  <2>5. ASSUME T[1] # "remove", NEW j \in 1 .. k + 1
        PROVE  T[j] \notin {"load", "remove"}
    <3>1. CASE j = 1
      BY <2>4, <2>5, <3>1
    <3>2. CASE j # 1
      <4>1. j - 1 \in 1 .. k /\ j - 1 \in 1 .. Len(T) - 1 /\ (j - 1) + 1 = j
        BY <1>1, <2>1, <3>2
      <4>2. U[j - 1] \notin {"load", "remove"} /\ U[j - 1] = T[(j - 1) + 1]
        BY <1>1, <2>1, <4>1
      <4> QED BY <4>1, <4>2
    <3> QED BY <3>1, <3>2
  <2> QED BY <2>2, <2>3, <2>4, <2>5 DEF Bare
<1> QED BY <1>1, <1>2, <1>3, <1>4, <1>5 DEF U

\* A load that finds nothing skips the two steps after it.
LEMMA SkipShape ==
  ASSUME NEW T, Shape(T), T[1] = "load", Len(T) > 0, Len(T) # 3
  PROVE  Fresh(SubSeq(T, 4, Len(T)))
<1> DEFINE U == SubSeq(T, 4, Len(T))
<1>1. T \in Seq(Steps) /\ Len(T) \in Nat
  BY DEF Shape
<1>2. Len(T) > 3 /\ T[2] = "remove" /\ T[3] = "forget"
  <2>1. 1 \in 1 .. Len(T)
    BY <1>1
  <2>2. 3 <= Len(T) /\ T[2] = "remove" /\ T[3] = "forget"
    BY <2>1 DEF Shape
  <2>3. Len(T) > 3
    <3> DEFINE n == Len(T)
    <3>1. n \in Nat /\ 3 <= n /\ n # 3
      BY <1>1, <2>2
    <3> HIDE DEF n
    <3>2. n > 3
      BY <3>1
    <3> QED BY <3>2 DEF n
  <2> QED BY <2>2, <2>3
<1>3. /\ U \in Seq(Steps) /\ Len(U) = Len(T) - 3
      /\ \A k \in 1 .. Len(T) - 3 : U[k] = T[k + 3]
  BY <1>1, <1>2
<1> HIDE DEF U
<1>4. Shape(U)
  BY <1>1, <1>2, <1>3, SuffixShape
<1>5. U[1] \notin {"remove", "forget", "store"}
  BY <1>1, <1>2, <1>3 DEF Shape
<1> QED BY <1>2, <1>3, <1>4, <1>5, <1>1 DEF Fresh, U

\* The same for any such load, with or without a step after the three.
LEMMA SkipsTo ==
  ASSUME NEW T, Shape(T), Len(T) > 0, T[1] = "load", NEW U, U = SubSeq(T, 4, Len(T))
  PROVE  Shape(U) /\ (U # <<>> => Fresh(U))
<1>1. CASE Len(T) = 3
  <2>1. U = <<>>
    BY <1>1 DEF Shape
  <2> QED BY <2>1 DEF Shape
<1>2. CASE Len(T) # 3
  <2>1. Fresh(U)
    BY <1>2, SkipShape
  <2> QED BY <2>1 DEF Fresh
<1> QED BY <1>1, <1>2

\* Who adds next is about to register without unregistering.
LEMMA AddBares == ASSUME NEW T, Shape(T), Len(T) > 0, T[1] = "add" PROVE Bare(T)
  BY DEF Bare, Shape

-----------------------------------------------------------------------------
(* The inductive invariant.                                                *)

\* The operations, and the type of a request.
Asking == {"create", "update", "toggle", "batchToggle", "delete"}
Request == [op : Asking \cup {"boot", Nil}, todo : Seq(Steps), at : Replica \cup {Nil},
            want : Config \cup {Nil}, eid : Nat]

\* The requests: a busy one works on a running replica, along a plan.
Requests ==
  /\ req \in [Slot -> Request]
  /\ \A s \in Slot :
       IF Busy(s)
       THEN req[s].at \in up /\ req[s].want \in Config /\ Shape(req[s].todo)
       ELSE req[s] = Idle

\* The types of everything else.
Columns ==
  /\ stored \in {"absent", "live", "deleted"}
  /\ task \in Config
  /\ next \in (Expr \ Spent) \cup {Nil}
  /\ up \subseteq Replica
  /\ runs \subseteq Expr
  /\ informed \subseteq up
  /\ events \subseteq Event
  /\ crowded \subseteq up
  /\ requests \in 0 .. MaxRequests
  /\ failures \in 0 .. MaxFailures

\* The types of the replicas' entries and maps.
Scheduler ==
  /\ entries \in [Replica -> SUBSET [id : Nat \ {NoEntry}, expr : Expr]]
  /\ taskEntry \in [Replica -> Nat]
  /\ handed \in [Replica -> Nat]

\* Request s works on replica i.
Works(s, i) == Busy(s) /\ req[s].at = i
\* The entries E are at most the one with the id n, the replica's known one.
KnownAs(n, E) == \A e \in E : e.id = n
Known(i) == KnownAs(taskEntry[i], entries[i])

\* A process that is gone has left no entry.
Down == \A i \in Replica \ up : entries[i] = {}

\* Before the task is created nothing can be registered for it.
Unborn ==
  stored = "absent" =>
    /\ \A i \in Replica : entries[i] = {}
    /\ \A s \in Slot : Busy(s) => req[s].todo[1] = "insert"

\* One request at a time on a replica that never had two.
Single == \A i \in up \ crowded, s, t \in Slot : Works(s, i) /\ Works(t, i) => s = t

\* Without a request at work the entries are the known one.
Settled == \A i \in up \ crowded : (\A s \in Slot : ~Works(s, i)) => Known(i)

\* With the steps T ahead, m the id a request holds, n the id its replica
\* knows and E the entries there: before remove the id held is the known one,
\* after it no entry is left, after add the only entry has the id held, and
\* whoever is going to add finds none.
AtStage(T, m, n, E) ==
  /\ T[1] = "remove" => m = n
  /\ T[1] = "store" => KnownAs(m, E)
  /\ T[1] \notin {"forget", "store"} => KnownAs(n, E)
  /\ T[1] = "forget" \/ Bare(T) => E = {}
Stage(s, i) == AtStage(req[s].todo, req[s].eid, taskEntry[i], entries[i])

\* Every request at work is at a stage that fits the entries.
Working == \A i \in up \ crowded, s \in Slot : Works(s, i) => Stage(s, i)

\* The inductive invariant.
IInv == Columns /\ Scheduler /\ Requests /\ Down /\ Unborn /\ Single /\ Settled /\ Working

-----------------------------------------------------------------------------
(* Steps that leave the entries alone.                                     *)

\* The free slot is a request without steps.
LEMMA IdleRequest == Idle \in Request /\ Idle.todo = <<>> /\ Idle.at = Nil
  BY DEF Idle, Request, NoEntry

\* What is known of a request at work.
LEMMA BusyRequest ==
  ASSUME Requests, NEW s \in Slot, Busy(s)
  PROVE  /\ req[s] \in Request /\ req[s].at \in up /\ req[s].want \in Config
         /\ Shape(req[s].todo) /\ req[s].todo \in Seq(Steps)
         /\ Len(req[s].todo) \in Nat /\ Len(req[s].todo) > 0
         /\ Head(req[s].todo) = req[s].todo[1]
<1>1. /\ req[s] \in Request /\ req[s].at \in up /\ req[s].want \in Config /\ Shape(req[s].todo)
      /\ req[s].todo # <<>>
  BY DEF Requests, Busy
<1> PICK T : T = req[s].todo
  OBVIOUS
<1>2. T \in Seq(Steps)
  BY <1>1 DEF Shape
<1>3. Len(T) \in Nat /\ Len(T) > 0 /\ Head(T) = T[1]
  BY <1>1, <1>2
<1> QED BY <1>1, <1>2, <1>3

\* A request that goes on stays well-formed, and the others stay as they are.
LEMMA GoesOnRequests ==
  ASSUME Requests, NEW s \in Slot, Busy(s), NEW U, Shape(U), NEW n \in Nat, GoesOn(s, U, n), up' = up
  PROVE  /\ Requests'
         /\ \A t \in Slot \ {s} : req'[t] = req[t]
         /\ Busy(s)' <=> U # <<>>
         /\ Busy(s)' => /\ req'[s].todo = U /\ req'[s].at = req[s].at
                        /\ req'[s].want = req[s].want /\ req'[s].eid = n
<1> DEFINE r == [req[s] EXCEPT !.todo = U, !.eid = n]
<1>1. req' = [req EXCEPT ![s] = IF U = <<>> THEN Idle ELSE r]
  BY DEF GoesOn
<1>2. /\ r \in Request /\ r.todo = U /\ r.at = req[s].at
      /\ r.want = req[s].want /\ r.eid = n
  <2>1. req[s] \in Request /\ U \in Seq(Steps)
    BY BusyRequest DEF Shape
  <2> QED BY <2>1 DEF Request
<1> HIDE DEF r
<1>3. /\ \A t \in Slot \ {s} : req'[t] = req[t]
      /\ req'[s] = IF U = <<>> THEN Idle ELSE r
      /\ req' \in [Slot -> Request]
  BY <1>1, <1>2, IdleRequest DEF Requests
<1>4. Busy(s)' <=> U # <<>>
  BY <1>2, <1>3, IdleRequest DEF Busy
<1>5. ASSUME NEW t \in Slot
      PROVE  IF Busy(t)' THEN req'[t].at \in up' /\ req'[t].want \in Config /\ Shape(req'[t].todo)
             ELSE req'[t] = Idle
  <2>1. CASE t # s
    BY <1>3, <2>1 DEF Requests, Busy
  <2>2. CASE t = s /\ U = <<>>
    BY <1>3, <1>4, <2>2
  <2>3. CASE t = s /\ U # <<>>
    BY <1>2, <1>3, <1>4, <2>3, BusyRequest
  <2> QED BY <2>1, <2>2, <2>3
<1>6. Requests'
  BY <1>3, <1>5 DEF Requests, Busy
<1> QED BY <1>2, <1>3, <1>4, <1>6

\* The same for a request that does one step.
LEMMA StepRequests ==
  ASSUME Requests, NEW s \in Slot, NEW name, NEW n \in Nat, StepTo(s, name, n), up' = up
  PROVE  /\ Requests'
         /\ Busy(s) /\ req[s].todo[1] = name
         /\ \A t \in Slot \ {s} : req'[t] = req[t]
         /\ Busy(s)' => /\ Len(req[s].todo) > 1 /\ req'[s].todo = Tail(req[s].todo)
                        /\ req'[s].at = req[s].at /\ req'[s].eid = n
<1>1. Busy(s) /\ req[s].todo[1] = name /\ GoesOn(s, Tail(req[s].todo), n)
  BY BusyRequest DEF StepTo, IsAt
<1>2. Shape(Tail(req[s].todo)) /\ (Tail(req[s].todo) # <<>> => Len(req[s].todo) > 1)
  BY <1>1, BusyRequest, TailOf
<1> QED BY <1>1, <1>2, GoesOnRequests

\* Whoever changes the entries of one replica only has to answer for that one.
LEMMA StepKeeps ==
  ASSUME IInv, NEW s \in Slot, NEW i \in Replica, Works(s, i), Requests',
         \A t \in Slot \ {s} : req'[t] = req[t],
         Busy(s)' => req'[s].at = i,
         up' = up, crowded' = crowded,
         \A j \in Replica \ {i} : entries'[j] = entries[j] /\ taskEntry'[j] = taskEntry[j],
         i \notin crowded => IF Busy(s)' THEN Stage(s, i)' ELSE Known(i)'
  PROVE  Down' /\ Single' /\ Settled' /\ Working'
<1>1. i \in up /\ up \subseteq Replica
  BY DEF IInv, Requests, Columns, Works
<1>2. \A t \in Slot, j \in Replica : Works(t, j)' => Works(t, j)
  BY DEF Works, Busy
<1>3. \A t \in Slot \ {s}, j \in Replica : Works(t, j) => Works(t, j)'
  BY DEF Works, Busy
<1>4. \A j \in Replica \ {i} : Known(j) => Known(j)'
  BY DEF Known
<1>5. Down'
  BY <1>1 DEF IInv, Down
<1>6. Single'
  BY <1>1, <1>2 DEF IInv, Single
<1>7. Settled'
  <2> SUFFICES ASSUME NEW j \in up \ crowded, \A t \in Slot : ~Works(t, j)'
               PROVE  Known(j)'
    BY DEF Settled
  <2>1. CASE j = i
    BY <2>1 DEF Works
  <2>2. CASE j # i
    <3>1. ~Works(s, j)
      BY <2>2 DEF Works
    <3>2. Known(j)
      BY <1>1, <1>3, <3>1 DEF IInv, Settled
    <3> QED BY <1>1, <1>4, <2>2, <3>2
  <2> QED BY <2>1, <2>2
<1>8. Working'
  <2> SUFFICES ASSUME NEW j \in up \ crowded, NEW t \in Slot, Works(t, j)'
               PROVE  Stage(t, j)'
    BY DEF Working
  <2>1. CASE t = s
    BY <2>1, <1>1 DEF Works
  <2>2. CASE t # s
    <3>1. Works(t, j) /\ Stage(t, j)
      BY <1>1, <1>2 DEF IInv, Working
    <3>2. j # i
      BY <1>1, <2>2, <3>1 DEF IInv, Single
    <3>3. entries'[j] = entries[j] /\ taskEntry'[j] = taskEntry[j] /\ req'[t] = req[t]
      BY <1>1, <2>2, <3>2
    <3> QED BY <3>1, <3>3 DEF Stage, Known
  <2> QED BY <2>1, <2>2
<1> QED BY <1>5, <1>6, <1>7, <1>8

\* Before and after a statement the entries are the known one.
LEMMA QuietStage ==
  ASSUME NEW T, NEW m, NEW n, NEW E, NEW k, Shape(T), Len(T) > 0, AtStage(T, m, n, E),
         T[1] \notin {"load", "remove", "forget", "add", "store"}
  PROVE  KnownAs(n, E) /\ (Len(T) > 1 => AtStage(Tail(T), k, n, E))
  BY TailShape DEF AtStage

\* A statement, or a request given up at one.
LEMMA QuietStep ==
  ASSUME IInv, NEW s \in Slot, Busy(s),
         req[s].todo[1] \notin {"load", "remove", "forget", "add", "store"},
         GoesOn(s, Tail(req[s].todo), NoEntry) \/ GoesOn(s, <<>>, NoEntry),
         UNCHANGED <<up, crowded, entries, taskEntry>>
  PROVE  Requests' /\ Down' /\ Single' /\ Settled' /\ Working'
<1> DEFINE T == req[s].todo
<1>1. req[s].at \in up /\ req[s].at \in Replica /\ Shape(T) /\ Len(T) > 0
  BY BusyRequest DEF IInv, Columns
<1>2. /\ Shape(<<>>) /\ Shape(Tail(T)) /\ NoEntry \in Nat
      /\ Tail(T) # <<>> => Len(T) > 1
  BY <1>1, TailOf DEF Shape, NoEntry
<1>3. /\ Requests'
      /\ \A t \in Slot \ {s} : req'[t] = req[t]
      /\ Busy(s)' => Len(T) > 1 /\ req'[s].todo = Tail(T) /\ req'[s].at = req[s].at
  <2>1. CASE GoesOn(s, Tail(T), NoEntry)
    BY <1>2, <2>1, GoesOnRequests DEF IInv
  <2>2. CASE GoesOn(s, <<>>, NoEntry)
    BY <1>2, <2>2, GoesOnRequests DEF IInv
  <2> QED BY <2>1, <2>2
<1> PICK i \in Replica : i = req[s].at
  BY <1>1
<1>4. ASSUME i \notin crowded
      PROVE  IF Busy(s)' THEN Stage(s, i)' ELSE Known(i)'
  <2>1. Stage(s, i)
    BY <1>1, <1>4 DEF IInv, Working, Works
  <2>2. AtStage(T, req[s].eid, taskEntry[i], entries[i])
    BY <2>1 DEF Stage
  <2>3. /\ KnownAs(taskEntry[i], entries[i])
        /\ Len(T) > 1 => AtStage(Tail(T), req'[s].eid, taskEntry[i], entries[i])
    BY <1>1, <2>2, QuietStage
  <2> HIDE DEF T
  <2> QED BY <1>3, <2>3 DEF Stage, Known
<1>5. Works(s, i)
  BY DEF Works
<1>6. \A j \in Replica : entries'[j] = entries[j] /\ taskEntry'[j] = taskEntry[j]
  OBVIOUS
<1> QED BY <1>3, <1>4, <1>5, <1>6, StepKeeps

\* Only running replicas are informed.
LEMMA InformsUp ==
  ASSUME Columns, Requests, NEW s \in Slot, Busy(s), Informs(s)
  PROVE  informed' \subseteq up
  BY BusyRequest DEF Columns, Informs

\* The statements keep the invariant.
LEMMA StatementKeeps ==
  ASSUME IInv, NEW s \in Slot, Statement(s)
  PROVE  IInv'
<1> DEFINE quiet == {"insert", "update", "setEnabled", "setEnabledBatch", "delete", "clearNext", "refresh"}
<1>1. Columns /\ Scheduler /\ Requests /\ Unborn
  BY DEF IInv
<1>2. /\ UNCHANGED <<up, entries, taskEntry, handed, crowded>>
      /\ Busy(s) /\ Head(req[s].todo) \in quiet
      /\ GoesOn(s, Tail(req[s].todo), NoEntry) \/ GoesOn(s, <<>>, NoEntry)
  BY DEF Statement, Insert, Update, SetEnabled, SetEnabledBatch, Delete, Abort, ClearNext,
         RefreshNextRun, SetNextRun, Step, StepTo, IsAt, GoesOn, schedVars
<1>3. req[s].todo[1] \in quiet /\ req[s].want \in Config
  BY <1>1, <1>2, BusyRequest
<1>4. Requests' /\ Down' /\ Single' /\ Settled' /\ Working'
  BY <1>2, <1>3, QuietStep
<1>5. Scheduler'
  BY <1>1, <1>2 DEF Scheduler
<1>6. ASSUME stored' = "absent"
      PROVE  stored = "absent" /\ req' = [req EXCEPT ![s] = Idle]
  <2>1. CASE Abort(s)
    BY <1>6, <2>1 DEF Abort, rowVars
  <2>2. CASE ~Abort(s)
    <3>1. stored = "absent" /\ Head(req[s].todo) # "insert"
      BY <1>6, <2>2
         DEF Statement, Insert, Update, SetEnabled, SetEnabledBatch, Delete, ClearNext,
             RefreshNextRun, SetNextRun, Step, StepTo, IsAt
    <3> QED BY <1>1, <1>2, <3>1, BusyRequest DEF Unborn
  <2> QED BY <2>1, <2>2
<1>7. Unborn'
  BY <1>1, <1>2, <1>6, IdleRequest DEF Unborn, Busy, Requests
<1>8. Columns'
  <2>1. CASE Insert(s) \/ Update(s)
    BY <1>1, <1>2, <1>3, <2>1, InformsUp DEF Columns, Insert, Update
  <2>2. CASE SetEnabled(s) \/ SetEnabledBatch(s)
    <3>1. [task EXCEPT !.enabled = req[s].want.enabled] \in Config
      BY <1>1, <1>3 DEF Columns, Config
    <3> QED BY <1>1, <1>2, <2>2, <3>1, InformsUp DEF Columns, SetEnabled, SetEnabledBatch
  <2>3. CASE Delete(s)
    BY <1>1, <1>2, <2>3, InformsUp DEF Columns, Delete
  <2>4. CASE ClearNext(s) \/ RefreshNextRun(s)
    <3>1. req[s].want.expr \in Expr
      BY <1>3 DEF Config
    <3>2. next' \in (Expr \ Spent) \cup {Nil}
      BY <1>1, <2>4, <3>1 DEF Columns, ClearNext, RefreshNextRun, SetNextRun, NextRun
    <3>3. failures' \in 0 .. MaxFailures
      <4>1. failures' = failures \/ Fails
        BY <2>4 DEF ClearNext, RefreshNextRun, SetNextRun
      <4> QED BY <1>1, <4>1, ScheduleAssumption DEF Columns, Fails
    <3>4. events' \subseteq Event
      BY <1>1, <2>4 DEF Columns, ClearNext, RefreshNextRun, SetNextRun, Noted, Event
    <3> QED BY <1>1, <2>4, <3>2, <3>3, <3>4 DEF Columns, ClearNext, RefreshNextRun, SetNextRun
  <2>5. CASE Abort(s)
    BY <1>1, <2>5, ScheduleAssumption DEF Columns, Abort, rowVars, Fails, Event
  <2> QED BY <2>1, <2>2, <2>3, <2>4, <2>5 DEF Statement
<1> QED BY <1>4, <1>5, <1>7, <1>8 DEF IInv

-----------------------------------------------------------------------------
(* The scheduler's steps.                                                  *)

\* Load finds the known id, or there are no entries.
LEMMA LoadStage ==
  ASSUME NEW T, NEW m, NEW n, NEW E, Shape(T), Len(T) > 0, AtStage(T, m, n, E), T[1] = "load"
  PROVE  /\ KnownAs(n, E)
         /\ Len(T) > 1 => AtStage(Tail(T), n, n, E)
         /\ n = NoEntry /\ (\A e \in E : e.id # NoEntry) => E = {}
  BY TailShape DEF AtStage, KnownAs

\* Remove leaves nothing.
LEMMA RemoveStage ==
  ASSUME NEW T, NEW m, NEW n, NEW E, NEW k, Shape(T), Len(T) > 0, AtStage(T, m, n, E), T[1] = "remove"
  PROVE  /\ {e \in E : e.id # m} = {}
         /\ Len(T) > 1 => AtStage(Tail(T), k, n, {})
  BY TailShape DEF AtStage, KnownAs

\* Forget comes when nothing is left.
LEMMA ForgetStage ==
  ASSUME NEW T, NEW m, NEW n, NEW E, NEW k, Shape(T), Len(T) > 0, AtStage(T, m, n, E), T[1] = "forget"
  PROVE  E = {} /\ (Len(T) > 1 => AtStage(Tail(T), k, k, {}))
  BY TailShape DEF AtStage, KnownAs

\* Add is never the last step.
LEMMA AddTail ==
  ASSUME NEW T, Shape(T), Len(T) > 0, T[1] = "add"
  PROVE  Len(T) > 1 /\ Tail(T) # <<>>
<1>1. T \in Seq(Steps) /\ Len(T) \in Nat /\ 1 \in 1 .. Len(T)
  BY DEF Shape
<1>2. Len(T) >= 2
  BY <1>1 DEF Shape
<1>3. Len(T) > 1
  BY <1>1, <1>2
<1>4. Tail(T) # <<>>
  <2>1. T # <<>>
    BY <1>1
  <2>2. Len(Tail(T)) = Len(T) - 1
    BY <1>1, <2>1
  <2>3. Tail(T) = <<>> => Len(T) - 1 = 0
    BY <2>2
  <2> QED BY <1>1, <1>3, <2>3
<1> QED BY <1>3, <1>4

\* Add makes the only entry.
LEMMA AddStage ==
  ASSUME NEW T, NEW m, NEW n, NEW E, NEW e, Shape(T), Len(T) > 0, AtStage(T, m, n, E), T[1] = "add"
  PROVE  E = {} /\ AtStage(Tail(T), e.id, n, {e})
<1>1. E = {}
  BY AddBares DEF AtStage
<1>2. AtStage(Tail(T), e.id, n, {e})
  BY AddTail, TailShape DEF AtStage, KnownAs
<1> QED BY <1>1, <1>2

\* Store makes it the known one.
LEMMA StoreStage ==
  ASSUME NEW T, NEW m, NEW n, NEW E, NEW k, Shape(T), Len(T) > 0, AtStage(T, m, n, E), T[1] = "store"
  PROVE  KnownAs(m, E) /\ (Len(T) > 1 => AtStage(Tail(T), k, m, E))
  BY TailShape DEF AtStage, KnownAs

\* What a call has to show so that the invariant survives it.
LEMMA SchedulerStep ==
  ASSUME IInv, NEW s \in Slot, Busy(s), req[s].todo[1] # "insert",
         NEW U, Shape(U), NEW n \in Nat, GoesOn(s, U, n),
         NEW i \in Replica, i = req[s].at,
         UNCHANGED <<up, crowded, stored>>,
         \A j \in Replica \ {i} : entries'[j] = entries[j] /\ taskEntry'[j] = taskEntry[j],
         Stage(s, i) => IF U = <<>> THEN KnownAs(taskEntry'[i], entries'[i])
                        ELSE AtStage(U, n, taskEntry'[i], entries'[i])
  PROVE  Requests' /\ Down' /\ Unborn' /\ Single' /\ Settled' /\ Working'
<1>1. Works(s, i) /\ i \in up /\ Requests
  BY BusyRequest DEF Works, IInv
<1>2. /\ Requests'
      /\ \A t \in Slot \ {s} : req'[t] = req[t]
      /\ Busy(s)' <=> U # <<>>
      /\ Busy(s)' => req'[s].todo = U /\ req'[s].at = i /\ req'[s].eid = n
  BY <1>1, GoesOnRequests
<1>3. ASSUME i \notin crowded
      PROVE  IF Busy(s)' THEN Stage(s, i)' ELSE Known(i)'
  <2>1. Stage(s, i)
    BY <1>1, <1>3 DEF IInv, Working
  <2> QED BY <1>2, <2>1 DEF Stage, Known
<1>4. Down' /\ Single' /\ Settled' /\ Working'
  BY <1>1, <1>2, <1>3, StepKeeps
<1>5. Unborn'
  BY DEF IInv, Unborn
<1> QED BY <1>2, <1>4, <1>5

\* The scheduler calls keep the invariant.
LEMMA SchedulerCallKeeps ==
  ASSUME IInv, NEW s \in Slot, SchedulerCall(s)
  PROVE  IInv'
<1> DEFINE T == req[s].todo
<1>1. Columns /\ Scheduler /\ Requests
  BY DEF IInv
<1>2. /\ UNCHANGED <<rowVars, up, runs, histVars>>
      /\ Busy(s) /\ Head(T) \in {"load", "remove", "forget", "add", "store"}
  BY DEF SchedulerCall, Load, Remove, Forget, Add, Store, Step, StepTo, IsAt
<1>3. /\ req[s].at \in up /\ req[s].at \in Replica /\ Shape(T) /\ Len(T) > 0
      /\ T[1] = Head(T) /\ req[s].want \in Config /\ req[s].eid \in Nat
  BY <1>1, <1>2, BusyRequest DEF Columns, Request
<1> PICK i \in Replica : i = req[s].at
  BY <1>3
<1>4. Columns'
  BY <1>1, <1>2 DEF Columns, rowVars, histVars
<1>5. /\ taskEntry[i] \in Nat /\ handed[i] \in Nat /\ req[s].want.expr \in Expr
      /\ entries[i] \subseteq [id : Nat \ {NoEntry}, expr : Expr] /\ NoEntry \in Nat
  BY <1>1, <1>3 DEF Scheduler, Config, NoEntry
<1>6. /\ Shape(Tail(T)) /\ (Tail(T) # <<>> => Len(T) > 1)
      /\ T[1] # "insert" /\ UNCHANGED <<up, crowded, stored>>
  BY <1>2, <1>3, TailOf DEF rowVars, histVars
<1>7. Stage(s, i) <=> AtStage(T, req[s].eid, taskEntry[i], entries[i])
  BY DEF Stage
<1> DEFINE Rest == Requests' /\ Down' /\ Unborn' /\ Single' /\ Settled' /\ Working'
<1> HIDE DEF T
<1>8. ASSUME Load(s) PROVE Scheduler' /\ Rest
  <2>1. UNCHANGED <<entries, taskEntry, handed>> /\ T[1] = "load"
    BY <1>3, <1>8 DEF Load, schedVars, IsAt, T
  <2>2. Scheduler'
    BY <1>1, <2>1 DEF Scheduler
  <2>3. ASSUME taskEntry[i] # NoEntry PROVE Rest
    <3>1. GoesOn(s, Tail(T), taskEntry[i])
      BY <1>8, <2>3 DEF Load, T
    <3>2. ASSUME Stage(s, i)
          PROVE  /\ KnownAs(taskEntry[i], entries[i])
                 /\ Tail(T) # <<>> => AtStage(Tail(T), taskEntry[i], taskEntry[i], entries[i])
      BY <1>3, <1>6, <1>7, <2>1, <3>2, LoadStage
    <3> QED BY <1>2, <1>5, <1>6, <2>1, <3>1, <3>2, SchedulerStep DEF T
  <2>4. ASSUME taskEntry[i] = NoEntry PROVE Rest
    <3> DEFINE U == SubSeq(T, 4, Len(T))
    <3>1. GoesOn(s, U, taskEntry[i])
      BY <1>8, <2>4 DEF Load, T
    <3>2. Shape(U) /\ (U # <<>> => Fresh(U))
      BY <1>3, <2>1, SkipsTo
    <3>3. ASSUME Stage(s, i)
          PROVE  entries[i] = {}
      <4>1. \A e \in entries[i] : e.id # NoEntry
        BY <1>5
      <4> QED BY <1>3, <1>7, <2>1, <2>4, <3>3, <4>1, LoadStage
    <3>4. ASSUME Stage(s, i)
          PROVE  /\ KnownAs(taskEntry[i], entries[i])
                 /\ U # <<>> => AtStage(U, taskEntry[i], taskEntry[i], entries[i])
      BY <3>2, <3>3, <3>4 DEF AtStage, KnownAs, Fresh
    <3> HIDE DEF U
    <3> QED BY <1>2, <1>5, <1>6, <2>1, <3>1, <3>2, <3>4, SchedulerStep DEF T
  <2> QED BY <2>2, <2>3, <2>4
<1>9. ASSUME Remove(s) PROVE Scheduler' /\ Rest
  <2>0. GoesOn(s, Tail(T), NoEntry)
    BY <1>9 DEF Remove, Step, StepTo, T
  <2>1. /\ T[1] = "remove"
        /\ entries' = [entries EXCEPT ![i] = {e \in entries[i] : e.id # req[s].eid}]
        /\ UNCHANGED <<taskEntry, handed>>
    BY <1>3, <1>9 DEF Remove, Step, StepTo, IsAt, T
  <2>2. /\ \A j \in Replica \ {i} : entries'[j] = entries[j] /\ taskEntry'[j] = taskEntry[j]
        /\ entries'[i] = {e \in entries[i] : e.id # req[s].eid}
    BY <1>1, <2>1 DEF Scheduler
  <2>3. Scheduler'
    BY <1>1, <2>1 DEF Scheduler
  <2>4. ASSUME Stage(s, i)
        PROVE  IF Tail(T) = <<>> THEN KnownAs(taskEntry'[i], entries'[i])
               ELSE AtStage(Tail(T), NoEntry, taskEntry'[i], entries'[i])
    <3>1. entries'[i] = {} /\ (Len(T) > 1 => AtStage(Tail(T), NoEntry, taskEntry[i], {}))
      BY <1>3, <1>7, <2>1, <2>2, <2>4, RemoveStage
    <3>2. taskEntry'[i] = taskEntry[i] /\ KnownAs(taskEntry[i], {})
      BY <2>1 DEF KnownAs
    <3> QED BY <1>6, <3>1, <3>2
  <2>5. Rest
    BY <1>2, <1>5, <1>6, <2>0, <2>2, <2>4, SchedulerStep DEF T
  <2> QED BY <2>3, <2>5
<1>10. ASSUME Forget(s) PROVE Scheduler' /\ Rest
  <2>1. /\ T[1] = "forget" /\ GoesOn(s, Tail(T), NoEntry)
        /\ taskEntry' = [taskEntry EXCEPT ![i] = NoEntry]
        /\ UNCHANGED <<entries, handed>>
    BY <1>3, <1>10 DEF Forget, Step, StepTo, IsAt, T
  <2>2. /\ \A j \in Replica \ {i} : entries'[j] = entries[j] /\ taskEntry'[j] = taskEntry[j]
        /\ taskEntry'[i] = NoEntry
    BY <1>1, <2>1 DEF Scheduler
  <2>3. Scheduler'
    BY <1>1, <1>5, <2>1 DEF Scheduler
  <2>4. ASSUME Stage(s, i)
        PROVE  IF Tail(T) = <<>> THEN KnownAs(taskEntry'[i], entries'[i])
               ELSE AtStage(Tail(T), NoEntry, taskEntry'[i], entries'[i])
    <3>1. entries[i] = {} /\ (Len(T) > 1 => AtStage(Tail(T), NoEntry, NoEntry, {}))
      BY <1>3, <1>7, <2>1, <2>4, ForgetStage
    <3>2. entries'[i] = entries[i] /\ KnownAs(NoEntry, {})
      BY <2>1 DEF KnownAs
    <3> QED BY <1>6, <2>2, <3>1, <3>2
  <2>5. Rest
    BY <1>2, <1>5, <1>6, <2>1, <2>2, <2>4, SchedulerStep DEF T
  <2> QED BY <2>3, <2>5
<1>11. ASSUME Add(s) PROVE Scheduler' /\ Rest
  <2> DEFINE n == handed[i] + 1
             e == [id |-> n, expr |-> req[s].want.expr]
  <2>1. /\ T[1] = "add" /\ GoesOn(s, Tail(T), n)
        /\ handed' = [handed EXCEPT ![i] = n]
        /\ entries' = [entries EXCEPT ![i] = entries[i] \cup {e}]
        /\ UNCHANGED taskEntry
    BY <1>3, <1>11 DEF Add, StepTo, IsAt, T
  <2>2. n \in Nat /\ e \in [id : Nat \ {NoEntry}, expr : Expr] /\ e.id = n
    BY <1>5 DEF NoEntry
  <2> HIDE DEF n, e
  <2>3. /\ \A j \in Replica \ {i} : entries'[j] = entries[j] /\ taskEntry'[j] = taskEntry[j]
        /\ entries'[i] = entries[i] \cup {e}
    BY <1>1, <2>1 DEF Scheduler
  <2>4. Scheduler'
    BY <1>1, <2>1, <2>2 DEF Scheduler
  <2>5. Tail(T) # <<>>
    BY <1>3, <2>1, AddTail
  <2>6. ASSUME Stage(s, i)
        PROVE  AtStage(Tail(T), n, taskEntry'[i], entries'[i])
    <3>1. entries[i] = {} /\ AtStage(Tail(T), n, taskEntry[i], {e})
      BY <1>3, <1>7, <2>1, <2>2, <2>6, AddStage
    <3>2. entries'[i] = {e} /\ taskEntry'[i] = taskEntry[i]
      BY <2>1, <2>3, <3>1
    <3> QED BY <3>1, <3>2
  <2>7. Rest
    BY <1>2, <1>5, <1>6, <2>1, <2>2, <2>3, <2>5, <2>6, SchedulerStep DEF T
  <2> QED BY <2>4, <2>7
<1>12. ASSUME Store(s) PROVE Scheduler' /\ Rest
  <2>1. /\ T[1] = "store" /\ GoesOn(s, Tail(T), NoEntry)
        /\ taskEntry' = [taskEntry EXCEPT ![i] = req[s].eid]
        /\ UNCHANGED <<entries, handed>>
    BY <1>3, <1>12 DEF Store, Step, StepTo, IsAt, T
  <2>2. /\ \A j \in Replica \ {i} : entries'[j] = entries[j] /\ taskEntry'[j] = taskEntry[j]
        /\ taskEntry'[i] = req[s].eid
    BY <1>1, <2>1 DEF Scheduler
  <2>3. Scheduler'
    BY <1>1, <1>3, <2>1 DEF Scheduler
  <2>4. ASSUME Stage(s, i)
        PROVE  IF Tail(T) = <<>> THEN KnownAs(taskEntry'[i], entries'[i])
               ELSE AtStage(Tail(T), NoEntry, taskEntry'[i], entries'[i])
    <3>1. /\ KnownAs(req[s].eid, entries[i])
          /\ Len(T) > 1 => AtStage(Tail(T), NoEntry, req[s].eid, entries[i])
      BY <1>3, <1>7, <2>1, <2>4, StoreStage
    <3>2. entries'[i] = entries[i]
      BY <2>1
    <3> QED BY <1>6, <2>2, <3>1, <3>2
  <2>5. Rest
    BY <1>2, <1>5, <1>6, <2>1, <2>2, <2>4, SchedulerStep DEF T
  <2> QED BY <2>3, <2>5
<1> QED BY <1>4, <1>8, <1>9, <1>10, <1>11, <1>12 DEF SchedulerCall, IInv

-----------------------------------------------------------------------------
(* Requests begin, replicas start and die, runs write the columns.         *)

\* All plans together.
LEMMA PlanShape ==
  ASSUME Columns, NEW op \in Asking, NEW w \in Asked(op)
  PROVE  /\ w \in Config /\ Fresh(Plan(op, w))
         /\ IF op = "create" THEN Plan(op, w)[1] = "insert" ELSE ~Bare(Plan(op, w))
<1>1. CASE op = "create"
  BY <1>1, CreateInserts DEF Asked, Plan, Inserts
<1>2. CASE op = "update"
  BY <1>2, UpdateSafe DEF Asked, Plan, Safe
<1>3. CASE op \in {"toggle", "batchToggle"}
  <2>1. w \in Config /\ w.kind = task.kind /\ w.enabled \in BOOLEAN
    BY <1>3 DEF Asked, Columns, Config
  <2> QED BY <1>3, <2>1, ToggleSafe, BatchToggleSafe DEF Plan, Safe
<1>4. CASE op = "delete"
  BY <1>4, DeleteSafe DEF Asked, Plan, Columns, Safe
<1> QED BY <1>1, <1>2, <1>3, <1>4 DEF Asking

\* A slot is taken, by a request or by a starting process.
LEMMA TakesRequest ==
  ASSUME IInv, NEW s \in Slot, ~Busy(s), NEW i \in Replica, NEW r \in Request,
         r.at = i, r.want \in Config, Fresh(r.todo), Bare(r.todo) => entries[i] = {},
         req' = [req EXCEPT ![s] = r], up' = up \cup {i},
         crowded \subseteq crowded', (\E t \in Slot : Works(t, i)) => i \in crowded',
         UNCHANGED <<entries, taskEntry>>
  PROVE  Requests' /\ Down' /\ Single' /\ Settled' /\ Working'
<1>1. /\ \A t \in Slot \ {s} : req'[t] = req[t]
      /\ req'[s] = r /\ req' \in [Slot -> Request]
  BY DEF IInv, Requests
<1>2. r.todo # <<>> /\ Shape(r.todo) /\ Works(s, i)' /\ Busy(s)'
  BY <1>1 DEF Fresh, Works, Busy
<1>3. \A t \in Slot \ {s}, j \in Replica : (Works(t, j) <=> Works(t, j)') /\ (Works(t, j) => j \in up)
  BY <1>1 DEF Works, Busy, IInv, Requests
<1>4. \A j \in Replica : ~Works(s, j)
  BY DEF Works
<1>5. up \subseteq Replica
  BY DEF IInv, Columns
<1>6. Requests'
  <2>1. ASSUME NEW t \in Slot
        PROVE  IF Busy(t)' THEN req'[t].at \in up' /\ req'[t].want \in Config /\ Shape(req'[t].todo)
               ELSE req'[t] = Idle
    <3>1. CASE t = s
      BY <1>1, <1>2, <3>1
    <3>2. CASE t # s
      BY <1>1, <3>2 DEF IInv, Requests, Busy
    <3> QED BY <3>1, <3>2
  <2> QED BY <1>1, <2>1 DEF Requests, Busy
<1>7. Down'
  BY DEF IInv, Down
<1>8. Single'
  <2> SUFFICES ASSUME NEW j \in up' \ crowded', NEW t \in Slot, NEW u \in Slot,
                      Works(t, j)', Works(u, j)'
               PROVE  t = u
    BY DEF Single
  <2>1. j = i => t = s /\ u = s
    BY <1>3
  <2>2. j # i => t # s /\ u # s
    BY <1>1 DEF Works
  <2>3. j # i => t = u
    BY <1>3, <1>5, <2>2 DEF IInv, Single
  <2> QED BY <2>1, <2>3
<1>9. Settled'
  <2> SUFFICES ASSUME NEW j \in up' \ crowded', \A t \in Slot : ~Works(t, j)'
               PROVE  Known(j)'
    BY DEF Settled
  <2>1. j # i /\ j \in up \ crowded
    BY <1>2
  <2>2. Known(j)
    BY <1>3, <1>4, <1>5, <2>1 DEF IInv, Settled
  <2> QED BY <2>2 DEF Known
<1>10. Working'
  <2> SUFFICES ASSUME NEW j \in up' \ crowded', NEW t \in Slot, Works(t, j)'
               PROVE  Stage(t, j)'
    BY DEF Working
  <2>1. CASE t = s
    <3>1. j = i
      BY <1>1, <2>1 DEF Works
    <3>2. \A u \in Slot : ~Works(u, i)
      BY <3>1
    <3>3. Known(i)
      BY <3>1, <3>2 DEF IInv, Settled, Down, Known, KnownAs
    <3>4. AtStage(r.todo, r.eid, taskEntry[i], entries[i])
      BY <3>3 DEF Fresh, AtStage, Known
    <3> QED BY <1>1, <2>1, <3>1, <3>4 DEF Stage
  <2>2. CASE t # s
    <3>1. Works(t, j) /\ j \in up \ crowded
      BY <1>3, <1>5, <2>2
    <3>2. Stage(t, j)
      BY <3>1 DEF IInv, Working
    <3> QED BY <1>1, <2>2, <3>2 DEF Stage
  <2> QED BY <2>1, <2>2
<1> QED BY <1>6, <1>7, <1>8, <1>9, <1>10

\* A request begins.
LEMMA BeginKeeps ==
  ASSUME IInv, NEW s \in Slot, NEW i \in Replica, NEW op \in Asking,
         NEW w \in Asked(op), Begin(s, i, op, w)
  PROVE  IInv'
<1> DEFINE r == [op |-> op, todo |-> Plan(op, w), at |-> i, want |-> w, eid |-> NoEntry]
<1>1. /\ Columns /\ Scheduler /\ Requests
      /\ UNCHANGED <<stored, task, next, up, entries, taskEntry, handed, runs, informed, failures>>
      /\ ~Busy(s) /\ req' = [req EXCEPT ![s] = r] /\ i \in up
  BY DEF IInv, Begin, rowVars, schedVars
<1>2. /\ w \in Config /\ Fresh(Plan(op, w))
      /\ IF op = "create" THEN Plan(op, w)[1] = "insert" ELSE ~Bare(Plan(op, w))
  BY <1>1, PlanShape
<1>3. /\ r \in Request /\ r.at = i /\ r.want = w /\ r.todo = Plan(op, w) /\ r.eid = NoEntry
  BY <1>2 DEF Request, NoEntry, Fresh, Shape
<1> HIDE DEF r
<1>4. Bare(r.todo) => entries[i] = {}
  BY <1>2, <1>3 DEF Begin, IInv, Unborn
<1>5. /\ crowded \subseteq crowded' /\ up' = up \cup {i}
      /\ (\E t \in Slot : Works(t, i)) => i \in crowded'
      /\ crowded' \subseteq crowded \cup {i}
  BY <1>1 DEF Begin, Works
<1>6. Requests' /\ Down' /\ Single' /\ Settled' /\ Working'
  BY <1>1, <1>2, <1>3, <1>4, <1>5, TakesRequest
<1>7. Scheduler'
  BY <1>1 DEF Scheduler
<1>8. Unborn'
  <2>1. ASSUME stored = "absent", NEW t \in Slot, Busy(t)'
        PROVE  req'[t].todo[1] = "insert"
    <3>1. CASE t = s
      BY <1>1, <1>2, <1>3, <2>1, <3>1 DEF Begin, Requests
    <3>2. CASE t # s
      BY <1>1, <2>1, <3>2 DEF IInv, Unborn, Requests, Busy
    <3> QED BY <3>1, <3>2
  <2> QED BY <1>1, <2>1 DEF IInv, Unborn
<1>9. Columns'
  <2>1. requests' \in 0 .. MaxRequests
    BY <1>1, ScheduleAssumption DEF Begin, Columns
  <2>2. events' \subseteq Event
    BY <1>1 DEF Begin, Columns, Event
  <2> QED BY <1>1, <1>5, <2>1, <2>2 DEF Columns
<1> QED BY <1>6, <1>7, <1>8, <1>9 DEF IInv

\* A process starts.
LEMMA BootKeeps ==
  ASSUME IInv, NEW s \in Slot, NEW i \in Replica, Boot(s, i)
  PROVE  IInv'
<1>1. /\ Columns /\ Scheduler /\ Requests /\ i \notin up /\ ~Busy(s) /\ up' = up \cup {i}
      /\ UNCHANGED <<stored, task, next, entries, taskEntry, handed, runs, crowded, requests, failures>>
      /\ entries[i] = {}
  BY DEF IInv, Boot, rowVars, schedVars, Down
<1>2. \A t \in Slot : ~Works(t, i)
  BY <1>1 DEF Works, Requests
<1>3. Columns'
  BY <1>1 DEF Boot, Columns, Noted, Event
<1>4. Scheduler'
  BY <1>1 DEF Scheduler
<1>5. CASE stored = "live" /\ Fires(task)
  <2>1. PICK refresh \in BOOLEAN :
          req' = [req EXCEPT ![s] = [op |-> "boot", todo |-> BootPlan(refresh),
                                     at |-> i, want |-> task, eid |-> NoEntry]]
    BY <1>5 DEF Boot, BootPlan
  <2> DEFINE r == [op |-> "boot", todo |-> BootPlan(refresh),
                   at |-> i, want |-> task, eid |-> NoEntry]
  <2>2. Fresh(r.todo)
    BY BootFresh
  <2>3. r \in Request /\ r.at = i /\ r.want \in Config
    BY <1>1, <2>2 DEF Request, NoEntry, Fresh, Shape, Columns
  <2>4. req' = [req EXCEPT ![s] = r]
    BY <2>1
  <2> HIDE DEF r
  <2>5. Requests' /\ Down' /\ Single' /\ Settled' /\ Working'
    BY <1>1, <1>2, <2>2, <2>3, <2>4, TakesRequest
  <2>6. Unborn'
    BY <1>1, <1>5 DEF Unborn
  <2> QED BY <1>3, <1>4, <2>5, <2>6 DEF IInv
<1>6. CASE ~(stored = "live" /\ Fires(task))
  <2>1. req' = req
    BY <1>6 DEF Boot
  <2>2. \A t \in Slot, j \in Replica :
          (Works(t, j)' <=> Works(t, j)) /\ (Stage(t, j)' <=> Stage(t, j)) /\ (Known(j)' <=> Known(j))
    BY <1>1, <2>1 DEF Works, Stage, Known, Busy
  <2>3. Known(i)
    BY <1>1 DEF Known, KnownAs
  <2>4. Requests'
    BY <1>1, <2>1 DEF Requests, Busy
  <2>5. Down' /\ Unborn'
    BY <1>1, <2>1 DEF IInv, Down, Unborn, Busy
  <2>6. Single'
    BY <1>1, <1>2, <2>2 DEF IInv, Single, Columns
  <2>7. Settled'
    <3> SUFFICES ASSUME NEW j \in up' \ crowded', \A t \in Slot : ~Works(t, j)'
                 PROVE  Known(j)'
      BY DEF Settled
    <3>1. j \in Replica /\ (j = i \/ j \in up \ crowded)
      BY <1>1 DEF Columns
    <3> QED BY <1>1, <2>1, <2>2, <2>3, <3>1 DEF IInv, Settled, Known
  <2>8. Working'
    BY <1>1, <1>2, <2>2 DEF IInv, Working, Columns
  <2> QED BY <1>3, <1>4, <2>4, <2>5, <2>6, <2>7, <2>8 DEF IInv
<1> QED BY <1>5, <1>6

\* A process dies.
LEMMA CrashKeeps ==
  ASSUME IInv, NEW i \in Replica, Crash(i)
  PROVE  IInv'
<1> DEFINE lost == {s \in Slot : Busy(s) /\ req[s].at = i}
<1>1. /\ Columns /\ Scheduler /\ Requests
      /\ up' = up \ {i} /\ crowded' = crowded \ {i} /\ i \in up
      /\ entries' = [entries EXCEPT ![i] = {}] /\ taskEntry' = [taskEntry EXCEPT ![i] = NoEntry]
      /\ handed' = [handed EXCEPT ![i] = 0]
      /\ req' = [s \in Slot |-> IF s \in lost THEN Idle ELSE req[s]]
      /\ UNCHANGED <<stored, task, next, runs, requests>>
  BY DEF IInv, Crash, rowVars
<1>2. /\ entries'[i] = {}
      /\ \A j \in Replica \ {i} : entries'[j] = entries[j] /\ taskEntry'[j] = taskEntry[j]
  BY <1>1 DEF Scheduler
<1>3. \A s \in Slot : /\ Busy(s)' <=> Busy(s) /\ req[s].at # i
                      /\ Busy(s)' => req'[s] = req[s]
                      /\ ~Busy(s)' => req'[s] = Idle
  BY <1>1, IdleRequest DEF Busy, Requests
<1>4. \A s \in Slot, j \in Replica : Works(s, j)' <=> Works(s, j) /\ j # i
  BY <1>3 DEF Works
<1>5. Columns'
  <2>1. failures' \in 0 .. MaxFailures
    BY <1>1, ScheduleAssumption DEF Crash, Columns
  <2>2. events' \subseteq Event /\ informed' \subseteq up'
    BY <1>1 DEF Crash, Columns, Noted, Event
  <2> QED BY <1>1, <2>1, <2>2 DEF Columns
<1>6. Scheduler'
  BY <1>1 DEF Scheduler, NoEntry
<1>7. Requests'
  <2>1. req' \in [Slot -> Request]
    BY <1>1, IdleRequest DEF Requests
  <2>2. \A s \in Slot : IF Busy(s)'
                        THEN req'[s].at \in up' /\ req'[s].want \in Config /\ Shape(req'[s].todo)
                        ELSE req'[s] = Idle
    BY <1>1, <1>3 DEF Requests
  <2> QED BY <2>1, <2>2 DEF Requests, Busy
<1> HIDE DEF lost
<1>8. Down'
  BY <1>1, <1>2 DEF IInv, Down
<1>9. Unborn'
  BY <1>1, <1>2, <1>3 DEF IInv, Unborn
<1>10. Single'
  BY <1>1, <1>4 DEF IInv, Single, Columns
<1>11. Settled'
  <2> SUFFICES ASSUME NEW j \in up' \ crowded', \A t \in Slot : ~Works(t, j)'
               PROVE  Known(j)'
    BY DEF Settled
  <2>1. j \in Replica \ {i} /\ j \in up \ crowded
    BY <1>1 DEF Columns
  <2>2. Known(j)
    BY <1>4, <2>1 DEF IInv, Settled
  <2> QED BY <1>2, <2>1, <2>2 DEF Known
<1>12. Working'
  <2> SUFFICES ASSUME NEW j \in up' \ crowded', NEW t \in Slot, Works(t, j)'
               PROVE  Stage(t, j)'
    BY DEF Working
  <2>1. j \in Replica \ {i} /\ j \in up \ crowded
    BY <1>1 DEF Columns
  <2>2. Stage(t, j) /\ req'[t] = req[t]
    BY <1>3, <1>4, <2>1 DEF IInv, Working, Works
  <2> QED BY <1>2, <2>1, <2>2 DEF Stage
<1> QED BY <1>5, <1>6, <1>7, <1>8, <1>9, <1>10, <1>11, <1>12 DEF IInv

\* A step that writes only the row and the history.
LEMMA ColumnsAlone ==
  ASSUME IInv, Columns', UNCHANGED <<stored, up, entries, taskEntry, handed, req, crowded>>
  PROVE  IInv'
<1>1. \A s \in Slot, j \in Replica :
        /\ Works(s, j)' <=> Works(s, j)
        /\ Stage(s, j)' <=> Stage(s, j)
        /\ Known(j)' <=> Known(j)
  BY DEF Works, Busy, Stage, Known
<1>2. up \subseteq Replica
  BY DEF IInv, Columns
<1>3. Scheduler' /\ Requests' /\ Down' /\ Unborn'
  BY DEF IInv, Scheduler, Requests, Down, Unborn, Busy
<1>4. Single' /\ Working'
  BY <1>1, <1>2 DEF IInv, Single, Working
<1>5. Settled'
  <2> SUFFICES ASSUME NEW j \in up \ crowded, \A s \in Slot : ~Works(s, j)'
               PROVE  Known(j)'
    BY DEF Settled
  <2>1. Known(j)
    BY <1>1, <1>2 DEF IInv, Settled
  <2> QED BY <2>1 DEF Known
<1> QED BY <1>3, <1>4, <1>5 DEF IInv

\* Enqueue and the update of the schedule columns are such steps.
LEMMA RunKeeps ==
  ASSUME IInv, Enqueue \/ \E e \in runs : UpdateSchedule(e)
  PROVE  IInv'
<1>1. UNCHANGED <<stored, up, entries, taskEntry, handed, req, crowded>>
  BY DEF Enqueue, UpdateSchedule, rowVars, schedVars, histVars
<1>2. Columns
  BY DEF IInv
<1>3. Columns'
  <2>1. CASE Enqueue
    BY <1>2, <2>1 DEF Columns, Enqueue, rowVars, Noted, Event, Config
  <2>2. CASE \E e \in runs : UpdateSchedule(e)
    BY <1>2, <2>2 DEF Columns, UpdateSchedule, histVars
  <2> QED BY <2>1, <2>2
<1> QED BY <1>1, <1>3, ColumnsAlone

\* Replicas that started with the stored row know their entries.
LEMMA InitIInv == Init => IInv
<1> SUFFICES ASSUME Init PROVE IInv
  OBVIOUS
<1>1. NoTask \in Config
  <2>1. (CHOOSE e \in Expr : TRUE) \in Expr
    BY ScheduleAssumption
  <2> QED BY <2>1 DEF NoTask, Config
<1>2. task \in Config /\ task.expr \in Expr
  BY <1>1 DEF Init, Config
<1>3. next \in (Expr \ Spent) \cup {Nil}
  BY <1>2 DEF Init, NextRun
<1>4. Columns
  BY <1>2, <1>3, ScheduleAssumption DEF Init, Columns
<1>5. Scheduler
  <2>1. handed \in [Replica -> Nat] /\ taskEntry = handed
    BY DEF Init
  <2>2. [id |-> 1, expr |-> task.expr] \in [id : Nat \ {NoEntry}, expr : Expr]
    BY <1>2 DEF NoEntry
  <2>3. entries \in [Replica -> SUBSET [id : Nat \ {NoEntry}, expr : Expr]]
    BY <2>2 DEF Init
  <2> QED BY <2>1, <2>3 DEF Scheduler
<1>6. \A s \in Slot : req[s] = Idle /\ ~Busy(s)
  BY IdleRequest DEF Init, Busy
<1>7. Requests
  BY <1>6, IdleRequest DEF Init, Requests
<1>8. Down /\ Unborn
  BY <1>6, <1>4 DEF Init, Down, Unborn, NoTask, Fires, Columns
<1>9. \A i \in Replica : Known(i)
  BY DEF Init, Known, KnownAs
<1>10. Single /\ Settled /\ Working
  BY <1>4, <1>6, <1>9 DEF Single, Settled, Working, Works, Columns
<1> QED BY <1>4, <1>5, <1>7, <1>8, <1>10 DEF IInv

\* Every step keeps the invariant.
LEMMA NextKeeps == IInv /\ [Next]_vars => IInv'
<1> SUFFICES ASSUME IInv, [Next]_vars PROVE IInv'
  OBVIOUS
<1>1. ASSUME NEW s \in Slot, NEW i \in Replica, NEW op \in Asking,
             NEW w \in Asked(op), Begin(s, i, op, w)
      PROVE  IInv'
  BY <1>1, BeginKeeps
<1>2. ASSUME NEW s \in Slot, NEW i \in Replica, Boot(s, i)
      PROVE  IInv'
  BY <1>2, BootKeeps
<1>3. ASSUME NEW s \in Slot, Statement(s) \/ SchedulerCall(s)
      PROVE  IInv'
  BY <1>3, StatementKeeps, SchedulerCallKeeps
<1>4. ASSUME Enqueue \/ \E e \in runs : UpdateSchedule(e)
      PROVE  IInv'
  BY <1>4, RunKeeps
<1>5. ASSUME NEW i \in Replica, Crash(i)
      PROVE  IInv'
  BY <1>5, CrashKeeps
<1>6. CASE UNCHANGED vars
  <2>1. UNCHANGED <<stored, up, entries, taskEntry, handed, req, crowded>>
    BY <1>6 DEF vars, rowVars, schedVars, histVars
  <2>2. Columns'
    BY <1>6 DEF IInv, Columns, vars, rowVars, histVars
  <2> QED BY <2>1, <2>2, ColumnsAlone
<1> QED BY <1>1, <1>2, <1>3, <1>4, <1>5, <1>6 DEF Next, Asking

-----------------------------------------------------------------------------

\* The invariant holds in every reachable state.
THEOREM ScheduleInvariant == Spec => []IInv
  BY InitIInv, NextKeeps, PTL DEF Spec

\* Every variable keeps its type; next_run_at is empty or computed from an
\* expression with a future planned time, whoever wrote it last.
THEOREM ScheduleTypeCorrect == Spec => []TypeOK
<1>1. IInv => TypeOK
  BY DEF IInv, Columns, Scheduler, Requests, TypeOK, Request
<1> QED BY <1>1, ScheduleInvariant, PTL

\* A replica that never worked on two requests for the task at once has no
\* entry besides the one it can remove, whatever other replicas, runs, crashes
\* and failing statements do.
THEOREM NothingLeaks == Spec => []NoLeak
<1>1. IInv => NoLeak
  <2> SUFFICES ASSUME IInv, NEW i \in up \ crowded, \A s \in Slot : req[s].at # i
               PROVE  \A e \in entries[i] : e.id = taskEntry[i]
    BY DEF NoLeak
  <2>1. Known(i)
    BY DEF IInv, Settled, Works
  <2> QED BY <2>1 DEF Known, KnownAs
<1> QED BY <1>1, ScheduleInvariant, PTL

-----------------------------------------------------------------------------
(* Requests that do not overlap: what is registered and shown in the end.   *)

\* The expressions of the entries E, and those the row asks for; what the row
\* asks next_run_at to be.
Exprs(E) == {e.expr : e \in E}
Planned == IF Scheduled THEN {task.expr} ELSE {}
Wanted  == IF Scheduled THEN NextRun(task.expr) ELSE Nil

\* The expressions that are registered once the steps R of a request for w are
\* done, where E is registered now, and those that the row asks for then.
RegisteredAfter(R, w, E) ==
  IF "add" \in R THEN {w.expr} ELSE IF R \cap {"load", "remove"} # {} THEN {} ELSE Exprs(E)
PlannedAfter(R, w) ==
  IF R \cap Writes = {} THEN Planned ELSE IF Fires(w) /\ "delete" \notin R THEN {w.expr} ELSE {}

\* The same for next_run_at.
NextAfter(R, w) ==
  IF "refresh" \in R THEN NextRun(w.expr) ELSE IF "clearNext" \in R THEN Nil ELSE next
WantedAfter(R, w) ==
  IF R \cap Writes = {} THEN Wanted ELSE IF Fires(w) THEN NextRun(w.expr) ELSE Nil

\* What a request has read, and its plan was made from, is still so.
UpToDate(T, w) ==
  LET R == Left(T) IN
  /\ Orderly(T)
  /\ "insert" \in R => stored = "absent"
  /\ R \cap (Writes \ {"insert"}) # {} => stored = "live"
  /\ R \cap {"setEnabled", "setEnabledBatch"} # {} => w = [task EXCEPT !.enabled = w.enabled]
  /\ "setEnabledBatch" \in R => "batch" \in events
  /\ "delete" \in R => w = task

\* There is one request or run at a time.
Alone ==
  /\ crowded = {}
  /\ \A s, t \in Slot : Busy(s) /\ Busy(t) => s = t
  /\ runs # {} => (\A s \in Slot : ~Busy(s)) /\ runs = {task.expr} /\ Scheduled
  /\ \A s \in Slot : Busy(s) => UpToDate(req[s].todo, req[s].want)

\* A replica that is informed, or will be when the request has written the row,
\* is on its way to what the row asks for; before the first write that may
\* fail it still has what the row asks for.
OnTheWay(R, w, i) ==
  /\ i \in informed \/ (R \cap Writes # {} /\ "cron" \in {task.kind, w.kind}) =>
       RegisteredAfter(R, w, entries[i]) = PlannedAfter(R, w)
  /\ R \cap {"insert", "update", "setEnabled"} # {} /\ i \in informed => Exprs(entries[i]) = Planned

\* The informed replicas have what the row asks for; the one at work will.
RegisteredInv ==
  /\ \A i \in informed : (\A s \in Slot : ~Works(s, i)) => Exprs(entries[i]) = Planned
  /\ \A s \in Slot : Busy(s) => OnTheWay(Left(req[s].todo), req[s].want, req[s].at)

\* next_run_at will be what the row asks for when the steps R are done; before
\* a first write it is.
Showing(R, w) ==
  stored # "deleted" =>
    /\ "delete" \notin R => NextAfter(R, w) = WantedAfter(R, w)
    /\ R \cap {"insert", "setEnabled", "delete"} # {} => next = Wanted

\* The same for the whole state.
ShownInv ==
  /\ (\A s \in Slot : ~Busy(s)) /\ stored # "deleted" => next = Wanted
  /\ \A s \in Slot : Busy(s) => Showing(Left(req[s].todo), req[s].want)

\* What holds as long as requests have not overlapped.
SInv ==
  "overlap" \notin events =>
    /\ Alone
    /\ "undone" \notin events => RegisteredInv
    /\ events \cap {"torn", "batch"} = {} => ShownInv

\* U is T without its first d steps.
Without(U, T, d) ==
  /\ Len(U) = Len(T) - d /\ Len(U) \in Nat
  /\ \A k \in 1 .. Len(U) : U[k] = T[k + d]

\* The steps left after some have been done.
LEMMA SuffixLeft ==
  ASSUME NEW T, Orderly(T), Len(T) \in Nat, NEW d \in Nat, NEW U, Without(U, T, d)
  PROVE  /\ Orderly(U) /\ Left(U) \subseteq Left(T)
         /\ \A k \in 1 .. d, b \in Left(U) : MayPrecede(T[k], b)
         /\ \A b \in Left(T) : b \in Left(U) \/ \E k \in 1 .. d : b = T[k]
<1>1. ASSUME NEW k \in 1 .. Len(U)
      PROVE  k + d \in 1 .. Len(T) /\ U[k] = T[k + d]
  BY <1>1 DEF Without
<1>2. Orderly(U)
  <2> SUFFICES ASSUME NEW k \in 1 .. Len(U), NEW j \in 1 .. k - 1
               PROVE  MayPrecede(U[j], U[k])
    BY DEF Orderly
  <2>1. j \in 1 .. Len(U) /\ j + d \in 1 .. (k + d) - 1
    OBVIOUS
  <2>2. k + d \in 1 .. Len(T) /\ U[k] = T[k + d] /\ U[j] = T[j + d]
    BY <1>1, <2>1
  <2> QED BY <2>1, <2>2 DEF Orderly
<1>3. Left(U) \subseteq Left(T)
  BY <1>1 DEF Left
<1>4. ASSUME NEW k \in 1 .. d, NEW b \in Left(U)
      PROVE  MayPrecede(T[k], b)
  <2>1. PICK m \in 1 .. Len(U) : b = U[m]
    BY DEF Left
  <2>2. m + d \in 1 .. Len(T) /\ b = T[m + d] /\ k \in 1 .. (m + d) - 1
    BY <1>1, <2>1
  <2> QED BY <2>2 DEF Orderly
<1>5. ASSUME NEW b \in Left(T)
      PROVE  b \in Left(U) \/ \E k \in 1 .. d : b = T[k]
  <2>1. PICK m \in 1 .. Len(T) : b = T[m]
    BY DEF Left
  <2>2. CASE m <= d
    BY <2>1, <2>2
  <2>3. CASE m > d
    <3>1. m - d \in 1 .. Len(U) /\ (m - d) + d = m
      BY <2>1, <2>3 DEF Without
    <3>2. U[m - d] = T[(m - d) + d]
      BY <3>1 DEF Without
    <3> QED BY <2>1, <3>1, <3>2 DEF Left
  <2> QED BY <2>1, <2>2, <2>3
<1> QED BY <1>2, <1>3, <1>4, <1>5

\* One step less.
LEMMA LeftTail ==
  ASSUME NEW T, Shape(T), Orderly(T), Len(T) > 0
  PROVE  /\ Orderly(Tail(T)) /\ Left(T) = {T[1]} \cup Left(Tail(T))
         /\ \A b \in Left(Tail(T)) : MayPrecede(T[1], b)
<1>1. /\ T \in Seq(Steps) /\ Len(T) \in Nat /\ 1 \in 1 .. Len(T)
      /\ Without(Tail(T), T, 1)
  BY DEF Shape, Without
<1>2. /\ Orderly(Tail(T)) /\ Left(Tail(T)) \subseteq Left(T)
      /\ \A k \in 1 .. 1, b \in Left(Tail(T)) : MayPrecede(T[k], b)
      /\ \A b \in Left(T) : b \in Left(Tail(T)) \/ \E k \in 1 .. 1 : b = T[k]
  BY <1>1, SuffixLeft
<1>3. T[1] \in Left(T)
  BY <1>1 DEF Left
<1> QED BY <1>2, <1>3

\* Three steps less, when there is nothing to remove.
LEMMA LeftSkip ==
  ASSUME NEW T, Shape(T), Orderly(T), Len(T) > 0, T[1] = "load", NEW U, U = SubSeq(T, 4, Len(T))
  PROVE  /\ Orderly(U) /\ Left(T) = {"load", "remove", "forget"} \cup Left(U)
         /\ \A b \in Left(U) : MayPrecede("load", b)
<1>1. T \in Seq(Steps) /\ Len(T) \in Nat /\ 1 \in 1 .. Len(T)
  BY DEF Shape
<1>2. 3 <= Len(T) /\ T[2] = "remove" /\ T[3] = "forget"
  BY <1>1 DEF Shape
<1>3. Without(U, T, 3)
  <2>1. CASE Len(T) = 3
    BY <1>1, <2>1 DEF Without
  <2>2. CASE Len(T) # 3
    <3> DEFINE n == Len(T)
    <3>1. n \in Nat /\ 3 <= n /\ n # 3
      BY <1>1, <1>2, <2>2
    <3> HIDE DEF n
    <3>2. n > 3
      BY <3>1
    <3>3. Len(T) > 3
      BY <3>2 DEF n
    <3> QED BY <1>1, <3>3 DEF Without
  <2> QED BY <2>1, <2>2
<1>4. /\ Orderly(U) /\ Left(U) \subseteq Left(T)
      /\ \A k \in 1 .. 3, b \in Left(U) : MayPrecede(T[k], b)
      /\ \A b \in Left(T) : b \in Left(U) \/ \E k \in 1 .. 3 : b = T[k]
  BY <1>1, <1>3, SuffixLeft
<1>5. {T[1], T[2], T[3]} \subseteq Left(T)
  BY <1>1, <1>2 DEF Left
<1> QED BY <1>2, <1>4, <1>5

\* What a step of the only request has to show.
LEMMA SerialStep ==
  ASSUME Requests, Alone, NEW s \in Slot, Busy(s),
         NEW i, i = req[s].at, NEW w, w = req[s].want,
         NEW U, Shape(U), NEW n \in Nat, GoesOn(s, U, n),
         UNCHANGED <<up, crowded, runs>>, UpToDate(U, w)'
  PROVE  /\ Alone'
         /\ /\ OnTheWay(Left(U), w, i)'
            /\ \A j \in informed' : j # i => Exprs(entries'[j]) = Planned'
            => RegisteredInv'
         /\ Showing(Left(U), w)' => ShownInv'
<1>1. /\ Requests'
      /\ \A t \in Slot \ {s} : req'[t] = req[t]
      /\ Busy(s)' <=> U # <<>>
      /\ Busy(s)' => req'[s].todo = U /\ req'[s].at = i /\ req'[s].want = w
  BY GoesOnRequests
<1>2. \A t \in Slot : t # s => ~Busy(t) /\ ~Busy(t)'
  BY <1>1 DEF Alone, Busy
<1>3. runs = {} /\ runs' = {}
  BY DEF Alone
<1>4. Left(<<>>) = {}
  BY DEF Left
<1>5. Alone'
  BY <1>1, <1>2, <1>3 DEF Alone
<1>6. ASSUME OnTheWay(Left(U), w, i)', \A j \in informed' : j # i => Exprs(entries'[j]) = Planned'
      PROVE  RegisteredInv'
  <2>1. CASE U = <<>>
    <3>1. i \in informed' => Exprs(entries'[i]) = Planned'
      BY <1>4, <1>6, <2>1 DEF OnTheWay, RegisteredAfter, PlannedAfter
    <3> QED BY <1>1, <1>2, <1>6, <2>1, <3>1 DEF RegisteredInv
  <2>2. CASE U # <<>>
    <3>1. Works(s, i)'
      BY <1>1, <2>2 DEF Works
    <3> QED BY <1>1, <1>2, <1>6, <2>2, <3>1 DEF RegisteredInv
  <2> QED BY <2>1, <2>2
<1>7. ASSUME Showing(Left(U), w)'
      PROVE  ShownInv'
  <2>1. CASE U = <<>>
    <3>1. stored' # "deleted" => next' = Wanted'
      BY <1>4, <1>7, <2>1 DEF Showing, NextAfter, WantedAfter
    <3> QED BY <1>1, <1>2, <2>1, <3>1 DEF ShownInv
  <2>2. CASE U # <<>>
    BY <1>1, <1>2, <1>7, <2>2 DEF ShownInv
  <2> QED BY <2>1, <2>2
<1> QED BY <1>5, <1>6, <1>7

\* What is known of the only request, and of the other replicas.
LEMMA SerialNow ==
  ASSUME Requests, Alone, NEW s \in Slot, Busy(s)
  PROVE  /\ UpToDate(req[s].todo, req[s].want)
         /\ Shape(req[s].todo) /\ Len(req[s].todo) > 0
         /\ RegisteredInv => /\ OnTheWay(Left(req[s].todo), req[s].want, req[s].at)
                             /\ \A j \in informed : j # req[s].at => Exprs(entries[j]) = Planned
         /\ ShownInv => Showing(Left(req[s].todo), req[s].want)
  BY BusyRequest DEF Alone, RegisteredInv, ShownInv, Works

\* Whom a request for w on the replica i leaves informed.
Informing(w, i) == informed' = IF "cron" \in {task.kind, w.kind} THEN {i} ELSE informed

\* A statement that writes the row as the request wants it.
LEMMA WriteSerial ==
  ASSUME NEW T, Shape(T), Len(T) > 0, NEW w, UpToDate(T, w), NEW i,
         T[1] \in {"insert", "update", "setEnabled", "setEnabledBatch"},
         stored' = "live", task' = w, UNCHANGED <<next, entries>>, events \subseteq events',
         Informing(w, i)
  PROVE  /\ UpToDate(Tail(T), w)'
         /\ OnTheWay(Left(T), w, i) => OnTheWay(Left(Tail(T)), w, i)'
         /\ (\A j \in informed : j # i => Exprs(entries[j]) = Planned)
              => \A j \in informed' : j # i => Exprs(entries'[j]) = Planned'
         /\ stored # "deleted" /\ Showing(Left(T), w) => Showing(Left(Tail(T)), w)'
<1> DEFINE R == Left(T)
           Q == Left(Tail(T))
<1>1. /\ Orderly(Tail(T)) /\ R = {T[1]} \cup Q /\ Q \cap Writes = {}
      /\ R \cap Writes # {} /\ "delete" \notin R
  <2>1. /\ Orderly(Tail(T)) /\ R = {T[1]} \cup Q
        /\ \A b \in Q : MayPrecede(T[1], b)
    BY LeftTail DEF UpToDate
  <2>2. Q \cap Writes = {}
    BY <2>1 DEF MayPrecede, Writes
  <2> QED BY <2>1, <2>2 DEF Writes
<1> HIDE DEF R, Q
<1>2. UpToDate(Tail(T), w)'
  BY <1>1 DEF UpToDate, Q, Writes
<1>3. /\ Planned' = IF Fires(w) THEN {w.expr} ELSE {}
      /\ Wanted' = IF Fires(w) THEN NextRun(w.expr) ELSE Nil
  BY DEF Planned, Wanted, Scheduled, Fires
<1>4. OnTheWay(R, w, i) => OnTheWay(Q, w, i)'
  BY <1>1, <1>3 DEF OnTheWay, RegisteredAfter, PlannedAfter, Writes, Informing
<1>5. "cron" \notin {task.kind, w.kind} => Planned = {} /\ Planned' = {}
  BY <1>3 DEF Planned, Scheduled, Fires
<1>6. stored # "deleted" /\ Showing(R, w) => Showing(Q, w)'
  BY <1>1, <1>3 DEF Showing, NextAfter, WantedAfter, Writes
<1>7. ASSUME \A j \in informed : j # i => Exprs(entries[j]) = Planned,
             NEW j \in informed', j # i
      PROVE  Exprs(entries'[j]) = Planned'
  BY <1>5, <1>7 DEF Informing
<1> QED BY <1>2, <1>4, <1>6, <1>7 DEF R, Q

\* The statement that deletes the row.
LEMMA DeleteSerial ==
  ASSUME NEW T, Shape(T), Len(T) > 0, NEW w, UpToDate(T, w), NEW i, T[1] = "delete",
         stored' = "deleted", UNCHANGED <<task, next, entries>>, events \subseteq events',
         Informing(w, i)
  PROVE  /\ UpToDate(Tail(T), w)'
         /\ OnTheWay(Left(T), w, i) => OnTheWay(Left(Tail(T)), w, i)'
         /\ (\A j \in informed : j # i => Exprs(entries[j]) = Planned)
              => \A j \in informed' : j # i => Exprs(entries'[j]) = Planned'
         /\ Showing(Left(Tail(T)), w)'
<1> DEFINE R == Left(T)
           Q == Left(Tail(T))
<1>1. Orderly(Tail(T)) /\ R = {"delete"} \cup Q /\ Q \cap Writes = {} /\ w = task
  <2>1. /\ Orderly(Tail(T)) /\ R = {T[1]} \cup Q
        /\ \A b \in Q : MayPrecede(T[1], b)
    BY LeftTail DEF UpToDate
  <2>2. Q \cap Writes = {}
    BY <2>1 DEF MayPrecede, Writes
  <2> QED BY <2>1, <2>2 DEF UpToDate
<1> HIDE DEF R, Q
<1>2. UpToDate(Tail(T), w)'
  BY <1>1 DEF UpToDate, Q, Writes
<1>3. Planned' = {}
  BY DEF Planned, Scheduled
<1>4. OnTheWay(R, w, i) => OnTheWay(Q, w, i)'
  BY <1>1, <1>3 DEF OnTheWay, RegisteredAfter, PlannedAfter, Writes, Informing
<1>5. "cron" \notin {task.kind, w.kind} => Planned = {}
  BY DEF Planned, Scheduled, Fires
<1>6. Showing(Q, w)'
  BY DEF Showing
<1>7. ASSUME \A j \in informed : j # i => Exprs(entries[j]) = Planned,
             NEW j \in informed', j # i
      PROVE  Exprs(entries'[j]) = Planned'
  BY <1>3, <1>5, <1>7 DEF Informing
<1> QED BY <1>2, <1>4, <1>6, <1>7 DEF R, Q

\* A statement that writes next_run_at, or fails.
LEMMA ColumnSerial ==
  ASSUME NEW T, Shape(T), Len(T) > 0, NEW w, UpToDate(T, w), NEW i,
         T[1] \in {"clearNext", "refresh"},
         UNCHANGED <<stored, task, entries, informed>>, events \subseteq events'
  PROVE  /\ UpToDate(Tail(T), w)'
         /\ OnTheWay(Left(T), w, i) => OnTheWay(Left(Tail(T)), w, i)'
         /\ (\A j \in informed : j # i => Exprs(entries[j]) = Planned)
              => \A j \in informed' : j # i => Exprs(entries'[j]) = Planned'
         /\ next' = (IF T[1] = "refresh" THEN NextRun(w.expr) ELSE Nil) /\ Showing(Left(T), w)
              => Showing(Left(Tail(T)), w)'
<1> DEFINE R == Left(T)
           Q == Left(Tail(T))
<1>1. /\ Orderly(Tail(T)) /\ R = {T[1]} \cup Q
      /\ \A b \in Q : MayPrecede(T[1], b)
  BY LeftTail DEF UpToDate
<1> HIDE DEF R, Q
<1>2. UpToDate(Tail(T), w)'
  <2>1. Q \subseteq R /\ UpToDate(T, w) /\ R = Left(T)
    BY <1>1 DEF R
  <2> QED BY <1>1, <2>1 DEF UpToDate, Q
<1>3. Planned' = Planned /\ Wanted' = Wanted
  BY DEF Planned, Wanted, Scheduled
<1>4. OnTheWay(R, w, i) => OnTheWay(Q, w, i)'
  BY <1>1, <1>3 DEF OnTheWay, RegisteredAfter, PlannedAfter, Writes
<1>5. ASSUME next' = (IF T[1] = "refresh" THEN NextRun(w.expr) ELSE Nil), Showing(R, w)
      PROVE  Showing(Q, w)'
  <2>1. R \cap Writes = {} <=> Q \cap Writes = {}
    BY <1>1 DEF Writes
  <2>2. "delete" \in R <=> "delete" \in Q
    BY <1>1
  <2>3. Q \cap {"insert", "setEnabled", "delete"} = {}
    BY <1>1 DEF MayPrecede
  <2>4. NextAfter(Q, w)' = NextAfter(R, w)
    <3>1. CASE T[1] = "refresh"
      <4>1. "refresh" \in R /\ "clearNext" \notin Q
        BY <1>1, <3>1 DEF MayPrecede
      <4> QED BY <1>5, <3>1, <4>1 DEF NextAfter
    <3>2. CASE T[1] = "clearNext"
      BY <1>1, <1>5, <3>2 DEF NextAfter
    <3> QED BY <3>1, <3>2
  <2>5. WantedAfter(Q, w)' = WantedAfter(R, w)
    BY <1>3, <2>1 DEF WantedAfter
  <2> QED BY <1>5, <2>2, <2>3, <2>4, <2>5 DEF Showing
<1> QED BY <1>2, <1>3, <1>4, <1>5 DEF R, Q

\* The statements of requests that do not overlap.
LEMMA StatementSerial ==
  ASSUME IInv, SInv, NEW s \in Slot, Statement(s)
  PROVE  SInv'
<1>1. /\ Columns /\ Requests /\ UNCHANGED <<up, crowded, runs, entries>>
      /\ events \subseteq events' /\ Busy(s)
  BY DEF IInv, Statement, Insert, Update, SetEnabled, SetEnabledBatch, Delete, Abort, ClearNext,
         RefreshNextRun, SetNextRun, Step, StepTo, IsAt, schedVars, Noted
<1> SUFFICES ASSUME "overlap" \notin events'
             PROVE  /\ Alone'
                    /\ "undone" \notin events' => RegisteredInv'
                    /\ events' \cap {"torn", "batch"} = {} => ShownInv'
  BY DEF SInv
<1>2. /\ Alone
      /\ "undone" \notin events' => RegisteredInv
      /\ events' \cap {"torn", "batch"} = {} => ShownInv
  BY <1>1 DEF SInv
<1> PICK T : T = req[s].todo
  OBVIOUS
<1> PICK w : w = req[s].want
  OBVIOUS
<1> PICK i : i = req[s].at
  OBVIOUS
<1>3. /\ UpToDate(T, w) /\ Shape(T) /\ Len(T) > 0 /\ T[1] = Head(T)
      /\ Shape(Tail(T)) /\ Shape(<<>>) /\ NoEntry \in Nat
      /\ RegisteredInv => /\ OnTheWay(Left(T), w, i)
                          /\ \A j \in informed : j # i => Exprs(entries[j]) = Planned
      /\ ShownInv => Showing(Left(T), w)
  BY <1>1, <1>2, SerialNow, BusyRequest, TailOf DEF Shape, NoEntry
<1>4. ASSUME GoesOn(s, Tail(T), NoEntry), UpToDate(Tail(T), w)',
             OnTheWay(Left(T), w, i) => OnTheWay(Left(Tail(T)), w, i)',
             (\A j \in informed : j # i => Exprs(entries[j]) = Planned)
               => \A j \in informed' : j # i => Exprs(entries'[j]) = Planned',
             events' \cap {"torn", "batch"} = {} /\ Showing(Left(T), w) => Showing(Left(Tail(T)), w)'
      PROVE  /\ Alone'
             /\ "undone" \notin events' => RegisteredInv'
             /\ events' \cap {"torn", "batch"} = {} => ShownInv'
  <2>1. /\ Alone'
        /\ /\ OnTheWay(Left(Tail(T)), w, i)'
           /\ \A j \in informed' : j # i => Exprs(entries'[j]) = Planned'
           => RegisteredInv'
        /\ Showing(Left(Tail(T)), w)' => ShownInv'
    BY <1>1, <1>2, <1>3, <1>4, SerialStep
  <2> QED BY <1>2, <1>3, <1>4, <2>1
<1>5. T[1] \in Left(T)
  BY <1>3, LeftTail DEF UpToDate
<1>6. CASE Insert(s) \/ Update(s) \/ SetEnabled(s) \/ SetEnabledBatch(s)
  <2>1. /\ GoesOn(s, Tail(T), NoEntry)
        /\ T[1] \in {"insert", "update", "setEnabled", "setEnabledBatch"}
        /\ next' = next /\ Informing(w, i)
    BY <1>3, <1>6 DEF Insert, Update, SetEnabled, SetEnabledBatch, Step, StepTo, IsAt, Informs, Informing
  <2>2. stored # "deleted" /\ stored' = "live" /\ task' = w
    <3>1. CASE Insert(s)
      BY <1>3, <1>5, <3>1 DEF Insert, Step, StepTo, IsAt, UpToDate
    <3>2. CASE Update(s)
      BY <1>3, <1>5, <3>2 DEF Update, Step, StepTo, IsAt, UpToDate, Writes
    <3>3. CASE SetEnabled(s)
      BY <1>3, <1>5, <3>3 DEF SetEnabled, Step, StepTo, IsAt, UpToDate, Writes
    <3>4. CASE SetEnabledBatch(s)
      BY <1>3, <1>5, <3>4 DEF SetEnabledBatch, Step, StepTo, IsAt, UpToDate, Writes
    <3> QED BY <1>6, <3>1, <3>2, <3>3, <3>4
  <2>3. /\ UpToDate(Tail(T), w)'
        /\ OnTheWay(Left(T), w, i) => OnTheWay(Left(Tail(T)), w, i)'
        /\ (\A j \in informed : j # i => Exprs(entries[j]) = Planned)
             => \A j \in informed' : j # i => Exprs(entries'[j]) = Planned'
        /\ stored # "deleted" /\ Showing(Left(T), w) => Showing(Left(Tail(T)), w)'
    BY <1>1, <1>3, <2>1, <2>2, WriteSerial
  <2> QED BY <1>4, <2>1, <2>2, <2>3
<1>7. CASE Delete(s)
  <2>1. /\ GoesOn(s, Tail(T), NoEntry) /\ T[1] = "delete" /\ stored' = "deleted"
        /\ UNCHANGED <<task, next>>
        /\ Informing(w, i)
    BY <1>3, <1>7 DEF Delete, Step, StepTo, IsAt, Informs, Informing
  <2>2. /\ UpToDate(Tail(T), w)'
        /\ OnTheWay(Left(T), w, i) => OnTheWay(Left(Tail(T)), w, i)'
        /\ (\A j \in informed : j # i => Exprs(entries[j]) = Planned)
             => \A j \in informed' : j # i => Exprs(entries'[j]) = Planned'
        /\ Showing(Left(Tail(T)), w)'
    BY <1>1, <1>3, <2>1, DeleteSerial
  <2> QED BY <1>4, <2>1, <2>2
<1>8. CASE ClearNext(s) \/ RefreshNextRun(s)
  <2>1. /\ GoesOn(s, Tail(T), NoEntry) /\ T[1] \in {"clearNext", "refresh"}
        /\ UNCHANGED <<stored, task, informed>>
    BY <1>3, <1>8 DEF ClearNext, RefreshNextRun, SetNextRun, Step, StepTo, IsAt
  <2>2. "torn" \notin events' => next' = IF T[1] = "refresh" THEN NextRun(w.expr) ELSE Nil
    BY <1>3, <1>8 DEF ClearNext, RefreshNextRun, SetNextRun, Step, StepTo, IsAt, Noted
  <2>3. /\ UpToDate(Tail(T), w)'
        /\ OnTheWay(Left(T), w, i) => OnTheWay(Left(Tail(T)), w, i)'
        /\ (\A j \in informed : j # i => Exprs(entries[j]) = Planned)
             => \A j \in informed' : j # i => Exprs(entries'[j]) = Planned'
        /\ next' = (IF T[1] = "refresh" THEN NextRun(w.expr) ELSE Nil) /\ Showing(Left(T), w)
             => Showing(Left(Tail(T)), w)'
    BY <1>1, <1>3, <2>1, ColumnSerial
  <2> QED BY <1>4, <2>1, <2>2, <2>3
<1>9. CASE Abort(s)
  <2>1. /\ GoesOn(s, <<>>, NoEntry) /\ T[1] \in Writes
        /\ UNCHANGED <<stored, task, next, informed>>
        /\ T[1] \in {"setEnabledBatch", "delete"} => "undone" \in events'
        /\ T[1] = "update" => "torn" \in events'
    BY <1>3, <1>9 DEF Abort, rowVars, GoesOn, Writes
  <2> PICK U : U = <<>>
    OBVIOUS
  <2>2. Left(U) = {} /\ Orderly(U) /\ Shape(U) /\ GoesOn(s, U, NoEntry)
    BY <1>3, <2>1 DEF Left, Orderly
  <2>3. UpToDate(U, w)'
    BY <2>2 DEF UpToDate
  <2>4. /\ Alone'
        /\ /\ OnTheWay(Left(U), w, i)'
           /\ \A j \in informed' : j # i => Exprs(entries'[j]) = Planned'
           => RegisteredInv'
        /\ Showing(Left(U), w)' => ShownInv'
    BY <1>1, <1>2, <1>3, <2>2, <2>3, SerialStep
  <2>5. Planned' = Planned /\ Wanted' = Wanted
    BY <2>1 DEF Planned, Wanted, Scheduled
  <2>6. ASSUME "undone" \notin events'
        PROVE  RegisteredInv'
    <3>1. T[1] \in {"insert", "update", "setEnabled"}
      BY <2>1, <2>6 DEF Writes
    <3>2. i \in informed => Exprs(entries[i]) = Planned
      BY <1>2, <1>3, <1>5, <2>6, <3>1 DEF OnTheWay
    <3>3. OnTheWay(Left(U), w, i)'
      BY <1>1, <2>1, <2>2, <2>5, <3>2 DEF OnTheWay, RegisteredAfter, PlannedAfter
    <3> QED BY <1>1, <1>2, <1>3, <2>1, <2>4, <2>5, <2>6, <3>3
  <2>7. ASSUME events' \cap {"torn", "batch"} = {}
        PROVE  ShownInv'
    <3>1. T[1] \in {"insert", "setEnabled", "delete"}
      BY <1>1, <1>3, <1>5, <2>1, <2>7 DEF UpToDate, Writes
    <3>2. stored # "deleted" => next = Wanted
      BY <1>2, <1>3, <1>5, <2>7, <3>1 DEF Showing
    <3>3. Showing(Left(U), w)'
      BY <2>1, <2>2, <2>5, <3>2 DEF Showing, NextAfter, WantedAfter
    <3> QED BY <2>4, <3>3
  <2> QED BY <2>4, <2>6, <2>7
<1> QED BY <1>6, <1>7, <1>8, <1>9 DEF Statement

\* A call of the scheduler that brings the replica on its way.
LEMMA CallSerial ==
  ASSUME NEW R, NEW Q, NEW w, NEW i,
         Q \subseteq R, R \cap Writes = Q \cap Writes, "refresh" \in R => "refresh" \in Q,
         "clearNext" \in R => "clearNext" \in Q, Q \cap {"insert", "update", "setEnabled"} = {},
         UNCHANGED <<stored, task, next, informed>>,
         RegisteredAfter(Q, w, entries'[i]) = RegisteredAfter(R, w, entries[i])
  PROVE  /\ OnTheWay(R, w, i) => OnTheWay(Q, w, i)'
         /\ Showing(R, w) => Showing(Q, w)'
<1>1. Planned' = Planned /\ Wanted' = Wanted
  BY DEF Planned, Wanted, Scheduled
<1>2. PlannedAfter(Q, w)' = PlannedAfter(R, w) /\ WantedAfter(Q, w)' = WantedAfter(R, w)
  BY <1>1 DEF PlannedAfter, WantedAfter, Writes
<1>3. OnTheWay(R, w, i) => OnTheWay(Q, w, i)'
  BY <1>2 DEF OnTheWay
<1>4. NextAfter(Q, w)' = NextAfter(R, w)
  BY DEF NextAfter
<1>5. Showing(R, w) => Showing(Q, w)'
  BY <1>1, <1>2, <1>4 DEF Showing, Writes
<1> QED BY <1>3, <1>5

\* The scheduler calls of requests that do not overlap.
LEMMA SchedulerCallSerial ==
  ASSUME IInv, SInv, NEW s \in Slot, SchedulerCall(s)
  PROVE  SInv'
<1>1. /\ Requests /\ Scheduler /\ Busy(s)
      /\ UNCHANGED <<stored, task, next, up, runs, informed, events, crowded>>
  BY DEF IInv, SchedulerCall, Load, Remove, Forget, Add, Store, Step, StepTo, IsAt, rowVars, histVars
<1> SUFFICES ASSUME "overlap" \notin events
             PROVE  /\ Alone'
                    /\ "undone" \notin events => RegisteredInv'
                    /\ events \cap {"torn", "batch"} = {} => ShownInv'
  BY <1>1 DEF SInv
<1>2. /\ Alone
      /\ "undone" \notin events => RegisteredInv
      /\ events \cap {"torn", "batch"} = {} => ShownInv
  BY DEF SInv
<1> PICK T : T = req[s].todo
  OBVIOUS
<1> PICK w : w = req[s].want
  OBVIOUS
<1>3. req[s].at \in up /\ req[s].at \in Replica
  BY <1>1, BusyRequest DEF IInv, Columns
<1> PICK i \in Replica : i = req[s].at
  BY <1>3
<1>4. /\ UpToDate(T, w) /\ Orderly(T) /\ Shape(T) /\ Len(T) > 0 /\ T[1] = Head(T)
      /\ Shape(Tail(T)) /\ NoEntry \in Nat /\ req[s].eid \in Nat
      /\ RegisteredInv => /\ OnTheWay(Left(T), w, i)
                          /\ \A j \in informed : j # i => Exprs(entries[j]) = Planned
      /\ ShownInv => Showing(Left(T), w)
  BY <1>1, <1>2, SerialNow, BusyRequest, TailOf DEF NoEntry, UpToDate, Request
<1>5. AtStage(T, req[s].eid, taskEntry[i], entries[i])
  <2>1. Works(s, i) /\ i \in up \ crowded
    BY <1>1, <1>2, <1>3 DEF Works, Alone
  <2> QED BY <2>1 DEF IInv, Working, Stage
<1>6. /\ Orderly(Tail(T)) /\ Left(T) = {T[1]} \cup Left(Tail(T))
      /\ \A b \in Left(Tail(T)) : MayPrecede(T[1], b)
  BY <1>4, LeftTail
<1>7. ASSUME NEW U, Shape(U), Orderly(U), NEW n \in Nat, GoesOn(s, U, n),
             NEW D, D \subseteq {"load", "remove", "forget", "add", "store"}, Left(T) = D \cup Left(U),
             \A b \in Left(U) : MayPrecede(T[1], b), T[1] \in D,
             \A j \in Replica \ {i} : entries'[j] = entries[j],
             RegisteredAfter(Left(U), w, entries'[i]) = RegisteredAfter(Left(T), w, entries[i])
      PROVE  /\ Alone'
             /\ "undone" \notin events => RegisteredInv'
             /\ events \cap {"torn", "batch"} = {} => ShownInv'
  <2>1. PICK R : R = Left(T)
    OBVIOUS
  <2>2. PICK Q : Q = Left(U)
    OBVIOUS
  <2>3. /\ Q \subseteq R /\ R \cap Writes = Q \cap Writes /\ ("refresh" \in R => "refresh" \in Q)
        /\ "clearNext" \in R => "clearNext" \in Q
    BY <1>7, <2>1, <2>2 DEF Writes
  <2>4. Q \cap {"insert", "update", "setEnabled"} = {}
    BY <1>7, <2>2 DEF MayPrecede
  <2>5. /\ OnTheWay(R, w, i) => OnTheWay(Q, w, i)'
        /\ Showing(R, w) => Showing(Q, w)'
    BY <1>1, <1>7, <2>1, <2>2, <2>3, <2>4, CallSerial
  <2>6. UpToDate(U, w)'
    <3>1. Left(U) \subseteq Left(T)
      BY <2>1, <2>2, <2>3
    <3> QED BY <1>1, <1>4, <1>7, <3>1 DEF UpToDate
  <2>7. /\ Alone'
        /\ /\ OnTheWay(Left(U), w, i)'
           /\ \A j \in informed' : j # i => Exprs(entries'[j]) = Planned'
           => RegisteredInv'
        /\ Showing(Left(U), w)' => ShownInv'
    BY <1>1, <1>2, <1>7, <2>6, SerialStep
  <2>8. Planned' = Planned
    BY <1>1 DEF Planned, Scheduled
  <2>9. ASSUME RegisteredInv PROVE RegisteredInv'
    <3>1. \A j \in informed' : j # i => Exprs(entries'[j]) = Planned'
      <4>1. informed' = informed /\ informed \subseteq Replica
        BY <1>1 DEF IInv, Columns
      <4> QED BY <1>4, <1>7, <2>8, <2>9, <4>1
    <3> QED BY <1>4, <2>1, <2>2, <2>5, <2>7, <2>9, <3>1
  <2> QED BY <1>2, <1>4, <2>1, <2>2, <2>5, <2>7, <2>9
<1> DEFINE Goal == /\ Alone'
                   /\ "undone" \notin events => RegisteredInv'
                   /\ events \cap {"torn", "batch"} = {} => ShownInv'
<1>8. CASE Load(s)
  <2>1. entries' = entries /\ T[1] = "load"
    BY <1>4, <1>8 DEF Load, schedVars, IsAt
  <2>2. taskEntry[i] \in Nat /\ \A e \in entries[i] : e.id # NoEntry
    BY <1>1 DEF Scheduler
  <2>3. CASE taskEntry[i] # NoEntry
    <3>1. GoesOn(s, Tail(T), taskEntry[i])
      BY <1>8, <2>3 DEF Load
    <3>2. "remove" \in Left(Tail(T))
      <4>0. T \in Seq(Steps) /\ Len(T) \in Nat /\ 1 \in 1 .. Len(T)
        BY <1>4 DEF Shape
      <4>1. T \in Seq(Steps) /\ Len(T) \in Nat /\ T[2] = "remove" /\ Len(T) >= 3
        BY <1>4, <2>1, <4>0 DEF Shape
      <4>2. Tail(T)[1] = T[2] /\ 1 \in 1 .. Len(Tail(T))
        BY <4>1
      <4> QED BY <4>1, <4>2 DEF Left
    <3>3. RegisteredAfter(Left(Tail(T)), w, entries'[i]) = RegisteredAfter(Left(T), w, entries[i])
      BY <1>6, <2>1, <3>2 DEF RegisteredAfter
    <3> QED BY <1>4, <1>6, <1>7, <2>1, <2>2, <3>1, <3>3
  <2>4. CASE taskEntry[i] = NoEntry
    <3> PICK U : U = SubSeq(T, 4, Len(T))
      OBVIOUS
    <3>1. GoesOn(s, U, NoEntry)
      BY <1>8, <2>4 DEF Load
    <3>2. Shape(U)
      BY <1>4, <2>1, SkipsTo
    <3>3. /\ Orderly(U) /\ Left(T) = {"load", "remove", "forget"} \cup Left(U)
          /\ \A b \in Left(U) : MayPrecede("load", b)
      <4>1. /\ Shape(T) /\ Orderly(T) /\ Len(T) > 0 /\ T[1] = "load"
            /\ U = SubSeq(T, 4, Len(T))
        BY <1>4, <2>1
      <4> QED BY ONLY <4>1, LeftSkip
    <3>4. entries[i] = {}
      BY <1>4, <1>5, <2>1, <2>2, <2>4, LoadStage
    <3>5. RegisteredAfter(Left(U), w, entries'[i]) = RegisteredAfter(Left(T), w, entries[i])
      BY <2>1, <3>3, <3>4 DEF RegisteredAfter, Exprs
    <3> QED BY <1>4, <1>7, <2>1, <3>1, <3>2, <3>3, <3>5
  <2> QED BY <2>3, <2>4
<1>9. CASE Remove(s)
  <2>1. /\ T[1] = "remove" /\ GoesOn(s, Tail(T), NoEntry)
        /\ entries' = [entries EXCEPT ![i] = {e \in entries[i] : e.id # req[s].eid}]
    BY <1>4, <1>9 DEF Remove, Step, StepTo, IsAt
  <2>2. {e \in entries[i] : e.id # req[s].eid} = {}
    BY <1>4, <1>5, <2>1, RemoveStage
  <2>3. entries'[i] = {} /\ \A j \in Replica \ {i} : entries'[j] = entries[j]
    BY <1>1, <2>1, <2>2 DEF Scheduler
  <2>4. RegisteredAfter(Left(Tail(T)), w, entries'[i]) = RegisteredAfter(Left(T), w, entries[i])
    BY <1>6, <2>1, <2>3 DEF RegisteredAfter, Exprs
  <2> QED BY <1>4, <1>6, <1>7, <2>1, <2>3, <2>4
<1>10. CASE Forget(s) \/ Store(s)
  <2>1. T[1] \in {"forget", "store"} /\ GoesOn(s, Tail(T), NoEntry) /\ entries' = entries
    BY <1>4, <1>10 DEF Forget, Store, Step, StepTo, IsAt
  <2>2. RegisteredAfter(Left(Tail(T)), w, entries'[i]) = RegisteredAfter(Left(T), w, entries[i])
    BY <1>6, <2>1 DEF RegisteredAfter
  <2> QED BY <1>4, <1>6, <1>7, <2>1, <2>2
<1>11. CASE Add(s)
  <2> PICK n : n = handed[i] + 1
    OBVIOUS
  <2> PICK e : e = [id |-> n, expr |-> w.expr]
    OBVIOUS
  <2>1. /\ T[1] = "add" /\ GoesOn(s, Tail(T), n) /\ n \in Nat
        /\ entries' = [entries EXCEPT ![i] = entries[i] \cup {e}]
    BY <1>1, <1>4, <1>11 DEF Add, StepTo, IsAt, Scheduler
  <2>2. entries[i] = {}
    BY <1>4, <1>5, <2>1, AddStage
  <2>3. entries'[i] = {e} /\ \A j \in Replica \ {i} : entries'[j] = entries[j]
    BY <1>1, <2>1, <2>2 DEF Scheduler
  <2>4. RegisteredAfter(Left(Tail(T)), w, entries'[i]) = RegisteredAfter(Left(T), w, entries[i])
    <3>1. Left(Tail(T)) \cap {"load", "remove", "add"} = {} /\ "add" \in Left(T)
      BY <1>6, <2>1 DEF MayPrecede
    <3>2. Exprs({e}) = {w.expr}
      BY DEF Exprs
    <3> QED BY <2>3, <3>1, <3>2 DEF RegisteredAfter
  <2> QED BY <1>4, <1>6, <1>7, <2>1, <2>3, <2>4
<1> QED BY <1>8, <1>9, <1>10, <1>11 DEF SchedulerCall

\* What is left of a whole plan.
LEMMA PlanLeft ==
  ASSUME Columns, NEW op \in Asking, NEW w \in Asked(op), NEW R, R = Left(Plan(op, w))
  PROVE  /\ Orderly(Plan(op, w)) /\ R \cap Writes # {}
         /\ "insert" \in R => op = "create"
         /\ "delete" \in R <=> op = "delete"
         /\ R \cap {"setEnabled", "setEnabledBatch"} # {} => op \in {"toggle", "batchToggle"}
         /\ "setEnabledBatch" \in R => op = "batchToggle"
         /\ op # "delete" => ("add" \in R <=> Fires(w))
         /\ op = "delete" => "add" \notin R
         /\ op # "create" /\ "cron" \in {task.kind, w.kind} => "load" \in R
         /\ op \notin {"batchToggle", "delete"} => ("refresh" \in R <=> Fires(w))
         /\ op \in {"update", "toggle"} /\ "cron" \in {task.kind, w.kind} /\ ~Fires(w) => "clearNext" \in R
<1>1. CASE op = "create"
  <2>1. Plan(op, w) = CreatePlan(w)
    BY <1>1 DEF Plan
  <2>2. CASE Fires(w)
    <3>1. Orderly(Plan(op, w)) /\ R = {"insert", "add", "store", "refresh"}
      BY <2>1, <2>2, CreateInserts
    <3> HIDE DEF Plan
    <3> QED BY <1>1, <2>2, <3>1 DEF Writes
  <2>3. CASE ~Fires(w)
    <3>1. Orderly(Plan(op, w)) /\ R = {"insert"}
      BY <2>1, <2>3, CreateInserts
    <3> QED BY <1>1, <2>3, <3>1 DEF Writes
  <2> QED BY <2>2, <2>3
<1>2. CASE op = "update"
  <2>1. Plan(op, w) = UpdatePlan(w)
    BY <1>2 DEF Plan
  <2>2. CASE Fires(w)
    <3>1. Orderly(Plan(op, w)) /\ R = {"update", "load", "remove", "forget", "add", "store", "refresh"}
      BY <2>1, <2>2, UpdateSafe
    <3> QED BY <1>2, <2>2, <3>1 DEF Writes
  <2>3. CASE ~Fires(w) /\ "cron" \in {task.kind, w.kind}
    <3>1. Orderly(Plan(op, w)) /\ R = {"clearNext", "update", "load", "remove", "forget"}
      BY <2>1, <2>3, UpdateSafe
    <3> QED BY <1>2, <2>3, <3>1 DEF Writes
  <2>4. CASE ~Fires(w) /\ "cron" \notin {task.kind, w.kind}
    <3>1. Orderly(Plan(op, w)) /\ R = {"clearNext", "update"}
      BY <2>1, <2>4, UpdateSafe
    <3> QED BY <1>2, <2>4, <3>1 DEF Writes
  <2> QED BY <2>2, <2>3, <2>4
<1>3. op \in {"toggle", "batchToggle"} => w.kind = task.kind /\ w.enabled \in BOOLEAN
  BY DEF Asked, Columns, Config
<1>4. CASE op = "toggle"
  <2>1. Plan(op, w) = TogglePlan(w)
    BY <1>4 DEF Plan
  <2>2. CASE task.kind = "cron" /\ w.enabled
    <3>1. Orderly(Plan(op, w)) /\ R = {"setEnabled", "load", "remove", "forget", "add", "store", "refresh"}
      BY <1>3, <1>4, <2>1, <2>2, ToggleSafe
    <3> QED BY <1>3, <1>4, <2>2, <3>1 DEF Writes, Fires
  <2>3. CASE task.kind = "cron" /\ ~w.enabled
    <3>1. Orderly(Plan(op, w)) /\ R = {"setEnabled", "load", "remove", "forget", "clearNext"}
      BY <1>3, <1>4, <2>1, <2>3, ToggleSafe
    <3> QED BY <1>3, <1>4, <2>3, <3>1 DEF Writes, Fires
  <2>4. CASE task.kind # "cron"
    <3>1. Orderly(Plan(op, w)) /\ R = {"setEnabled"}
      BY <1>3, <1>4, <2>1, <2>4, ToggleSafe
    <3> QED BY <1>3, <1>4, <2>4, <3>1 DEF Writes, Fires
  <2> QED BY <2>2, <2>3, <2>4
<1>5. CASE op = "batchToggle"
  <2>1. Plan(op, w) = BatchTogglePlan(w)
    BY <1>5 DEF Plan
  <2>2. CASE task.kind = "cron" /\ w.enabled
    <3>1. Orderly(Plan(op, w)) /\ R = {"load", "remove", "forget", "add", "store", "setEnabledBatch"}
      BY <1>3, <1>5, <2>1, <2>2, BatchToggleSafe
    <3> QED BY <1>3, <1>5, <2>2, <3>1 DEF Writes, Fires
  <2>3. CASE task.kind = "cron" /\ ~w.enabled
    <3>1. Orderly(Plan(op, w)) /\ R = {"load", "remove", "forget", "setEnabledBatch"}
      BY <1>3, <1>5, <2>1, <2>3, BatchToggleSafe
    <3> QED BY <1>3, <1>5, <2>3, <3>1 DEF Writes, Fires
  <2>4. CASE task.kind # "cron"
    <3>1. Orderly(Plan(op, w)) /\ R = {"setEnabledBatch"}
      BY <1>3, <1>5, <2>1, <2>4, BatchToggleSafe
    <3> QED BY <1>3, <1>5, <2>4, <3>1 DEF Writes, Fires
  <2> QED BY <2>2, <2>3, <2>4
<1>6. CASE op = "delete"
  <2>1. Plan(op, w) = DeletePlan /\ w = task
    BY <1>6 DEF Plan, Asked
  <2>2. CASE task.kind = "cron"
    <3>1. Orderly(Plan(op, w)) /\ R = {"load", "remove", "forget", "delete"}
      BY <2>1, <2>2, DeleteSafe
    <3> QED BY <1>6, <3>1 DEF Writes
  <2>3. CASE task.kind # "cron"
    <3>1. Orderly(Plan(op, w)) /\ R = {"delete"}
      BY <2>1, <2>3, DeleteSafe
    <3> QED BY <1>6, <2>1, <2>3, <3>1 DEF Writes
  <2> QED BY <2>2, <2>3
<1> QED BY <1>1, <1>2, <1>4, <1>5, <1>6 DEF Asking

\* A slot is taken when no other request or run is under way.
LEMMA TakesSerial ==
  ASSUME Requests, NEW s \in Slot, \A t \in Slot : ~Busy(t), NEW r, r.todo # <<>>,
         req' = [req EXCEPT ![s] = r], runs' = {}, crowded' = {}, UpToDate(r.todo, r.want)'
  PROVE  /\ Alone'
         /\ /\ OnTheWay(Left(r.todo), r.want, r.at)'
            /\ \A j \in informed' : j # r.at => Exprs(entries'[j]) = Planned'
            => RegisteredInv'
         /\ Showing(Left(r.todo), r.want)' => ShownInv'
<1>1. req'[s] = r /\ \A t \in Slot \ {s} : req'[t] = req[t]
  BY DEF Requests
<1>2. Busy(s)' /\ \A t \in Slot : t # s => ~Busy(t)'
  BY <1>1 DEF Busy
<1>3. Alone'
  BY <1>1, <1>2 DEF Alone
<1>4. ASSUME OnTheWay(Left(r.todo), r.want, r.at)',
             \A j \in informed' : j # r.at => Exprs(entries'[j]) = Planned'
      PROVE  RegisteredInv'
  <2>1. Works(s, r.at)'
    BY <1>1, <1>2 DEF Works
  <2> QED BY <1>1, <1>2, <1>4, <2>1 DEF RegisteredInv
<1>5. ASSUME Showing(Left(r.todo), r.want)' PROVE ShownInv'
  BY <1>1, <1>2, <1>5 DEF ShownInv
<1> QED BY <1>3, <1>4, <1>5

\* What holds when nothing is under way.
LEMMA QuietNow ==
  ASSUME \A t \in Slot : ~Busy(t)
  PROVE  /\ RegisteredInv => \A j \in informed : Exprs(entries[j]) = Planned
         /\ ShownInv /\ stored # "deleted" => next = Wanted
  BY DEF RegisteredInv, ShownInv, Works

\* A request begins, with no other under way.
LEMMA BeginSerial ==
  ASSUME IInv, SInv, NEW s \in Slot, NEW i \in Replica, NEW op \in Asking,
         NEW w \in Asked(op), Begin(s, i, op, w)
  PROVE  SInv'
<1>1. /\ Columns /\ Requests /\ Unborn
      /\ UNCHANGED <<stored, task, next, entries, runs, informed>> /\ events \subseteq events'
      /\ stored = IF op = "create" THEN "absent" ELSE "live"
      /\ op = "batchToggle" => "batch" \in events'
  BY DEF IInv, Begin, rowVars, schedVars
<1> SUFFICES ASSUME "overlap" \notin events'
             PROVE  /\ Alone'
                    /\ "undone" \notin events' => RegisteredInv'
                    /\ events' \cap {"torn", "batch"} = {} => ShownInv'
  BY DEF SInv
<1>2. /\ Alone
      /\ "undone" \notin events' => RegisteredInv
      /\ events' \cap {"torn", "batch"} = {} => ShownInv
  BY <1>1 DEF SInv
<1>3. runs = {} /\ \A t \in Slot : ~Busy(t)
  BY DEF Begin
<1>4. crowded' = {}
  BY <1>2, <1>3 DEF Begin, Alone
<1> PICK T : T = Plan(op, w)
  OBVIOUS
<1> PICK r : r = [op |-> op, todo |-> T, at |-> i, want |-> w, eid |-> NoEntry]
  OBVIOUS
<1>5. req' = [req EXCEPT ![s] = r] /\ r.todo = T /\ r.at = i /\ r.want = w
  BY DEF Begin
<1>6. r.todo # <<>>
  BY <1>1, <1>5, PlanShape DEF Fresh
<1> PICK R : R = Left(T)
  OBVIOUS
<1>7. /\ Orderly(T) /\ R \cap Writes # {}
      /\ "insert" \in R => op = "create"
      /\ "delete" \in R <=> op = "delete"
      /\ R \cap {"setEnabled", "setEnabledBatch"} # {} => op \in {"toggle", "batchToggle"}
      /\ "setEnabledBatch" \in R => op = "batchToggle"
      /\ op # "delete" => ("add" \in R <=> Fires(w))
      /\ op = "delete" => "add" \notin R
      /\ op # "create" /\ "cron" \in {task.kind, w.kind} => "load" \in R
      /\ op \notin {"batchToggle", "delete"} => ("refresh" \in R <=> Fires(w))
      /\ op \in {"update", "toggle"} /\ "cron" \in {task.kind, w.kind} /\ ~Fires(w) => "clearNext" \in R
  BY <1>1, PlanLeft
<1>8. UpToDate(T, w)'
  <2>1. R \cap (Writes \ {"insert"}) # {} => stored = "live"
    <3>1. op = "create" => R \cap (Writes \ {"insert"}) = {}
      BY CreateInserts DEF Plan, Writes
    <3> QED BY <1>1, <3>1
  <2>2. op \in {"toggle", "batchToggle"} => w = [task EXCEPT !.enabled = w.enabled]
    BY <1>1 DEF Asked, Columns, Config
  <2>3. op = "delete" => w = task
    BY DEF Asked
  <2>4. R \cap {"setEnabled", "setEnabledBatch"} # {} => w = [task EXCEPT !.enabled = w.enabled]
    BY <1>7, <2>2
  <2> QED BY <1>1, <1>7, <2>1, <2>3, <2>4 DEF UpToDate
<1>9. /\ Alone'
      /\ /\ OnTheWay(R, w, i)'
         /\ \A j \in informed' : j # i => Exprs(entries'[j]) = Planned'
         => RegisteredInv'
      /\ Showing(R, w)' => ShownInv'
  BY <1>1, <1>3, <1>4, <1>5, <1>6, <1>8, TakesSerial
<1>10. Planned' = Planned /\ Wanted' = Wanted
  BY <1>1 DEF Planned, Wanted, Scheduled
<1>11. /\ "cron" \notin {task.kind, w.kind} => Planned = {} /\ Wanted = Nil /\ ~Fires(w)
       /\ op = "create" => Planned = {} /\ Wanted = Nil /\ entries[i] = {}
  BY <1>1 DEF Planned, Wanted, Scheduled, Fires, Unborn
<1>12. ASSUME RegisteredInv PROVE RegisteredInv'
  <2>1. \A j \in informed : Exprs(entries[j]) = Planned
    BY <1>3, <1>12, QuietNow
  <2>2. PlannedAfter(R, w)' = IF Fires(w) /\ op # "delete" THEN {w.expr} ELSE {}
    BY <1>7 DEF PlannedAfter
  <2>3. ASSUME i \in informed \/ "cron" \in {task.kind, w.kind}
        PROVE  RegisteredAfter(R, w, entries[i]) = IF Fires(w) /\ op # "delete" THEN {w.expr} ELSE {}
    <3>1. CASE Fires(w) /\ op # "delete"
      BY <1>7, <3>1 DEF RegisteredAfter
    <3>2. CASE ~(Fires(w) /\ op # "delete")
      <4>1. "add" \notin R
        BY <1>7, <3>2
      <4>2. CASE "load" \in R
        BY <3>2, <4>1, <4>2 DEF RegisteredAfter
      <4>3. CASE "load" \notin R
        <5>1. op = "create" \/ "cron" \notin {task.kind, w.kind}
          BY <1>7, <4>3
        <5>2. Exprs(entries[i]) = {}
          BY <1>11, <2>1, <2>3, <5>1 DEF Exprs
        <5> QED BY <3>2, <4>1, <5>2 DEF RegisteredAfter
      <4> QED BY <4>2, <4>3
    <3> QED BY <3>1, <3>2
  <2>4. OnTheWay(R, w, i)'
    BY <1>1, <1>10, <2>1, <2>2, <2>3 DEF OnTheWay
  <2> QED BY <1>1, <1>9, <1>10, <2>1, <2>4
<1>13. ASSUME ShownInv, op # "batchToggle" PROVE ShownInv'
  <2>1. stored # "deleted" => next = Wanted
    BY <1>3, <1>13, QuietNow
  <2>2. ASSUME op # "delete" PROVE NextAfter(R, w)' = WantedAfter(R, w)'
    <3>1. WantedAfter(R, w)' = IF Fires(w) THEN NextRun(w.expr) ELSE Nil
      BY <1>7 DEF WantedAfter
    <3>2. CASE Fires(w)
      BY <1>7, <1>13, <2>2, <3>1, <3>2 DEF NextAfter
    <3>3. CASE ~Fires(w)
      <4>1. "refresh" \notin R
        BY <1>7, <1>13, <2>2, <3>3
      <4>2. "clearNext" \in R \/ next = Nil
        BY <1>1, <1>7, <1>11, <1>13, <2>1, <2>2, <3>3 DEF Asking
      <4> QED BY <1>1, <3>1, <3>3, <4>1, <4>2 DEF NextAfter
    <3> QED BY <3>2, <3>3
  <2>3. Showing(R, w)'
    BY <1>1, <1>7, <1>10, <2>1, <2>2 DEF Showing
  <2> QED BY <1>9, <2>3
<1> QED BY <1>1, <1>2, <1>9, <1>12, <1>13

\* A process starts, with no request under way.
LEMMA BootSerial ==
  ASSUME IInv, SInv, NEW s \in Slot, NEW i \in Replica, Boot(s, i)
  PROVE  SInv'
<1>1. /\ Columns /\ Requests
      /\ UNCHANGED <<stored, task, next, entries, runs, crowded>>
      /\ events \subseteq events' /\ informed' = informed \cup {i} /\ entries[i] = {}
  BY DEF IInv, Boot, rowVars, schedVars, Noted, Down
<1> SUFFICES ASSUME "overlap" \notin events'
             PROVE  /\ Alone'
                    /\ "undone" \notin events' => RegisteredInv'
                    /\ events' \cap {"torn", "batch"} = {} => ShownInv'
  BY DEF SInv
<1>2. /\ Alone
      /\ "undone" \notin events' => RegisteredInv
      /\ events' \cap {"torn", "batch"} = {} => ShownInv
  BY <1>1 DEF SInv
<1>3. runs = {} /\ \A t \in Slot : ~Busy(t)
  BY DEF Boot, Noted
<1>4. crowded' = {} /\ runs' = {}
  BY <1>1, <1>2, <1>3 DEF Alone
<1>5. Planned' = Planned /\ Wanted' = Wanted
  BY <1>1 DEF Planned, Wanted, Scheduled
<1>6. CASE Scheduled
  <2> PICK w : w = task
    OBVIOUS
  <2>1. PICK refresh \in BOOLEAN :
          req' = [req EXCEPT ![s] = [op |-> "boot", todo |-> BootPlan(refresh),
                                     at |-> i, want |-> w, eid |-> NoEntry]]
    BY <1>6 DEF Boot, BootPlan, Scheduled
  <2> PICK T : T = BootPlan(refresh)
    OBVIOUS
  <2> PICK r : r = [op |-> "boot", todo |-> T, at |-> i, want |-> w, eid |-> NoEntry]
    OBVIOUS
  <2>2. req' = [req EXCEPT ![s] = r] /\ r.todo = T /\ r.at = i /\ r.want = w /\ r.todo # <<>>
    BY <2>1, BootFresh DEF Fresh
  <2>3. Orderly(T) /\ Left(T) = IF refresh THEN {"refresh", "add", "store"} ELSE {"add", "store"}
    BY BootFresh
  <2> PICK R : R = Left(T)
    OBVIOUS
  <2>4. /\ R \cap Writes = {} /\ "add" \in R /\ "clearNext" \notin R
        /\ "refresh" \in R <=> refresh
    BY <2>3 DEF Writes
  <2>5. UpToDate(T, w)'
    BY <2>3, <2>4 DEF UpToDate, Writes
  <2>6. /\ Alone'
        /\ /\ OnTheWay(R, w, i)'
           /\ \A j \in informed' : j # i => Exprs(entries'[j]) = Planned'
           => RegisteredInv'
        /\ Showing(R, w)' => ShownInv'
    BY <1>1, <1>3, <1>4, <2>2, <2>5, TakesSerial
  <2>7. Planned = {w.expr} /\ Wanted = NextRun(w.expr)
    BY <1>6 DEF Planned, Wanted
  <2>8. ASSUME RegisteredInv PROVE RegisteredInv'
    <3>1. \A j \in informed : Exprs(entries[j]) = Planned
      BY <1>3, <2>8, QuietNow
    <3>2. OnTheWay(R, w, i)'
      BY <1>5, <2>4, <2>7 DEF OnTheWay, RegisteredAfter, PlannedAfter, Writes
    <3> QED BY <1>1, <1>5, <2>6, <3>1, <3>2
  <2>9. ASSUME ShownInv PROVE ShownInv'
    <3>1. stored # "deleted" => next = Wanted
      BY <1>3, <2>9, QuietNow
    <3>2. Showing(R, w)'
      BY <1>1, <1>5, <2>4, <2>7, <3>1 DEF Showing, NextAfter, WantedAfter, Writes
    <3> QED BY <2>6, <3>2
  <2> QED BY <1>2, <2>6, <2>8, <2>9
<1>7. CASE ~Scheduled
  <2>1. req' = req
    BY <1>7 DEF Boot, Scheduled
  <2>2. \A t \in Slot : ~Busy(t)'
    BY <1>3, <2>1 DEF Busy
  <2>3. Alone'
    BY <1>4, <2>2 DEF Alone
  <2>4. Planned = {} /\ Exprs(entries[i]) = {}
    BY <1>1, <1>7 DEF Planned, Exprs
  <2>5. ASSUME RegisteredInv PROVE RegisteredInv'
    <3>1. \A j \in informed : Exprs(entries[j]) = Planned
      BY <1>3, <2>5, QuietNow
    <3> QED BY <1>1, <1>5, <2>2, <2>4, <3>1 DEF RegisteredInv
  <2>6. ASSUME ShownInv PROVE ShownInv'
    BY <1>1, <1>3, <1>5, <2>2, <2>6 DEF ShownInv
  <2> QED BY <1>2, <2>3, <2>5, <2>6
<1> QED BY <1>6, <1>7

\* A process dies, with the request it works on or without any.
LEMMA CrashSerial ==
  ASSUME IInv, SInv, NEW i \in Replica, Crash(i)
  PROVE  SInv'
<1> DEFINE lost == {s \in Slot : Busy(s) /\ req[s].at = i}
<1>1. /\ Columns /\ Requests /\ Scheduler
      /\ UNCHANGED <<stored, task, next, runs>> /\ events \subseteq events'
      /\ informed' = informed \ {i} /\ crowded' = crowded \ {i}
      /\ req' = [s \in Slot |-> IF s \in lost THEN Idle ELSE req[s]]
      /\ entries' = [entries EXCEPT ![i] = {}]
      /\ "torn" \in events' \/ lost = {}
  BY DEF IInv, Crash, rowVars, Noted
<1> SUFFICES ASSUME "overlap" \notin events'
             PROVE  /\ Alone'
                    /\ "undone" \notin events' => RegisteredInv'
                    /\ events' \cap {"torn", "batch"} = {} => ShownInv'
  BY DEF SInv
<1>2. /\ Alone
      /\ "undone" \notin events' => RegisteredInv
      /\ events' \cap {"torn", "batch"} = {} => ShownInv
  BY <1>1 DEF SInv
<1>3. \A s \in Slot : /\ Busy(s)' <=> Busy(s) /\ req[s].at # i
                      /\ Busy(s)' => req'[s] = req[s]
  BY <1>1, IdleRequest DEF Busy, Requests
<1>4. \A j \in Replica \ {i} : entries'[j] = entries[j]
  BY <1>1 DEF Scheduler
<1>5. Planned' = Planned /\ Wanted' = Wanted
  BY <1>1 DEF Planned, Wanted, Scheduled
<1>6. Alone'
  <2>1. \A s \in Slot : Busy(s)' => UpToDate(req[s].todo, req[s].want)'
    <3> SUFFICES ASSUME NEW s \in Slot, Busy(s)'
                 PROVE  UpToDate(req[s].todo, req[s].want)'
      OBVIOUS
    <3> PICK T : T = req[s].todo
      OBVIOUS
    <3> PICK w : w = req[s].want
      OBVIOUS
    <3>1. UpToDate(T, w) /\ req'[s].todo = T /\ req'[s].want = w
      BY <1>2, <1>3 DEF Alone
    <3>2. UpToDate(T, w)'
      BY <1>1, <3>1 DEF UpToDate
    <3> QED BY <3>1, <3>2
  <2>2. crowded' = {} /\ Scheduled' = Scheduled
    BY <1>1, <1>2 DEF Alone, Scheduled
  <2> QED BY <1>1, <1>2, <1>3, <2>1, <2>2 DEF Alone
<1> HIDE DEF lost
<1>7. ASSUME RegisteredInv PROVE RegisteredInv'
  <2>1. ASSUME NEW j \in informed', \A s \in Slot : ~Works(s, j)'
        PROVE  Exprs(entries'[j]) = Planned'
    <3>1. j \in informed /\ j # i /\ j \in Replica
      BY <1>1, <2>1 DEF Columns
    <3>2. \A s \in Slot : ~Works(s, j)
      BY <1>3, <2>1, <3>1 DEF Works
    <3> QED BY <1>4, <1>5, <1>7, <3>1, <3>2 DEF RegisteredInv
  <2>2. ASSUME NEW s \in Slot, Busy(s)'
        PROVE  OnTheWay(Left(req[s].todo), req[s].want, req[s].at)'
    <3> PICK R : R = Left(req[s].todo)
      OBVIOUS
    <3> PICK w : w = req[s].want
      OBVIOUS
    <3> PICK j : j = req[s].at
      OBVIOUS
    <3>1. /\ OnTheWay(R, w, j) /\ j # i /\ j \in Replica /\ req'[s] = req[s]
      BY <1>1, <1>3, <1>7, <2>2 DEF RegisteredInv, Requests, Columns
    <3>2. entries'[j] = entries[j] /\ (j \in informed' <=> j \in informed)
      BY <1>1, <1>4, <3>1
    <3>3. PlannedAfter(R, w)' = PlannedAfter(R, w)
      BY <1>5 DEF PlannedAfter
    <3>4. OnTheWay(R, w, j)'
      BY <1>1, <1>5, <3>1, <3>2, <3>3 DEF OnTheWay
    <3> QED BY <3>1, <3>4
  <2> QED BY <2>1, <2>2 DEF RegisteredInv
<1>8. ASSUME ShownInv, lost = {} PROVE ShownInv'
  <2>1. req' = req
    BY <1>1, <1>8 DEF Requests
  <2>2. /\ \A s \in Slot : Busy(s)' <=> Busy(s)
        /\ stored' = stored /\ next' = next
    BY <1>1, <2>1 DEF Busy
  <2>3. ASSUME NEW s \in Slot, Busy(s)
        PROVE  Showing(Left(req[s].todo), req[s].want)'
    <3> PICK R : R = Left(req[s].todo)
      OBVIOUS
    <3> PICK w : w = req[s].want
      OBVIOUS
    <3>1. Showing(R, w)
      BY <1>8, <2>3 DEF ShownInv
    <3>2. Showing(R, w)'
      BY <1>5, <2>2, <3>1 DEF Showing, NextAfter, WantedAfter
    <3> QED BY <2>1, <3>2
  <2> QED BY <1>5, <1>8, <2>2, <2>3 DEF ShownInv
<1>9. events' \cap {"torn", "batch"} = {} => lost = {}
  BY <1>1
<1> QED BY <1>2, <1>6, <1>7, <1>8, <1>9

\* Enqueue and the update of the schedule columns, with no request under way.
LEMMA RunSerial ==
  ASSUME IInv, SInv, Enqueue \/ \E e \in runs : UpdateSchedule(e)
  PROVE  SInv'
<1>1. /\ UNCHANGED <<stored, task, entries, req, informed, crowded>> /\ events \subseteq events'
  BY DEF Enqueue, UpdateSchedule, Noted, rowVars, schedVars, histVars
<1> SUFFICES ASSUME "overlap" \notin events'
             PROVE  /\ Alone'
                    /\ "undone" \notin events' => RegisteredInv'
                    /\ events' \cap {"torn", "batch"} = {} => ShownInv'
  BY DEF SInv
<1>2. /\ Alone
      /\ "undone" \notin events' => RegisteredInv
      /\ events' \cap {"torn", "batch"} = {} => ShownInv
  BY <1>1 DEF SInv
<1>3. /\ \A t \in Slot : ~Busy(t) /\ ~Busy(t)'
      /\ runs' = {} \/ (runs' = {task.expr} /\ Scheduled)
      /\ next' = next \/ (next' = NextRun(task.expr) /\ Scheduled)
  <2>1. CASE Enqueue
    BY <2>1 DEF Enqueue, Noted, Scheduled, Busy, rowVars
  <2>2. CASE \E e \in runs : UpdateSchedule(e)
    <3>1. PICK e \in runs : UpdateSchedule(e)
      BY <2>2
    <3>2. runs = {task.expr} /\ Scheduled /\ \A t \in Slot : ~Busy(t)
      BY <1>2, <3>1 DEF Alone
    <3> QED BY <1>1, <3>1, <3>2 DEF UpdateSchedule, NextRun, Busy
  <2> QED BY <2>1, <2>2
<1>4. Planned' = Planned /\ Wanted' = Wanted /\ Scheduled' = Scheduled
  BY <1>1 DEF Planned, Wanted, Scheduled
<1>5. Alone'
  BY <1>1, <1>2, <1>3, <1>4 DEF Alone
<1>6. ASSUME RegisteredInv PROVE RegisteredInv'
  <2>1. \A j \in informed : Exprs(entries[j]) = Planned
    BY <1>3, <1>6, QuietNow
  <2> QED BY <1>1, <1>3, <1>4, <2>1 DEF RegisteredInv
<1>7. ASSUME ShownInv PROVE ShownInv'
  <2>1. stored # "deleted" => next = Wanted
    BY <1>3, <1>7, QuietNow
  <2>2. stored' # "deleted" => next' = Wanted'
    BY <1>1, <1>3, <1>4, <2>1 DEF Wanted
  <2> QED BY <1>3, <2>2 DEF ShownInv
<1> QED BY <1>2, <1>5, <1>6, <1>7

\* At the start every replica that runs has what the row asks for.
LEMMA InitSInv == Init => SInv
<1> SUFFICES ASSUME Init PROVE SInv
  OBVIOUS
<1>1. \A s \in Slot : ~Busy(s)
  BY IdleRequest DEF Init, Busy
<1>2. Alone
  BY <1>1 DEF Init, Alone
<1>3. Scheduled <=> Fires(task)
  BY DEF Init, Scheduled, NoTask, Fires
<1>4. RegisteredInv
  <2>1. ASSUME NEW i \in informed
        PROVE  Exprs(entries[i]) = Planned
    <3>1. i \in Replica /\ i \in up
      BY <2>1 DEF Init
    <3>2. CASE Fires(task)
      <4>1. entries[i] = {[id |-> 1, expr |-> task.expr]}
        BY <3>1, <3>2 DEF Init
      <4> QED BY <1>3, <3>2, <4>1 DEF Exprs, Planned
    <3>3. CASE ~Fires(task)
      <4>1. entries[i] = {}
        BY <3>1, <3>3 DEF Init
      <4> QED BY <1>3, <3>3, <4>1 DEF Exprs, Planned
    <3> QED BY <3>2, <3>3
  <2> QED BY <1>1, <2>1 DEF RegisteredInv
<1>5. ShownInv
  BY <1>1, <1>3 DEF Init, ShownInv, Wanted
<1> QED BY <1>2, <1>4, <1>5 DEF SInv

\* Every step keeps it.
LEMMA NextSerial == IInv /\ SInv /\ [Next]_vars => SInv'
<1> SUFFICES ASSUME IInv, SInv, [Next]_vars PROVE SInv'
  OBVIOUS
<1>1. ASSUME NEW s \in Slot, NEW i \in Replica, NEW op \in Asking,
             NEW w \in Asked(op), Begin(s, i, op, w)
      PROVE  SInv'
  BY <1>1, BeginSerial
<1>2. ASSUME NEW s \in Slot, NEW i \in Replica, Boot(s, i)
      PROVE  SInv'
  BY <1>2, BootSerial
<1>3. ASSUME NEW s \in Slot, Statement(s) \/ SchedulerCall(s)
      PROVE  SInv'
  BY <1>3, StatementSerial, SchedulerCallSerial
<1>4. ASSUME Enqueue \/ \E e \in runs : UpdateSchedule(e)
      PROVE  SInv'
  BY <1>4, RunSerial
<1>5. ASSUME NEW i \in Replica, Crash(i)
      PROVE  SInv'
  BY <1>5, CrashSerial
<1>6. CASE UNCHANGED vars
  <2>1. UNCHANGED <<stored, task, next, entries, req, runs, informed, events, crowded>>
    BY <1>6 DEF vars, rowVars, schedVars, histVars
  <2>2. Planned' = Planned /\ Wanted' = Wanted /\ Scheduled' = Scheduled
    BY <2>1 DEF Planned, Wanted, Scheduled
  <2>3. Alone' = Alone
    BY <2>1, <2>2 DEF Alone, Busy, UpToDate
  <2>4. RegisteredInv' = RegisteredInv
    BY <2>1, <2>2 DEF RegisteredInv, OnTheWay, PlannedAfter, Works, Busy
  <2>5. ShownInv' = ShownInv
    BY <2>1, <2>2 DEF ShownInv, Showing, NextAfter, WantedAfter, Busy
  <2> QED BY <2>1, <2>3, <2>4, <2>5 DEF SInv
<1> QED BY <1>1, <1>2, <1>3, <1>4, <1>5, <1>6 DEF Next, Asking

-----------------------------------------------------------------------------

\* It holds in every reachable state.
THEOREM SerialInvariant == Spec => []SInv
  BY InitSInv, NextSerial, ScheduleInvariant, PTL DEF Spec

\* When requests did not overlap and none was undone half-way, a replica that
\* took part in the task's last change fires exactly what the row says, by
\* one entry it can remove again, whatever statements failed and whoever died.
THEOREM RegistrationIsRight == Spec => []RegistrationMatches
<1>1. IInv /\ SInv => RegistrationMatches
  <2> SUFFICES ASSUME IInv, SInv, Quiet, events \cap {"overlap", "undone"} = {}, NEW i \in informed
               PROVE  entries[i] = IF Scheduled THEN {[id |-> taskEntry[i], expr |-> task.expr]} ELSE {}
    BY DEF RegistrationMatches
  <2>1. Alone /\ RegisteredInv /\ \A s \in Slot : ~Busy(s)
    BY DEF SInv, Quiet
  <2>2. i \in up \ crowded /\ i \in Replica
    BY <2>1 DEF Alone, IInv, Columns
  <2>3. Exprs(entries[i]) = Planned
    BY <2>1, QuietNow
  <2>4. \A e \in entries[i] : e.id = taskEntry[i] /\ e = [id |-> e.id, expr |-> e.expr]
    <3>1. Known(i)
      BY <2>1, <2>2 DEF IInv, Settled, Works
    <3>2. entries[i] \subseteq [id : Nat \ {NoEntry}, expr : Expr]
      BY <2>2 DEF IInv, Scheduler
    <3> QED BY <3>1, <3>2 DEF Known, KnownAs
  <2>5. CASE Scheduled
    <3>1. \A e \in entries[i] : e.expr = task.expr
      BY <2>3, <2>5 DEF Exprs, Planned
    <3>2. entries[i] # {}
      BY <2>3, <2>5 DEF Exprs, Planned
    <3> QED BY <2>4, <2>5, <3>1, <3>2
  <2>6. CASE ~Scheduled
    BY <2>3, <2>6 DEF Exprs, Planned
  <2> QED BY <2>5, <2>6
<1> QED BY <1>1, ScheduleInvariant, SerialInvariant, PTL

\* Requests that do not overlap and are not cut short leave next_run_at
\* computed from the row's expression, or empty, BatchToggle excepted; runs
\* and starting processes never spoil it.
THEOREM NextRunIsRight == Spec => []NextRunMatches
<1>1. SInv => NextRunMatches
  BY DEF SInv, ShownInv, NextRunMatches, Quiet, Wanted, Scheduled
<1> QED BY <1>1, SerialInvariant, PTL
=============================================================================
