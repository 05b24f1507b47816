----------------------------- MODULE RateProofs -----------------------------
(***************************************************************************)
(* Theorems about RateLimit, and that it implements Limiter, for every      *)
(* number of replicas and requests, every window, limit and length of a    *)
(* lock, and any skew of the clocks that the assumptions allow.            *)
(***************************************************************************)
EXTENDS RateRefinement, FiniteSetTheorems, TLAPS

-----------------------------------------------------------------------------
(* Windows *)

\* The window of an instant contains it.
LEMMA WindowOf ==
  ASSUME NEW t \in Nat
  PROVE  WindowStart(t) \in Nat /\ WindowStart(t) <= t /\ t < WindowStart(t) + WindowLen
<1>1. t % WindowLen \in 0 .. WindowLen - 1 /\ t % WindowLen <= t
  BY RateAssumption
<1> QED
  BY <1>1, RateAssumption DEF WindowStart

LEMMA WindowNat == ASSUME NEW k \in Counter PROVE k[2] \in Nat
  BY WindowOf, RateAssumption DEF Counter, Window

LEMMA LocalNat ==
  ASSUME TypeOK, NEW p \in Proc
  PROVE  Local(p) \in Nat /\ Local(p) >= now /\ Local(p) <= now + MaxSkew
  BY RateAssumption DEF TypeOK, Local

-----------------------------------------------------------------------------
(* Types *)

LEMMA TypeInit == Init => TypeOK
  BY RateAssumption DEF Init, TypeOK, CallType, Idle

LEMMA TypeStep == TypeOK /\ [Next]_vars => TypeOK'
<1> SUFFICES ASSUME TypeOK, [Next]_vars PROVE TypeOK'
  OBVIOUS
<1> USE RateAssumption DEF TypeOK, Idle, Goto, At, Works, Fails, windowVars, loginVars
<1>0. \A p \in Proc : call[p] \in CallType
  OBVIOUS
<1>1. CASE UNCHANGED vars
  BY <1>1 DEF vars
<1>2. ASSUME NEW p \in Proc, NEW b \in Bucket, Ask(p, b) PROVE TypeOK'
  <2> DEFINE k == <<b, WindowStart(Local(p))>>
  <2>1. k \in Counter
    BY <1>2 DEF Ask, Counter
  <2>2. [at |-> "counting", key |-> k, age |-> 0] \in CallType
    BY <2>1 DEF CallType
  <2>3. call' \in [Proc -> CallType]
    BY <1>2, <2>2 DEF Ask
  <2>4. refused' \in [Counter -> BOOLEAN]
    BY <1>2, <2>1 DEF Ask
  <2>5. asks' \in Nat
    BY <1>2 DEF Ask
  <2> QED
    BY <1>2, <2>3, <2>4, <2>5 DEF Ask
<1>3. ASSUME NEW p \in Proc, NEW l \in Login, ReadLock(p, l) PROVE TypeOK'
  <2>1. \A place \in {"testing", "clearing"}, f \in BOOLEAN :
          [at |-> place, login |-> l, fresh |-> f] \in CallType
    BY DEF CallType
  <2>2. call' \in [Proc -> CallType]
    BY <1>3, <2>1 DEF ReadLock
  <2> QED
    BY <1>3, <2>2 DEF ReadLock
<1>4. ASSUME NEW p \in Proc, Count(p) PROVE TypeOK'
  <2> DEFINE k == call[p].key
  <2>1. k \in Counter
    BY <1>0, <1>4 DEF Count, CallType
  <2>2. [at |-> "noting", key |-> k] \in CallType /\ Idle \in CallType
    BY <2>1 DEF CallType
  <2>3. call' \in [Proc -> CallType]
    BY <1>4, <2>2 DEF Count
  <2>4. count' \in [Counter -> Nat] /\ touched' \in [Counter -> Nat]
    BY <1>4, <2>1 DEF Count, Upsert
  <2>5. passed' \in [Counter -> Nat] /\ refused' \in [Counter -> BOOLEAN]
    <3>1. CASE Allowed(count[k] + 1)
      BY <1>4, <2>1, <3>1 DEF Count
    <3>2. CASE ~Allowed(count[k] + 1)
      BY <1>4, <2>1, <3>2 DEF Count
    <3> QED
      BY <3>1, <3>2
  <2> QED
    BY <1>4, <2>3, <2>4, <2>5 DEF Count
<1>5. ASSUME NEW p \in Proc, CountFails(p) PROVE TypeOK'
  <2>1. call[p].key \in Counter /\ Idle \in CallType
    BY <1>0, <1>5 DEF CountFails, CallType
  <2>2. count' \in [Counter -> Nat] /\ touched' \in [Counter -> Nat]
    BY <1>5, <2>1 DEF CountFails, Upsert
  <2>3. call' \in [Proc -> CallType] /\ opened' \in [Counter -> Nat] /\ errors' \in Nat
    BY <1>5, <2>1 DEF CountFails
  <2> QED
    BY <1>5, <2>2, <2>3 DEF CountFails
<1>6. ASSUME NEW p \in Proc, SetDenied(p) PROVE TypeOK'
  <2>1. call[p].key \in Counter /\ Idle \in CallType
    BY <1>0, <1>6 DEF SetDenied, CallType
  <2>2. denied' \in [Replica -> SUBSET Counter]
    BY <1>6, <2>1 DEF SetDenied
  <2> QED
    BY <1>6, <2>1, <2>2 DEF SetDenied
<1>7. ASSUME NEW p \in Proc, Clear(p) PROVE TypeOK'
  <2>1. \A f \in BOOLEAN : [call[p] EXCEPT !.at = "testing", !.fresh = f] \in CallType
    BY <1>0, <1>7 DEF Clear, CallType
  <2>2. [call[p] EXCEPT !.at = "testing"] \in CallType
    BY <1>0, <1>7 DEF Clear, CallType
  <2>3. call' \in [Proc -> CallType]
    BY <1>7, <2>1, <2>2 DEF Clear
  <2> QED
    BY <1>7, <2>3 DEF Clear, ClearColumns, Restart
<1>8. ASSUME NEW p \in Proc, Test(p) PROVE TypeOK'
  <2>1. \A place \in {"failing", "resetting"} : [call[p] EXCEPT !.at = place] \in CallType
    BY <1>0, <1>8 DEF Test, CallType
  <2>2. Idle \in CallType
    BY DEF CallType
  <2>3. call' \in [Proc -> CallType]
    BY <1>8, <2>1, <2>2 DEF Test
  <2> QED
    BY <1>8, <2>3 DEF Test
<1>9. ASSUME NEW p \in Proc, CountFailure(p) PROVE TypeOK'
  <2>1. [call[p] EXCEPT !.at = "locking"] \in CallType /\ Idle \in CallType
    BY <1>0, <1>9 DEF CountFailure, CallType
  <2>2. call' \in [Proc -> CallType]
    BY <1>9, <2>1 DEF CountFailure
  <2> QED
    BY <1>9, <2>2 DEF CountFailure
<1>10. ASSUME NEW p \in Proc, SetLock(p) PROVE TypeOK'
  <2>1. call' \in [Proc -> CallType]
    BY <1>10 DEF SetLock, CallType
  <2> QED
    BY <1>10, <2>1 DEF SetLock
<1>11. ASSUME NEW p \in Proc, Reset(p) PROVE TypeOK'
  <2>1. call' \in [Proc -> CallType]
    BY <1>11 DEF Reset, CallType
  <2> QED
    BY <1>11, <2>1 DEF Reset, Restart
<1>12. CASE Cleanup
  BY <1>12 DEF Cleanup
<1>13. CASE Tick
  <2>1. \A p \in Proc : call'[p] \in CallType
    <3> SUFFICES ASSUME NEW p \in Proc PROVE call'[p] \in CallType
      OBVIOUS
    <3>1. CASE call[p].at = "counting"
      <4>1. call[p].age + 1 \in 0 .. Patience
        BY <1>0, <1>13, <3>1 DEF Tick, CallType
      <4>2. call'[p] = [call[p] EXCEPT !.age = @ + 1]
        BY <1>13, <3>1 DEF Tick
      <4> QED
        BY <1>0, <3>1, <4>1, <4>2 DEF CallType
    <3>2. CASE call[p].at \in {"testing", "clearing", "failing", "locking", "resetting"}
      <4>1. \E f \in BOOLEAN : call'[p] = [call[p] EXCEPT !.fresh = f]
        BY <1>0, <1>13, <3>2 DEF Tick, CallType
      <4> QED
        BY <1>0, <3>2, <4>1 DEF CallType
    <3>3. CASE call[p].at \in {"idle", "noting"}
      BY <1>0, <1>13, <3>3 DEF Tick
    <3> QED
      BY <1>0, <3>1, <3>2, <3>3 DEF CallType
  <2>2. call' \in [Proc -> CallType]
    BY <1>13, <2>1 DEF Tick
  <2>3. since' \in [Login -> Nat] /\ now' \in 0 .. Horizon
    BY <1>13 DEF Tick
  <2> QED
    BY <1>13, <2>2, <2>3 DEF Tick
<1> QED
  BY <1>1, <1>2, <1>3, <1>4, <1>5, <1>6, <1>7, <1>8, <1>9, <1>10, <1>11, <1>12, <1>13 DEF Next

\* The variables of the table of counters, of the caches, of the logins and of
\* the calls stay within their types.
THEOREM RateTypeCorrect == Spec => []TypeOK
<1>1. Init => TypeOK
  BY TypeInit
<1>2. TypeOK /\ [Next]_vars => TypeOK'
  BY TypeStep
<1> QED
  BY <1>1, <1>2, PTL DEF Spec

-----------------------------------------------------------------------------
(* The limit.  A request counts in a window that has begun, for its replica *)
(* and when it came, and not ended; a row is deleted only when no such      *)
(* request can be left, so until then the row has counted all that passed. *)

\* No request counts in this window any more.
Closed(k) == now >= k[2] + WindowLen + Patience

CountsInTime ==
  \A p \in Proc : At(p, "counting") =>
    LET c == call[p] IN
    /\ c.key[2] <= now + MaxSkew
    /\ now < c.key[2] + WindowLen + c.age

RowsStand ==
  \A k \in Counter :
    /\ count[k] > 0 => k[2] <= touched[k] + MaxSkew
    /\ passed[k] <= count[k] \/ Closed(k)

LimitInv == TypeOK /\ CountsInTime /\ RowsStand /\ LimitKept

LEMMA LimitStep == LimitInv /\ [Next]_vars => LimitInv'
<1> SUFFICES ASSUME LimitInv, [Next]_vars PROVE CountsInTime' /\ RowsStand' /\ LimitKept'
  BY TypeStep DEF LimitInv
<1>0. TypeOK /\ CountsInTime /\ RowsStand /\ LimitKept
  BY DEF LimitInv
<1>a. \A p \in Proc : call[p] \in CallType
  BY <1>0 DEF TypeOK
<1>n. now \in Nat /\ MaxSkew \in Nat /\ WindowLen \in Nat /\ Patience \in Nat /\ Keep \in Nat
  BY <1>0, RateAssumption DEF TypeOK
<1>c. count \in [Counter -> Nat] /\ touched \in [Counter -> Nat] /\ passed \in [Counter -> Nat]
  BY <1>0 DEF TypeOK
<1>k. \A k \in Counter : k[2] \in Nat
  BY WindowNat
<1>u. ASSUME UNCHANGED <<now, count, touched, passed>> PROVE RowsStand' /\ LimitKept'
  BY <1>0, <1>u DEF RowsStand, LimitKept, Closed
<1>w. ASSUME NEW p \in Proc, call'[p].at # "counting", now' = now,
             \A q \in Proc : q = p \/ call'[q] = call[q]
      PROVE  CountsInTime'
  BY <1>0, <1>w DEF CountsInTime, At
<1>p. call = [q \in Proc |-> call[q]]
  BY <1>0 DEF TypeOK
<1> USE DEF Goto, At, windowVars, loginVars
<1>1. CASE UNCHANGED vars
  BY <1>0, <1>1 DEF vars, CountsInTime, RowsStand, LimitKept, Closed
<1>2. ASSUME NEW p \in Proc, NEW b \in Bucket, Ask(p, b) PROVE CountsInTime' /\ RowsStand' /\ LimitKept'
  <2> DEFINE t == Local(p)
             k == <<b, WindowStart(t)>>
  <2>1. t \in Nat /\ t >= now /\ t <= now + MaxSkew
    BY <1>0, LocalNat
  <2>2. k[2] \in Nat /\ k[2] <= t /\ t < k[2] + WindowLen
    BY <2>1, WindowOf
  <2>3. CountsInTime'
    <3> SUFFICES ASSUME NEW q \in Proc, call'[q].at = "counting"
                 PROVE  /\ call'[q].key[2] <= now' + MaxSkew
                        /\ now' < call'[q].key[2] + WindowLen + call'[q].age
      BY DEF CountsInTime
    <3>1. now' = now
      BY <1>2 DEF Ask
    <3>2. CASE call'[q] = call[q]
      BY <1>0, <3>1, <3>2 DEF CountsInTime
    <3>3. CASE call'[q] = [at |-> "counting", key |-> k, age |-> 0]
      BY <1>n, <2>1, <2>2, <3>1, <3>3
    <3> QED
      BY <1>0, <1>2, <3>2, <3>3 DEF Ask, TypeOK
  <2> QED
    BY <1>2, <1>u, <2>3 DEF Ask
<1>3. ASSUME NEW p \in Proc, NEW l \in Login, ReadLock(p, l) PROVE CountsInTime' /\ RowsStand' /\ LimitKept'
  <2>1. CountsInTime'
    <3>1. call'[p].at # "counting" /\ now' = now /\ \A q \in Proc : q = p \/ call'[q] = call[q]
      BY <1>a, <1>p, <1>3 DEF ReadLock, CallType
    <3> QED
      BY <1>w, <3>1
  <2> QED
    BY <1>3, <1>u, <2>1 DEF ReadLock
<1>4. ASSUME NEW p \in Proc, Count(p) PROVE CountsInTime' /\ RowsStand' /\ LimitKept'
  <2> DEFINE k == call[p].key
  <2>1. k \in Counter /\ call[p].age \in 0 .. Patience
    BY <1>a, <1>4 DEF Count, CallType
  <2>2. k[2] <= now + MaxSkew /\ now < k[2] + WindowLen + call[p].age
    BY <1>0, <1>4 DEF Count, CountsInTime
  <2>3. ~Closed(k) /\ passed[k] <= count[k]
    BY <1>0, <1>n, <1>k, <2>1, <2>2 DEF Closed, RowsStand
  <2>4. CountsInTime'
    <3>1. call'[p].at # "counting" /\ now' = now /\ \A q \in Proc : q = p \/ call'[q] = call[q]
      BY <1>4, <1>p DEF Count, Idle
    <3> QED
      BY <1>w, <3>1
  <2>5. /\ now' = now
        /\ count' = [count EXCEPT ![k] = @ + 1]
        /\ touched' = [touched EXCEPT ![k] = now]
        /\ passed' = [passed EXCEPT ![k] = IF Allowed(count[k] + 1) THEN @ + 1 ELSE @]
    BY <1>4, <1>c DEF Count, Upsert
  <2>6. RowsStand'
    BY <1>0, <1>n, <1>c, <1>k, <2>1, <2>2, <2>3, <2>5 DEF RowsStand, Closed
  <2>7. LimitKept'
    BY <1>0, <1>c, <2>1, <2>3, <2>5, RateAssumption DEF LimitKept, Allowed
  <2> QED
    BY <2>4, <2>6, <2>7
<1>5. ASSUME NEW p \in Proc, CountFails(p) PROVE CountsInTime' /\ RowsStand' /\ LimitKept'
  <2> DEFINE k == call[p].key
  <2>1. k \in Counter /\ k[2] <= now + MaxSkew
    BY <1>0, <1>a, <1>5 DEF CountFails, CallType, CountsInTime
  <2>2. CountsInTime'
    <3>1. call'[p].at # "counting" /\ now' = now /\ \A q \in Proc : q = p \/ call'[q] = call[q]
      BY <1>5, <1>p DEF CountFails, Idle
    <3> QED
      BY <1>w, <3>1
  <2>3. UNCHANGED <<now, passed>>
    BY <1>5 DEF CountFails
  <2>4. CASE UNCHANGED <<count, touched>>
    BY <1>u, <2>2, <2>3, <2>4
  <2>5. CASE Upsert(k)
    BY <1>0, <1>n, <1>c, <1>k, <2>1, <2>2, <2>3, <2>5 DEF RowsStand, LimitKept, Closed, Upsert
  <2> QED
    BY <1>5, <2>4, <2>5 DEF CountFails
<1>6. ASSUME NEW p \in Proc, SetDenied(p) PROVE CountsInTime' /\ RowsStand' /\ LimitKept'
  <2>1. call'[p].at # "counting" /\ now' = now /\ \A q \in Proc : q = p \/ call'[q] = call[q]
    BY <1>6, <1>p DEF SetDenied, Idle
  <2>2. CountsInTime'
    BY <1>w, <2>1
  <2> QED
    BY <1>6, <1>u, <2>2 DEF SetDenied
<1>7. ASSUME NEW p \in Proc, Clear(p) PROVE CountsInTime' /\ RowsStand' /\ LimitKept'
  <2>1. call'[p].at # "counting" /\ now' = now /\ \A q \in Proc : q = p \/ call'[q] = call[q]
    BY <1>a, <1>p, <1>7 DEF Clear, CallType
  <2>2. CountsInTime'
    BY <1>w, <2>1
  <2> QED
    BY <1>7, <1>u, <2>2 DEF Clear
<1>8. ASSUME NEW p \in Proc, Test(p) PROVE CountsInTime' /\ RowsStand' /\ LimitKept'
  <2>1. CountsInTime'
    <3>1. call'[p].at # "counting" /\ now' = now /\ \A q \in Proc : q = p \/ call'[q] = call[q]
      BY <1>a, <1>p, <1>8 DEF Test, CallType, Idle
    <3> QED
      BY <1>w, <3>1
  <2> QED
    BY <1>8, <1>u, <2>1 DEF Test
<1>9. ASSUME NEW p \in Proc, CountFailure(p) PROVE CountsInTime' /\ RowsStand' /\ LimitKept'
  <2>1. CountsInTime'
    <3>1. call'[p].at # "counting" /\ now' = now /\ \A q \in Proc : q = p \/ call'[q] = call[q]
      BY <1>a, <1>p, <1>9 DEF CountFailure, CallType, Idle
    <3> QED
      BY <1>w, <3>1
  <2> QED
    BY <1>9, <1>u, <2>1 DEF CountFailure
<1>10. ASSUME NEW p \in Proc, SetLock(p) PROVE CountsInTime' /\ RowsStand' /\ LimitKept'
  <2>1. call'[p].at # "counting" /\ now' = now /\ \A q \in Proc : q = p \/ call'[q] = call[q]
    BY <1>10, <1>p DEF SetLock, Idle
  <2>2. CountsInTime'
    BY <1>w, <2>1
  <2> QED
    BY <1>10, <1>u, <2>2 DEF SetLock
<1>11. ASSUME NEW p \in Proc, Reset(p) PROVE CountsInTime' /\ RowsStand' /\ LimitKept'
  <2>1. call'[p].at # "counting" /\ now' = now /\ \A q \in Proc : q = p \/ call'[q] = call[q]
    BY <1>11, <1>p DEF Reset, Idle
  <2>2. CountsInTime'
    BY <1>w, <2>1
  <2> QED
    BY <1>11, <1>u, <2>2 DEF Reset
<1>12. CASE Cleanup
  <2>1. CountsInTime' /\ LimitKept'
    BY <1>0, <1>12 DEF Cleanup, CountsInTime, LimitKept
  <2>2. UNCHANGED <<now, touched, passed>>
    BY <1>12 DEF Cleanup
  <2>3. ASSUME NEW k \in Counter
        PROVE  count'[k] = count[k] \/ (count'[k] = 0 /\ count[k] > 0 /\ touched[k] < now - Keep)
    BY <1>c, <1>12 DEF Cleanup, Expired
  <2>4. ASSUME NEW k \in Counter, count[k] > 0, touched[k] < now - Keep PROVE Closed(k)
    BY <1>0, <1>n, <1>c, <1>k, <2>4, RateAssumption DEF RowsStand, Closed
  <2>5. RowsStand'
    BY <1>0, <1>c, <2>2, <2>3, <2>4 DEF RowsStand, Closed
  <2> QED
    BY <2>1, <2>5
<1>13. CASE Tick
  <2>1. now' = now + 1 /\ UNCHANGED <<count, touched, passed>>
    BY <1>13 DEF Tick
  <2>2. RowsStand' /\ LimitKept'
    BY <1>0, <1>n, <1>k, <2>1 DEF RowsStand, LimitKept, Closed
  <2>3. CountsInTime'
    <3> SUFFICES ASSUME NEW q \in Proc, call'[q].at = "counting"
                 PROVE  /\ call'[q].key[2] <= now' + MaxSkew
                        /\ now' < call'[q].key[2] + WindowLen + call'[q].age
      BY DEF CountsInTime
    <3>1. call[q].at = "counting" /\ call'[q] = [call[q] EXCEPT !.age = @ + 1]
      BY <1>a, <1>13 DEF Tick, CallType
    <3>2. /\ call[q].key \in Counter /\ call[q].age \in Nat
          /\ call'[q].key = call[q].key /\ call'[q].age = call[q].age + 1
      BY <1>a, <3>1 DEF CallType
    <3>3. call[q].key[2] <= now + MaxSkew /\ now < call[q].key[2] + WindowLen + call[q].age
      BY <1>0, <3>1 DEF CountsInTime
    <3> QED
      BY <1>n, <1>k, <2>1, <3>2, <3>3
  <2> QED
    BY <2>2, <2>3
<1> QED
  BY <1>1, <1>2, <1>3, <1>4, <1>5, <1>6, <1>7, <1>8, <1>9, <1>10, <1>11, <1>12, <1>13 DEF Next

\* No more than Limit requests of a window are allowed by their count, however
\* many replicas count, whatever their skew and their failures, and although
\* the cleaner deletes rows: Keep outlasts window, time-out and skew.
THEOREM LimitIsKept == Spec => []LimitKept
<1>1. Init => LimitInv
  BY TypeInit, RateAssumption DEF Init, LimitInv, CountsInTime, RowsStand, LimitKept, At, Idle
<1>2. LimitInv /\ [Next]_vars => LimitInv'
  BY LimitStep
<1>3. LimitInv => LimitKept
  BY DEF LimitInv
<1> QED
  BY <1>1, <1>2, <1>3, PTL DEF Spec

-----------------------------------------------------------------------------
(* Refusals.  A window that is refused, noted or in a cache is used up, and  *)
(* stays so: what has been let through is never taken back.                *)

UsedUp(k) == passed[k] + opened[k] >= Limit

RefusalInv ==
  /\ \A k \in Counter :
       /\ refused[k] => UsedUp(k)
       /\ count[k] <= passed[k] + opened[k] \/ UsedUp(k)
  /\ \A r \in Replica : \A k \in denied[r] : UsedUp(k)
  /\ \A p \in Proc : At(p, "noting") => UsedUp(call[p].key)

LEMMA RefusalStep == TypeOK /\ RefusalInv /\ [Next]_vars => RefusalInv'
<1> SUFFICES ASSUME TypeOK, RefusalInv, [Next]_vars PROVE RefusalInv'
  OBVIOUS
<1>a. \A p \in Proc : call[p] \in CallType
  BY DEF TypeOK
<1>p. call = [q \in Proc |-> call[q]] /\ Home \in [Proc -> Replica]
  BY RateAssumption DEF TypeOK
<1>c. /\ count \in [Counter -> Nat] /\ passed \in [Counter -> Nat] /\ opened \in [Counter -> Nat]
      /\ refused \in [Counter -> BOOLEAN] /\ denied \in [Replica -> SUBSET Counter] /\ Limit \in Nat
  BY RateAssumption DEF TypeOK
<1>k. \A p \in Proc : At(p, "counting") \/ At(p, "noting") => call[p].key \in Counter
  BY <1>a DEF CallType, At
\* A step that changes nothing but the call of a process which then notes
\* nothing.
<1>w. ASSUME NEW p \in Proc, UNCHANGED windowVars, call'[p].at # "noting",
             \A q \in Proc : q = p \/ call'[q] = call[q]
      PROVE  RefusalInv'
  BY <1>w DEF RefusalInv, UsedUp, At, windowVars
<1> USE DEF Goto, At
<1>1. CASE UNCHANGED vars
  BY <1>1 DEF vars, RefusalInv, UsedUp, windowVars
<1>2. ASSUME NEW p \in Proc, NEW b \in Bucket, Ask(p, b) PROVE RefusalInv'
  <2> DEFINE k == <<b, WindowStart(Local(p))>>
  <2>1. k \in Counter /\ UNCHANGED <<count, passed, opened, denied>>
    BY <1>2 DEF Ask, Counter
  <2>2. \A q \in Proc : call'[q] = call[q] \/ call'[q].at # "noting"
    BY <1>2, <1>p DEF Ask
  <2>3. CASE DeniedWithin(p, k)
    <3>1. UsedUp(k)
      BY <1>p, <2>3 DEF DeniedWithin, RefusalInv
    <3>2. refused' = [refused EXCEPT ![k] = TRUE]
      BY <1>2, <2>3 DEF Ask
    <3> QED
      BY <1>c, <2>1, <2>2, <3>1, <3>2 DEF RefusalInv, UsedUp
  <2>4. CASE ~DeniedWithin(p, k)
    <3>1. refused' = refused
      BY <1>2, <2>4 DEF Ask
    <3> QED
      BY <2>1, <2>2, <3>1 DEF RefusalInv, UsedUp
  <2> QED
    BY <2>3, <2>4
<1>3. ASSUME NEW p \in Proc, NEW l \in Login, ReadLock(p, l) PROVE RefusalInv'
  <2>1. call' = call \/ call'[p].at # "noting"
    BY <1>3, <1>p DEF ReadLock
  <2>2. \A q \in Proc : q = p \/ call'[q] = call[q]
    BY <1>3, <1>p DEF ReadLock
  <2>3. UNCHANGED windowVars
    BY <1>3 DEF ReadLock
  <2>4. CASE call' = call
    BY <2>3, <2>4 DEF RefusalInv, UsedUp, windowVars
  <2> QED
    BY <1>w, <2>1, <2>2, <2>3, <2>4
<1>4. ASSUME NEW p \in Proc, Count(p) PROVE RefusalInv'
  <2> DEFINE k == call[p].key
  <2>1. k \in Counter /\ UNCHANGED <<opened, denied>> /\ count' = [count EXCEPT ![k] = @ + 1]
    BY <1>4, <1>k DEF Count, Upsert
  <2>2. \A q \in Proc : q = p \/ call'[q] = call[q]
    BY <1>4, <1>p DEF Count
  <2>3. CASE Allowed(count[k] + 1)
    <3>1. /\ passed' = [passed EXCEPT ![k] = @ + 1] /\ refused' = refused
          /\ call'[p].at # "noting"
      BY <1>4, <1>p, <2>3 DEF Count, Idle
    <3>2. \A x \in Counter : UsedUp(x) => UsedUp(x)'
      BY <1>c, <2>1, <3>1 DEF UsedUp
    <3>3. \A x \in Counter : count'[x] <= passed'[x] + opened'[x] \/ UsedUp(x)'
      BY <1>c, <2>1, <3>1, <3>2 DEF RefusalInv
    <3> QED
      BY <1>c, <1>k, <2>1, <2>2, <3>1, <3>2, <3>3 DEF RefusalInv
  <2>4. CASE ~Allowed(count[k] + 1)
    <3>1. /\ passed' = passed /\ refused' = [refused EXCEPT ![k] = TRUE]
          /\ call'[p].key = k
      BY <1>4, <1>p, <2>4 DEF Count
    <3>2. UsedUp(k)
      BY <1>c, <2>1, <2>4 DEF RefusalInv, UsedUp, Allowed
    <3>3. \A x \in Counter : UsedUp(x) <=> UsedUp(x)'
      BY <2>1, <3>1 DEF UsedUp
    <3>4. \A x \in Counter : count'[x] <= passed'[x] + opened'[x] \/ UsedUp(x)'
      BY <1>c, <2>1, <3>1, <3>2, <3>3 DEF RefusalInv
    <3> QED
      BY <1>c, <1>k, <2>1, <2>2, <3>1, <3>2, <3>3, <3>4 DEF RefusalInv
  <2> QED
    BY <2>3, <2>4
<1>5. ASSUME NEW p \in Proc, CountFails(p) PROVE RefusalInv'
  <2> DEFINE k == call[p].key
  <2>1. /\ k \in Counter /\ UNCHANGED <<passed, refused, denied>>
        /\ opened' = [opened EXCEPT ![k] = @ + 1] /\ call'[p].at # "noting"
        /\ \A q \in Proc : q = p \/ call'[q] = call[q]
    BY <1>5, <1>k, <1>p DEF CountFails, Idle
  <2>2. count' = count \/ count' = [count EXCEPT ![k] = @ + 1]
    BY <1>5 DEF CountFails, Upsert
  <2>3. \A x \in Counter : UsedUp(x) => UsedUp(x)'
    BY <1>c, <2>1 DEF UsedUp
  <2>4. \A x \in Counter : count'[x] <= passed'[x] + opened'[x] \/ UsedUp(x)'
    BY <1>c, <2>1, <2>2, <2>3 DEF RefusalInv
  <2> QED
    BY <1>c, <1>k, <2>1, <2>3, <2>4 DEF RefusalInv
<1>6. ASSUME NEW p \in Proc, SetDenied(p) PROVE RefusalInv'
  <2>1. /\ UNCHANGED <<count, passed, opened, refused>> /\ call'[p].at # "noting"
        /\ \A q \in Proc : q = p \/ call'[q] = call[q]
    BY <1>6, <1>p DEF SetDenied, Idle
  <2>2. \A r \in Replica : denied'[r] \subseteq denied[r] \cup {call[p].key}
    BY <1>6, <1>c DEF SetDenied
  <2>3. UsedUp(call[p].key)
    BY <1>6 DEF SetDenied, RefusalInv
  <2> QED
    BY <2>1, <2>2, <2>3 DEF RefusalInv, UsedUp
<1>7. ASSUME NEW p \in Proc,
             Clear(p) \/ Test(p) \/ CountFailure(p) \/ SetLock(p) \/ Reset(p)
      PROVE  RefusalInv'
  <2>1. UNCHANGED windowVars /\ \A q \in Proc : q = p \/ call'[q] = call[q]
    BY <1>7, <1>p DEF Clear, Test, CountFailure, SetLock, Reset
  <2>2. call'[p].at # "noting"
    <3>1. CASE Clear(p)
      BY <3>1, <1>a, <1>p DEF Clear, CallType
    <3>2. CASE Test(p)
      BY <3>2, <1>a, <1>p DEF Test, CallType, Idle
    <3>3. CASE CountFailure(p)
      BY <3>3, <1>a, <1>p DEF CountFailure, CallType, Idle
    <3>4. CASE SetLock(p) \/ Reset(p)
      BY <3>4, <1>p DEF SetLock, Reset, Idle
    <3> QED
      BY <1>7, <3>1, <3>2, <3>3, <3>4
  <2> QED
    BY <1>w, <2>1, <2>2
<1>8. CASE Cleanup
  <2>1. /\ UNCHANGED <<passed, opened, refused, denied, call>>
        /\ \A k \in Counter : count'[k] = count[k] \/ count'[k] = 0
    BY <1>8, <1>c DEF Cleanup
  <2> QED
    BY <1>c, <2>1 DEF RefusalInv, UsedUp
<1>9. CASE Tick
  <2>1. UNCHANGED windowVars /\ \A p \in Proc : call'[p].at = "noting" => call'[p] = call[p]
    BY <1>9, <1>a DEF Tick, CallType
  <2> QED
    BY <2>1 DEF RefusalInv, UsedUp, windowVars
<1> QED
  BY <1>1, <1>2, <1>3, <1>4, <1>5, <1>6, <1>7, <1>8, <1>9 DEF Next

\* No request is refused, by the count or from a replica's cache, unless the
\* limit of its window has been used up: for caches of any size, clocks that
\* differ and upserts whose answers are lost.
THEOREM NoneRefusedEarly == Spec => []NoEarlyRefusal
<1>1. Init => TypeOK /\ RefusalInv
  BY TypeInit DEF Init, RefusalInv, At, Idle
<1>2. (TypeOK /\ RefusalInv) /\ [Next]_vars => (TypeOK /\ RefusalInv)'
  BY TypeStep, RefusalStep
<1>3. RefusalInv => NoEarlyRefusal
  BY DEF RefusalInv, NoEarlyRefusal, UsedUp
<1> QED
  BY <1>1, <1>2, <1>3, PTL DEF Spec

-----------------------------------------------------------------------------
(* The limiter.  A request is decided by Ask from the cache, by Count, or   *)
(* by CountFails; nothing else is seen from outside but the time.          *)

LEMMA RefinementStep ==
  LimitInv /\ RefusalInv /\ [Next]_vars => [Promise!Next]_(Promise!vars)
<1> SUFFICES ASSUME LimitInv, RefusalInv, [Next]_vars
             PROVE  Promise!Next \/ UNCHANGED Promise!vars
  OBVIOUS
<1>0. TypeOK /\ CountsInTime /\ RowsStand
  BY DEF LimitInv
<1>n. now \in Nat /\ MaxSkew \in Nat /\ WindowLen \in Nat \ {0} /\ Patience \in Nat /\ Limit \in Nat
  BY <1>0, RateAssumption DEF TypeOK
<1>c. /\ count \in [Counter -> Nat] /\ passed \in [Counter -> Nat] /\ opened \in [Counter -> Nat]
      /\ \A k \in Counter : k[2] \in Nat
  BY <1>0, WindowNat DEF TypeOK
\* Who is counting has a key whose window takes requests now, and the row
\* has counted all that passed.
<1>t. ASSUME NEW p \in Proc, At(p, "counting")
      PROVE  /\ call[p].key \in Counter /\ Promise!Open(call[p].key)
             /\ passed[call[p].key] <= count[call[p].key]
  <2> DEFINE k == call[p].key
  <2>1. k \in Counter /\ call[p].age \in 0 .. Patience
    BY <1>0, <1>t DEF TypeOK, CallType, At
  <2>2. k[2] <= now + MaxSkew /\ now < k[2] + WindowLen + call[p].age
    BY <1>0, <1>t DEF CountsInTime
  <2>3. now < k[2] + WindowLen + Patience
    BY <1>n, <1>c, <2>1, <2>2
  <2>4. ~Closed(k)
    BY <1>n, <1>c, <2>1, <2>3 DEF Closed
  <2> QED
    BY <1>0, <2>1, <2>2, <2>3, <2>4 DEF Promise!Open, RowsStand
<1>u. ASSUME UNCHANGED <<now, passed, opened, refused>> PROVE UNCHANGED Promise!vars
  BY <1>u DEF Promise!vars
<1> USE DEF windowVars
<1>1. CASE UNCHANGED vars
  BY <1>1, <1>u DEF vars
<1>2. ASSUME NEW p \in Proc, NEW b \in Bucket, Ask(p, b)
      PROVE  Promise!Next \/ UNCHANGED Promise!vars
  <2> DEFINE k == <<b, WindowStart(Local(p))>>
  <2>1. k \in Counter /\ UNCHANGED <<now, passed, opened>>
    BY <1>2 DEF Ask, Counter
  <2>2. CASE ~DeniedWithin(p, k)
    BY <1>2, <1>u, <2>1, <2>2 DEF Ask
  <2>3. CASE DeniedWithin(p, k)
    <3>1. Local(p) \in Nat /\ now <= Local(p) /\ Local(p) <= now + MaxSkew
      BY <1>0, LocalNat
    <3>2. k[2] \in Nat /\ k[2] <= Local(p) /\ Local(p) < k[2] + WindowLen
      BY <3>1, WindowOf
    <3>3. Promise!Open(k)
      BY <1>n, <3>1, <3>2 DEF Promise!Open
    <3>4. UsedUp(k)
      BY <2>3, RateAssumption DEF DeniedWithin, RefusalInv
    <3>5. refused' = [refused EXCEPT ![k] = TRUE]
      BY <1>2, <2>3 DEF Ask
    <3>6. Promise!Refuse(k)
      BY <2>1, <3>3, <3>4, <3>5 DEF Promise!Refuse, Promise!Used, UsedUp
    <3> QED
      BY <2>1, <3>6 DEF Promise!Next
  <2> QED
    BY <2>2, <2>3
<1>3. ASSUME NEW p \in Proc, NEW l \in Login, ReadLock(p, l) PROVE UNCHANGED Promise!vars
  BY <1>3, <1>u DEF ReadLock
<1>4. ASSUME NEW p \in Proc, Count(p) PROVE Promise!Next
  <2> DEFINE k == call[p].key
  <2>1. k \in Counter /\ Promise!Open(k) /\ passed[k] <= count[k] /\ UNCHANGED <<now, opened>>
    BY <1>4, <1>t DEF Count
  <2>2. CASE Allowed(count[k] + 1)
    <3>1. passed[k] < Limit
      BY <1>n, <1>c, <2>1, <2>2 DEF Allowed
    <3>2. passed' = [passed EXCEPT ![k] = @ + 1] /\ refused' = refused
      BY <1>4, <2>2 DEF Count
    <3>3. Promise!Admit(k)
      BY <2>1, <3>1, <3>2 DEF Promise!Admit
    <3> QED
      BY <2>1, <3>3 DEF Promise!Next
  <2>3. CASE ~Allowed(count[k] + 1)
    <3>1. passed[k] + opened[k] >= Limit
      BY <1>n, <1>c, <2>1, <2>3 DEF Allowed, RefusalInv, UsedUp
    <3>2. refused' = [refused EXCEPT ![k] = TRUE] /\ passed' = passed
      BY <1>4, <2>3 DEF Count
    <3>3. Promise!Refuse(k)
      BY <2>1, <3>1, <3>2 DEF Promise!Refuse, Promise!Used
    <3> QED
      BY <2>1, <3>3 DEF Promise!Next
  <2> QED
    BY <2>2, <2>3
<1>5. ASSUME NEW p \in Proc, CountFails(p) PROVE Promise!Next
  <2> DEFINE k == call[p].key
  <2>1. k \in Counter /\ Promise!Open(k)
    BY <1>5, <1>t DEF CountFails
  <2>2. Promise!LetThrough(k)
    BY <1>5, <2>1 DEF CountFails, Promise!LetThrough
  <2> QED
    BY <2>1, <2>2 DEF Promise!Next
<1>6. ASSUME NEW p \in Proc,
             \/ SetDenied(p) \/ Clear(p) \/ Test(p)
             \/ CountFailure(p) \/ SetLock(p) \/ Reset(p)
      PROVE  UNCHANGED Promise!vars
  BY <1>6, <1>u DEF SetDenied, Clear, Test, CountFailure, SetLock, Reset
<1>7. CASE Cleanup
  BY <1>7, <1>u DEF Cleanup
<1>8. CASE Tick
  BY <1>8 DEF Tick, Promise!Next, Promise!Pass
<1> QED
  BY <1>1, <1>2, <1>3, <1>4, <1>5, <1>6, <1>7, <1>8 DEF Next

\* Every request is decided as if in one step by the limiter: admitted while
\* fewer than Limit have been, refused when the limit of its own window is
\* used up, each in that window's time; for any replicas, caches, skew and
\* cleaning, although the code reads a cache, then writes a row, then a cache.
THEOREM RateImplementsLimiter == Spec => ImplementsLimiter
<1>1. Init => LimitInv /\ RefusalInv
  BY TypeInit, RateAssumption
     DEF Init, LimitInv, CountsInTime, RowsStand, LimitKept, RefusalInv, At, Idle
<1>2. Init => Promise!Init
  BY DEF Init, Promise!Init
<1>3. (LimitInv /\ RefusalInv) /\ [Next]_vars => (LimitInv /\ RefusalInv)'
  BY LimitStep, RefusalStep DEF LimitInv
<1>4. LimitInv /\ RefusalInv /\ [Next]_vars => [Promise!Next]_(Promise!vars)
  BY RefinementStep
<1> QED
  BY <1>1, <1>2, <1>3, <1>4, PTL DEF Spec, ImplementsLimiter, Promise!Spec

-----------------------------------------------------------------------------
(* Locks that have run out.  While a login that found no lock, or cleared    *)
(* one, is being served and none has run out since, the row holds no failure *)
(* older than that.                                                        *)

\* No lock, or one that every clock says goes on.
Firm(l) == until[l] = 0 \/ now + MaxSkew < until[l]

Serving(p) == call[p].at \in {"testing", "failing", "locking", "resetting"}

FreshInv ==
  /\ \A l \in Login : until[l] = 0 => fails[l] <= since[l]
  /\ \A p \in Proc : Serving(p) /\ call[p].fresh =>
       LET l == call[p].login IN Firm(l) /\ fails[l] <= since[l]

LEMMA FreshStep == TypeOK /\ FreshInv /\ [Next]_vars => FreshInv'
<1> SUFFICES ASSUME TypeOK, FreshInv, [Next]_vars PROVE FreshInv'
  OBVIOUS
<1>a. \A p \in Proc : call[p] \in CallType
  BY DEF TypeOK
<1>p. call = [q \in Proc |-> call[q]]
  BY DEF TypeOK
<1>n. now \in Nat /\ MaxSkew \in Nat /\ LockLen \in Nat /\ LockLen > MaxSkew
  BY RateAssumption DEF TypeOK
<1>c. fails \in [Login -> Nat] /\ until \in [Login -> Nat] /\ since \in [Login -> Nat]
  BY DEF TypeOK
<1>l. \A p \in Proc : At(p, "clearing") \/ Serving(p) => call[p].login \in Login
  BY <1>a DEF CallType, At, Serving
\* A step that leaves the table of logins alone, and the calls, but that of a
\* process which is not served afterwards, or was before as fresh as after.
<1>w. ASSUME NEW p \in Proc, UNCHANGED <<now, fails, until, since>>,
             \/ ~Serving(p)'
             \/ Serving(p) /\ call'[p].fresh = call[p].fresh /\ call'[p].login = call[p].login,
             \A q \in Proc : q = p \/ call'[q] = call[q]
      PROVE  FreshInv'
  BY <1>w DEF FreshInv, Serving, Firm
<1> USE DEF Goto, At
<1>1. CASE UNCHANGED vars
  BY <1>1 DEF vars, FreshInv, Serving, Firm, loginVars
<1>2. ASSUME NEW p \in Proc, (\E b \in Bucket : Ask(p, b)) \/ Count(p) \/ CountFails(p) \/ SetDenied(p)
      PROVE  FreshInv'
  <2>1. UNCHANGED <<now, fails, until, since>> /\ \A q \in Proc : q = p \/ call'[q] = call[q]
    BY <1>2, <1>p DEF Ask, Count, CountFails, SetDenied, loginVars
  <2>2. ~Serving(p)'
    <3>1. CASE \E b \in Bucket : Ask(p, b)
      <4>1. (call'[p] = call[p] /\ call[p].at = "idle") \/ call'[p].at = "counting"
        BY <1>p, <3>1 DEF Ask
      <4> QED
        BY <4>1 DEF Serving
    <3>2. CASE Count(p)
      <4>1. call'[p] = Idle \/ call'[p].at = "noting"
        BY <1>p, <3>2 DEF Count
      <4> QED
        BY <4>1 DEF Serving, Idle
    <3>3. CASE CountFails(p) \/ SetDenied(p)
      <4>1. call'[p] = Idle
        BY <1>p, <3>3 DEF CountFails, SetDenied
      <4> QED
        BY <4>1 DEF Serving, Idle
    <3> QED
      BY <1>2, <3>1, <3>2, <3>3
  <2> QED
    BY <1>w, <2>1, <2>2
<1>3. ASSUME NEW p \in Proc, NEW l \in Login, ReadLock(p, l) PROVE FreshInv'
  <2>1. UNCHANGED <<now, fails, until, since>> /\ \A q \in Proc : q = p \/ call'[q] = call[q]
    BY <1>3, <1>p DEF ReadLock, loginVars
  <2>2. CASE until[l] = 0 /\ call'[p] = [at |-> "testing", login |-> l, fresh |-> TRUE]
    BY <2>1, <2>2 DEF FreshInv, Serving, Firm
  <2>3. CASE ~Serving(p)'
    BY <1>w, <2>1, <2>3
  <2>4. CASE call'[p] = [at |-> "testing", login |-> l, fresh |-> FALSE]
    BY <2>1, <2>4 DEF FreshInv, Serving, Firm
  <2>5. CASE call' = call
    BY <2>1, <2>5 DEF FreshInv, Serving, Firm
  <2>6. \/ until[l] = 0 /\ call'[p] = [at |-> "testing", login |-> l, fresh |-> TRUE]
        \/ call'[p].at = "clearing"
        \/ call'[p] = [at |-> "testing", login |-> l, fresh |-> FALSE]
        \/ call' = call
    <3>1. \/ until[l] = 0 /\ call' = [call EXCEPT ![p] = [at |-> "testing", login |-> l, fresh |-> TRUE]]
          \/ call' = [call EXCEPT ![p] = [at |-> "clearing", login |-> l, fresh |-> TRUE]]
          \/ call' = [call EXCEPT ![p] = [at |-> "testing", login |-> l, fresh |-> FALSE]]
          \/ call' = call
      BY <1>3 DEF ReadLock
    <3>2. ASSUME NEW c, call' = [call EXCEPT ![p] = c] PROVE call'[p] = c
      BY <1>p, <3>2
    <3>3. CASE until[l] = 0 /\ call' = [call EXCEPT ![p] = [at |-> "testing", login |-> l, fresh |-> TRUE]]
      BY <3>2, <3>3
    <3>4. CASE call' = [call EXCEPT ![p] = [at |-> "clearing", login |-> l, fresh |-> TRUE]]
      BY <3>2, <3>4
    <3>5. CASE call' = [call EXCEPT ![p] = [at |-> "testing", login |-> l, fresh |-> FALSE]]
      BY <3>2, <3>5
    <3> QED
      BY <3>1, <3>3, <3>4, <3>5
  <2>7. call'[p].at = "clearing" => ~Serving(p)'
    BY DEF Serving
  <2> QED
    BY <2>2, <2>3, <2>4, <2>5, <2>6, <2>7
<1>4. ASSUME NEW p \in Proc, Clear(p) PROVE FreshInv'
  <2> DEFINE l == call[p].login
  <2>1. /\ l \in Login /\ UNCHANGED <<now, since>>
        /\ \A q \in Proc : q = p \/ call'[q] = call[q]
    BY <1>4, <1>l, <1>p DEF Clear
  <2>2. CASE ClearColumns(l) /\ call'[p].login = l
    <3>1. fails' = [fails EXCEPT ![l] = 0] /\ until' = [until EXCEPT ![l] = 0]
      BY <2>2 DEF ClearColumns, Restart
    <3>2. \A q \in Proc : Serving(q)' => q = p \/ Serving(q)
      BY <2>1 DEF Serving
    <3>3. \A q \in Proc : Serving(q) => call[q].login \in Login
      BY <1>l
    <3> QED
      BY <1>c, <2>1, <2>2, <3>1, <3>2, <3>3 DEF FreshInv, Firm, Serving
  <2>3. CASE UNCHANGED <<fails, until>> /\ call'[p].fresh = FALSE
    BY <2>1, <2>3 DEF FreshInv, Serving, Firm
  <2>4. call'[p].login = l
    BY <1>4, <1>a, <1>p DEF Clear, CallType
  <2>5. ~ClearColumns(l) => UNCHANGED <<fails, until>> /\ call'[p].fresh = FALSE
    <3>1. /\ call[p].at = "clearing" /\ call[p] \in CallType
          /\ \/ ClearColumns(l)
             \/ /\ UNCHANGED <<fails, until>>
                /\ call'[p] = [call[p] EXCEPT !.at = "testing", !.fresh = FALSE]
      BY <1>4, <1>a, <1>p DEF Clear
    <3>2. [call[p] EXCEPT !.at = "testing", !.fresh = FALSE].fresh = FALSE
      BY <3>1 DEF CallType
    <3> QED
      BY <3>1, <3>2
  <2> QED
    BY <2>2, <2>3, <2>4, <2>5
<1>5. ASSUME NEW p \in Proc, Test(p) PROVE FreshInv'
  <2>1. UNCHANGED <<now, fails, until, since>> /\ \A q \in Proc : q = p \/ call'[q] = call[q]
    BY <1>5, <1>p DEF Test
  <2>2. \/ ~Serving(p)'
        \/ Serving(p) /\ call'[p].fresh = call[p].fresh /\ call'[p].login = call[p].login
    BY <1>5, <1>a, <1>p DEF Test, CallType, Serving, Idle
  <2> QED
    BY <1>w, <2>1, <2>2
<1>6. ASSUME NEW p \in Proc, CountFailure(p) PROVE FreshInv'
  <2> DEFINE l == call[p].login
  <2>1. /\ l \in Login /\ Serving(p) /\ UNCHANGED <<now, until>>
        /\ \A q \in Proc : q = p \/ call'[q] = call[q]
    BY <1>6, <1>l, <1>p DEF CountFailure, Serving
  <2>2. \/ ~Serving(p)'
        \/ call'[p].fresh = call[p].fresh /\ call'[p].login = call[p].login
    BY <1>6, <1>a, <1>p DEF CountFailure, CallType, Serving, Idle
  <2>3. CASE UNCHANGED <<fails, since>>
    BY <1>w, <2>1, <2>2, <2>3
  <2>4. CASE fails' = [fails EXCEPT ![l] = @ + 1] /\ since' = [since EXCEPT ![l] = @ + 1]
    <3>1. \A m \in Login : fails[m] <= since[m] => fails'[m] <= since'[m]
      BY <1>c, <2>1, <2>4
    <3>2. \A q \in Proc : Serving(q) => call[q].login \in Login
      BY <1>l
    <3> QED
      BY <2>1, <2>2, <3>1, <3>2 DEF FreshInv, Firm, Serving
  <2> QED
    BY <1>6, <2>3, <2>4 DEF CountFailure
<1>7. ASSUME NEW p \in Proc, SetLock(p) PROVE FreshInv'
  <2> DEFINE l == call[p].login
  <2>1. /\ l \in Login /\ UNCHANGED <<now, fails, since>> /\ ~Serving(p)'
        /\ \A q \in Proc : q = p \/ call'[q] = call[q]
    BY <1>7, <1>l, <1>p DEF SetLock, Serving, Idle
  <2>2. CASE UNCHANGED until
    BY <1>w, <2>1, <2>2
  <2>3. CASE until' = [until EXCEPT ![l] = now + LockLen]
    <3>1. until'[l] # 0 /\ now + MaxSkew < until'[l]
      BY <1>n, <1>c, <2>1, <2>3
    <3>2. \A m \in Login : m # l => until'[m] = until[m]
      BY <1>c, <2>3
    <3>3. \A q \in Proc : Serving(q) => call[q].login \in Login
      BY <1>l
    <3> QED
      BY <2>1, <3>1, <3>2, <3>3 DEF FreshInv, Firm, Serving
  <2> QED
    BY <1>7, <2>2, <2>3 DEF SetLock
<1>8. ASSUME NEW p \in Proc, Reset(p) PROVE FreshInv'
  <2> DEFINE l == call[p].login
  <2>1. /\ l \in Login /\ UNCHANGED <<now, since>> /\ ~Serving(p)'
        /\ \A q \in Proc : q = p \/ call'[q] = call[q]
    BY <1>8, <1>l, <1>p DEF Reset, Serving, Idle
  <2>2. CASE UNCHANGED <<fails, until>>
    BY <1>w, <2>1, <2>2
  <2>3. CASE Restart(l)
    <3>1. fails' = [fails EXCEPT ![l] = 0] /\ until' = [until EXCEPT ![l] = 0]
      BY <2>3 DEF Restart
    <3>2. \A q \in Proc : Serving(q) => call[q].login \in Login
      BY <1>l
    <3> QED
      BY <1>c, <2>1, <3>1, <3>2 DEF FreshInv, Firm, Serving
  <2> QED
    BY <1>8, <2>2, <2>3 DEF Reset
<1>9. CASE Cleanup
  <2>1. /\ UNCHANGED <<now, since, call>>
        /\ \A l \in Login : \/ fails'[l] = fails[l] /\ until'[l] = until[l]
                            \/ fails'[l] = 0 /\ until'[l] = 0
    BY <1>9, <1>c DEF Cleanup
  <2>2. \A q \in Proc : Serving(q) => call[q].login \in Login
    BY <1>l
  <2> QED
    BY <1>c, <2>1, <2>2 DEF FreshInv, Firm, Serving
<1>10. CASE Tick
  <2>1. now' = now + 1 /\ UNCHANGED <<fails, until>>
    BY <1>10 DEF Tick
  <2>2. \A l \in Login : since'[l] = IF until[l] # 0 /\ until[l] = now + 1 + MaxSkew THEN 0 ELSE since[l]
    BY <1>10, <1>c DEF Tick
  <2>3. ASSUME NEW p \in Proc, Serving(p)', call'[p].fresh
        PROVE  /\ Serving(p) /\ call[p].fresh /\ call'[p].login = call[p].login
               /\ until[call[p].login] = 0 \/ until[call[p].login] # now + 1 + MaxSkew
    <3>1. call[p].at \in {"testing", "clearing", "failing", "locking", "resetting"}
      BY <1>10, <1>a, <2>3 DEF Tick, CallType, Serving
    <3>2. call[p].login \in Login /\ call[p].fresh \in BOOLEAN
      BY <1>a, <3>1 DEF CallType
    <3>3. call'[p] = [call[p] EXCEPT !.fresh =
                       @ /\ call[p].login \notin {l \in Login : until[l] # 0 /\ until[l] = now + 1 + MaxSkew}]
      BY <1>10, <3>1 DEF Tick
    <3>4. call'[p].at = call[p].at /\ call'[p].login = call[p].login
      BY <1>a, <3>1, <3>3 DEF CallType
    <3>5. call[p].fresh /\ call[p].login \notin {l \in Login : until[l] # 0 /\ until[l] = now + 1 + MaxSkew}
      BY <1>a, <2>3, <3>1, <3>3 DEF CallType
    <3> QED
      BY <2>3, <3>2, <3>4, <3>5 DEF Serving
  <2>4. \A l \in Login : until'[l] = 0 => fails'[l] <= since'[l]
    BY <2>1, <2>2 DEF FreshInv
  <2>5. ASSUME NEW p \in Proc, Serving(p)', call'[p].fresh
        PROVE  LET m == call'[p].login
               IN  (until'[m] = 0 \/ now' + MaxSkew < until'[m]) /\ fails'[m] <= since'[m]
    <3> DEFINE l == call[p].login
    <3>1. /\ Firm(l) /\ fails[l] <= since[l] /\ l \in Login /\ call'[p].login = l
          /\ until[l] = 0 \/ until[l] # now + 1 + MaxSkew
      BY <1>l, <2>3, <2>5 DEF FreshInv
    <3>2. until[l] = 0 \/ now + 1 + MaxSkew < until[l]
      BY <1>n, <1>c, <3>1 DEF Firm
    <3>3. since'[l] = since[l] /\ until'[l] = until[l] /\ fails'[l] = fails[l]
      BY <2>1, <2>2, <3>1
    <3>4. until'[l] = 0 \/ now' + MaxSkew < until'[l]
      BY <1>n, <1>c, <2>1, <3>1, <3>2, <3>3
    <3> QED
      BY <3>1, <3>3, <3>4
  <2> QED
    BY <2>4, <2>5 DEF FreshInv, Serving, Firm
<1> QED
  BY <1>1, <1>2, <1>3, <1>4, <1>5, <1>6, <1>7, <1>8, <1>9, <1>10 DEF Next

\* A lock that has run out is forgotten: a login that begins afterwards, and
\* whose check is answered, locks the account only after MaxFails failures
\* since - for any number of logins at once, clocks that differ by less than
\* the length of a lock, and whatever statements fail.
THEOREM RunOutIsForgotten == Spec => FreshStart
<1> DEFINE A == \A p \in Proc :
                  At(p, "locking") /\ call[p].fresh /\ call'[p] = Idle
                    /\ until'[call[p].login] # until[call[p].login]
                  => since[call[p].login] >= MaxFails
<1>1. Init => TypeOK /\ FreshInv
  BY TypeInit, RateAssumption DEF Init, FreshInv, Serving, Idle
<1>2. (TypeOK /\ FreshInv) /\ [Next]_vars => (TypeOK /\ FreshInv)'
  BY TypeStep, FreshStep
<1>3. TypeOK /\ FreshInv /\ [Next]_vars => A
  <2> SUFFICES ASSUME TypeOK, FreshInv, [Next]_vars, NEW p \in Proc,
                      At(p, "locking"), call[p].fresh, call'[p] = Idle,
                      until'[call[p].login] # until[call[p].login]
               PROVE  since[call[p].login] >= MaxFails
    OBVIOUS
  <2> DEFINE l == call[p].login
  <2>1. l \in Login /\ fails[l] <= since[l] /\ fails[l] \in Nat /\ since[l] \in Nat /\ MaxFails \in Nat
    BY RateAssumption DEF TypeOK, CallType, FreshInv, Serving, At
  <2>2. SetLock(p)
    <3>c. call \in [Proc -> CallType] /\ call[p] # Idle /\ until \in [Login -> Nat]
      BY DEF TypeOK, At, Idle
    <3> USE DEF At, Goto, Idle
    <3>1. ASSUME UNCHANGED vars PROVE FALSE
      BY <3>1 DEF vars, loginVars
    <3>2. ASSUME NEW q \in Proc, NEW b \in Bucket, Ask(q, b) PROVE FALSE
      BY <3>2 DEF Ask, loginVars
    <3>3. ASSUME NEW q \in Proc, NEW m \in Login, ReadLock(q, m) PROVE FALSE
      BY <3>3 DEF ReadLock, loginVars
    <3>4. ASSUME NEW q \in Proc, Count(q) \/ CountFails(q) \/ SetDenied(q) PROVE FALSE
      BY <3>4 DEF Count, CountFails, SetDenied, loginVars
    <3>5. ASSUME NEW q \in Proc, Clear(q) \/ Reset(q) PROVE FALSE
      BY <3>5, <3>c DEF Clear, Reset
    <3>6. ASSUME NEW q \in Proc, Test(q) \/ CountFailure(q) PROVE FALSE
      BY <3>6 DEF Test, CountFailure
    <3>7. ASSUME NEW q \in Proc, SetLock(q), q # p PROVE FALSE
      BY <3>7, <3>c DEF SetLock
    <3>8. ASSUME Cleanup PROVE FALSE
      BY <3>8, <3>c DEF Cleanup
    <3>9. ASSUME Tick PROVE FALSE
      BY <3>9 DEF Tick
    <3> QED
      BY <3>1, <3>2, <3>3, <3>4, <3>5, <3>6, <3>7, <3>8, <3>9 DEF Next
  <2>3. LockDue(l)
    BY <2>2 DEF SetLock
  <2> QED
    BY <2>1, <2>3 DEF LockDue
<1>4. FreshStart <=> [][A]_vars
  BY DEF FreshStart
<1> QED
  BY <1>1, <1>2, <1>3, <1>4, PTL DEF Spec

-----------------------------------------------------------------------------
(* Guesses.  Every wrong credential that was tested is counted, is about to  *)
(* be, or met an error; the last ones before the lock are those that were    *)
(* being served when it came.                                              *)

\* The logins at these places, and how many they are.
Among(l, P) == {p \in Proc : call[p].at \in P /\ call[p].login = l}

Testing(l)   == Cardinality(Among(l, {"testing"}))
Uncounted(l) == Cardinality(Among(l, {"failing"}))
Unlocked(l)  == Cardinality(Among(l, {"failing", "locking"}))

Guesses(l) ==
  /\ until[l] = 0 =>
       /\ tried[l] <= fails[l] + Uncounted(l) + errors
       /\ tried[l] <= MaxFails - 1 + Unlocked(l) + errors
  /\ until[l] # 0 => tried[l] + Testing(l) <= MaxFails - 1 + Cardinality(Proc) + errors

GuessInv == \A l \in Login : Guesses(l)

\* A process that comes to one of the places, or leaves it, changes their
\* number by one.
LEMMA Move ==
  ASSUME IsFiniteSet(Proc), NEW l, NEW P, NEW p \in Proc,
         \A q \in Proc : q = p \/ call'[q] = call[q]
  PROVE  LET S == Among(l, P)
             D == Among(l, P)'
         IN  /\ Cardinality(S) \in Nat /\ Cardinality(D) \in Nat
             /\ (p \in S <=> p \in D) => D = S
             /\ p \in S /\ p \notin D => Cardinality(D) = Cardinality(S) - 1
             /\ p \notin S /\ p \in D => Cardinality(D) = Cardinality(S) + 1
<1> DEFINE S == Among(l, P)
           D == Among(l, P)'
<1>1. S \subseteq Proc /\ D \subseteq Proc
  BY DEF Among
<1>2. IsFiniteSet(S) /\ IsFiniteSet(D)
  BY <1>1, FS_Subset
<1>3. Cardinality(S) \in Nat /\ Cardinality(D) \in Nat
  BY <1>2, FS_CardinalityType
<1>4. \A q \in Proc : q # p => (q \in S <=> q \in D)
  BY DEF Among
<1>5. ASSUME p \in S <=> p \in D PROVE D = S
  BY <1>1, <1>4, <1>5
<1>6. ASSUME p \in S, p \notin D PROVE Cardinality(D) = Cardinality(S) - 1
  <2>1. D = S \ {p}
    BY <1>1, <1>4, <1>6
  <2> HIDE DEF S, D
  <2> QED
    BY <1>2, <1>6, <2>1, FS_RemoveElement
<1>7. ASSUME p \notin S, p \in D PROVE Cardinality(D) = Cardinality(S) + 1
  <2>1. D = S \cup {p}
    BY <1>1, <1>4, <1>7
  <2> HIDE DEF S, D
  <2> QED
    BY <1>2, <1>7, <2>1, FS_AddElement
<1> QED
  BY <1>3, <1>5, <1>6, <1>7

\* Nobody is at two places, and nobody else is there than a process.
LEMMA Places ==
  ASSUME IsFiniteSet(Proc), NEW l
  PROVE  /\ Testing(l) \in Nat /\ Uncounted(l) \in Nat /\ Unlocked(l) \in Nat
         /\ Cardinality(Proc) \in Nat
         /\ Testing(l) + Unlocked(l) <= Cardinality(Proc)
<1> DEFINE T == Among(l, {"testing"})
           F == Among(l, {"failing"})
           B == Among(l, {"failing", "locking"})
<1>1. /\ T \subseteq Proc /\ F \subseteq Proc /\ B \subseteq Proc
      /\ T \cap B = {} /\ (T \cup B) \subseteq Proc
  BY DEF Among
<1>2. Testing(l) = Cardinality(T) /\ Uncounted(l) = Cardinality(F) /\ Unlocked(l) = Cardinality(B)
  BY DEF Testing, Uncounted, Unlocked
<1> HIDE DEF T, F, B
<1>3. IsFiniteSet(T) /\ IsFiniteSet(F) /\ IsFiniteSet(B) /\ IsFiniteSet(T \cup B)
  BY <1>1, FS_Subset
<1>4. Cardinality(T) \in Nat /\ Cardinality(F) \in Nat /\ Cardinality(B) \in Nat /\ Cardinality(Proc) \in Nat
  BY <1>3, FS_CardinalityType
<1>5. Cardinality(T \cup B) <= Cardinality(Proc)
  BY <1>1, FS_Subset
<1>6. Cardinality(T \cup B) = Cardinality(T) + Cardinality(B)
  <2>1. Cardinality(T \cup B) = Cardinality(T) + Cardinality(B) - Cardinality(T \cap B)
    BY <1>3, FS_Union
  <2>2. Cardinality(T \cap B) = 0
    BY <1>1, FS_EmptySet
  <2> QED
    BY <1>4, <2>1, <2>2
<1> QED
  BY <1>2, <1>4, <1>5, <1>6


\* One that is about to lock is not one whose failure is still to be counted.
LEMMA LockerCounted ==
  ASSUME IsFiniteSet(Proc), NEW p \in Proc, call[p].at = "locking"
  PROVE  Uncounted(call[p].login) <= Unlocked(call[p].login) - 1
<1> DEFINE F == Among(call[p].login, {"failing"})
           B == Among(call[p].login, {"failing", "locking"})
<1>1. B \subseteq Proc /\ p \in B /\ F \subseteq B \ {p}
  BY DEF Among
<1>2. Uncounted(call[p].login) = Cardinality(F) /\ Unlocked(call[p].login) = Cardinality(B)
  BY DEF Uncounted, Unlocked
<1> HIDE DEF F, B
<1>3. IsFiniteSet(B) /\ IsFiniteSet(B \ {p})
  BY <1>1, FS_Subset
<1>4. Cardinality(B \ {p}) = Cardinality(B) - 1
  BY <1>1, <1>3, FS_RemoveElement
<1>5. Cardinality(F) <= Cardinality(B \ {p})
  BY <1>1, <1>3, FS_Subset
<1> QED
  BY <1>2, <1>4, <1>5

LEMMA GuessStep ==
  ASSUME IsFiniteSet(Proc), TypeOK, GuessInv, [Next]_vars
  PROVE  GuessInv'
<1>a. \A p \in Proc : call[p] \in CallType
  BY DEF TypeOK
<1>p. call = [q \in Proc |-> call[q]]
  BY DEF TypeOK
<1>n. now \in Nat /\ LockLen \in Nat \ {0} /\ MaxFails \in Nat \ {0} /\ errors \in Nat
  BY RateAssumption DEF TypeOK
<1>c. fails \in [Login -> Nat] /\ until \in [Login -> Nat] /\ tried \in [Login -> Nat]
  BY DEF TypeOK
<1>i. \A l \in Login : Guesses(l)
  BY DEF GuessInv
\* The row and the numbers of a login stay; errors only increase.
<1>w. ASSUME NEW l \in Login, errors' \in Nat, errors' >= errors,
             fails'[l] = fails[l], until'[l] = until[l], tried'[l] = tried[l],
             Testing(l)' = Testing(l), Uncounted(l)' = Uncounted(l), Unlocked(l)' = Unlocked(l)
      PROVE  Guesses(l)'
  BY <1>c, <1>i, <1>n, <1>w, Places DEF Guesses
\* So they do when the process that moves has nothing to do with the login.
<1>o. ASSUME NEW p \in Proc, NEW l \in Login,
             \A q \in Proc : q = p \/ call'[q] = call[q],
             call[p].at \in {"testing", "failing", "locking"} => call[p].login # l,
             call'[p].at \in {"testing", "failing", "locking"} => call'[p].login # l
      PROVE  Testing(l)' = Testing(l) /\ Uncounted(l)' = Uncounted(l) /\ Unlocked(l)' = Unlocked(l)
  <2>1. /\ Among(l, {"testing"})' = Among(l, {"testing"})
        /\ Among(l, {"failing"})' = Among(l, {"failing"})
        /\ Among(l, {"failing", "locking"})' = Among(l, {"failing", "locking"})
    BY <1>o DEF Among
  <2> QED
    BY <2>1 DEF Testing, Uncounted, Unlocked
\* The numbers of a login count the process that moves where it is.
<1>m. ASSUME NEW p \in Proc, NEW l \in Login, \A q \in Proc : q = p \/ call'[q] = call[q]
      PROVE  LET In(P)   == IF call[p].at \in P /\ call[p].login = l THEN 1 ELSE 0
                 Into(P) == IF call'[p].at \in P /\ call'[p].login = l THEN 1 ELSE 0
             IN  /\ Testing(l)' = Testing(l) - In({"testing"}) + Into({"testing"})
                 /\ Uncounted(l)' = Uncounted(l) - In({"failing"}) + Into({"failing"})
                 /\ Unlocked(l)' = Unlocked(l) - In({"failing", "locking"}) + Into({"failing", "locking"})
  <2>1. ASSUME NEW P
        PROVE  Cardinality(Among(l, P)') = Cardinality(Among(l, P))
                  - (IF call[p].at \in P /\ call[p].login = l THEN 1 ELSE 0)
                  + (IF call'[p].at \in P /\ call'[p].login = l THEN 1 ELSE 0)
    <3> DEFINE S == Among(l, P)
               D == Among(l, P)'
    <3>1. (p \in S <=> call[p].at \in P /\ call[p].login = l)
          /\ (p \in D <=> call'[p].at \in P /\ call'[p].login = l)
      BY DEF Among
    <3>2. /\ Cardinality(S) \in Nat /\ Cardinality(D) \in Nat
          /\ (p \in S <=> p \in D) => D = S
          /\ p \in S /\ p \notin D => Cardinality(D) = Cardinality(S) - 1
          /\ p \notin S /\ p \in D => Cardinality(D) = Cardinality(S) + 1
      BY <1>m, Move
    <3> QED
      BY <3>1, <3>2
  <2> QED
    BY <2>1 DEF Testing, Uncounted, Unlocked
<1> USE DEF Goto, At
<1>1. CASE UNCHANGED vars
  BY <1>1, <1>i DEF vars, loginVars, GuessInv, Guesses, Testing, Uncounted, Unlocked, Among
<1>2. ASSUME NEW p \in Proc, (\E b \in Bucket : Ask(p, b)) \/ Count(p) \/ CountFails(p) \/ SetDenied(p)
      PROVE  GuessInv'
  <2>1. UNCHANGED <<fails, until, tried>> /\ \A q \in Proc : q = p \/ call'[q] = call[q]
    BY <1>2, <1>p DEF Ask, Count, CountFails, SetDenied, loginVars
  <2>e. errors' = errors \/ errors' = errors + 1
    BY <1>2 DEF Ask, Count, CountFails, SetDenied, Fails
  <2>f. errors' \in Nat /\ errors' >= errors
    BY <1>n, <2>e
  <2>2. call[p].at \notin {"testing", "failing", "locking"}
    BY <1>2 DEF Ask, Count, CountFails, SetDenied
  <2>3. call'[p].at \notin {"testing", "failing", "locking"}
    <3>1. CASE \E b \in Bucket : Ask(p, b)
      <4>1. (call'[p] = call[p] /\ call[p].at = "idle") \/ call'[p].at = "counting"
        BY <1>p, <3>1 DEF Ask
      <4> QED
        BY <4>1
    <3>2. CASE Count(p)
      <4>1. call'[p] = Idle \/ call'[p].at = "noting"
        BY <1>p, <3>2 DEF Count
      <4> QED
        BY <4>1 DEF Idle
    <3>3. CASE CountFails(p) \/ SetDenied(p)
      <4>1. call'[p] = Idle
        BY <1>p, <3>3 DEF CountFails, SetDenied
      <4> QED
        BY <4>1 DEF Idle
    <3> QED
      BY <1>2, <3>1, <3>2, <3>3
  <2> QED
    BY <1>w, <1>o, <2>1, <2>f, <2>2, <2>3 DEF GuessInv
<1>3. ASSUME NEW p \in Proc, NEW m \in Login, ReadLock(p, m) PROVE GuessInv'
  <2>1. /\ UNCHANGED <<fails, until, tried>> /\ \A q \in Proc : q = p \/ call'[q] = call[q]
        /\ errors' \in Nat /\ call[p].at = "idle"
    BY <1>3, <1>p, <1>n DEF ReadLock, loginVars, Works, Fails
  <2>2. \/ until[m] = 0 /\ errors' = errors /\ call'[p].at = "testing" /\ call'[p].login = m
        \/ errors' = errors /\ call'[p].at = "clearing"
        \/ errors' = errors + 1 /\ call'[p].at = "testing" /\ call'[p].login = m
        \/ errors' = errors /\ call'[p].at = "idle"
    <3>1. \/ until[m] = 0 /\ errors' = errors /\ call' = [call EXCEPT ![p] = [at |-> "testing", login |-> m, fresh |-> TRUE]]
          \/ errors' = errors /\ call' = [call EXCEPT ![p] = [at |-> "clearing", login |-> m, fresh |-> TRUE]]
          \/ errors' = errors + 1 /\ call' = [call EXCEPT ![p] = [at |-> "testing", login |-> m, fresh |-> FALSE]]
          \/ errors' = errors /\ call' = call
      BY <1>3 DEF ReadLock, Works, Fails
    <3>2. ASSUME NEW c, call' = [call EXCEPT ![p] = c] PROVE call'[p] = c
      BY <1>p, <3>2
    <3>3. CASE until[m] = 0 /\ errors' = errors /\ call' = [call EXCEPT ![p] = [at |-> "testing", login |-> m, fresh |-> TRUE]]
      BY <3>2, <3>3
    <3>4. CASE errors' = errors /\ call' = [call EXCEPT ![p] = [at |-> "clearing", login |-> m, fresh |-> TRUE]]
      BY <3>2, <3>4
    <3>5. CASE errors' = errors + 1 /\ call' = [call EXCEPT ![p] = [at |-> "testing", login |-> m, fresh |-> FALSE]]
      BY <3>2, <3>5
    <3>6. CASE errors' = errors /\ call' = call
      BY <2>1, <3>6
    <3> QED
      BY <3>1, <3>3, <3>4, <3>5, <3>6
  <2>3. ASSUME NEW l \in Login, call'[p].at = "testing" => l # m PROVE Guesses(l)'
    <3>1. errors' >= errors
      BY <1>n, <2>2
    <3>2. call'[p].at \in {"testing", "failing", "locking"} => call'[p].login # l
      BY <2>2, <2>3
    <3> QED
      BY <1>w, <1>o, <2>1, <3>1, <3>2
  <2>4. ASSUME call'[p].at = "testing" PROVE Guesses(m)'
    <3>1. call'[p].login = m /\ (errors' = errors + 1 \/ (until[m] = 0 /\ errors' = errors))
      BY <2>2, <2>4
    <3>2. Testing(m)' = Testing(m) + 1 /\ Uncounted(m)' = Uncounted(m) /\ Unlocked(m)' = Unlocked(m)
      BY <1>m, <2>1, <2>4, <3>1, Places
    <3> QED
      BY <1>c, <1>i, <1>n, <2>1, <3>1, <3>2, Places DEF Guesses
  <2> QED
    BY <2>3, <2>4 DEF GuessInv
<1>4. ASSUME NEW p \in Proc, Clear(p) \/ Test(p) \/ CountFailure(p) \/ SetLock(p) \/ Reset(p)
      PROVE  GuessInv'
  <2>c. call[p] \in [at : {"testing", "clearing", "failing", "locking", "resetting"},
                     login : Login, fresh : BOOLEAN]
    BY <1>4, <1>a DEF Clear, Test, CountFailure, SetLock, Reset, CallType
  <2>0. PICK m \in Login : m = call[p].login
    BY <2>c
  <2>1. \A q \in Proc : q = p \/ call'[q] = call[q]
    BY <1>4, <1>p DEF Clear, Test, CountFailure, SetLock, Reset
  <2>2. call'[p].at = "idle" \/ call'[p].login = m
    <3>1. \/ call'[p] = Idle
          \/ \E place \in {"testing", "failing", "resetting", "locking"} :
                call'[p] = [call[p] EXCEPT !.at = place]
          \/ call'[p] = [call[p] EXCEPT !.at = "testing", !.fresh = FALSE]
      BY <1>4, <1>p DEF Clear, Test, CountFailure, SetLock, Reset
    <3>2. CASE call'[p] = Idle
      BY <3>2 DEF Idle
    <3>3. ASSUME NEW place, call'[p] = [call[p] EXCEPT !.at = place] PROVE call'[p].login = m
      BY <2>c, <2>0, <3>3
    <3>4. CASE call'[p] = [call[p] EXCEPT !.at = "testing", !.fresh = FALSE]
      BY <2>c, <2>0, <3>4
    <3> QED
      BY <3>1, <3>2, <3>3, <3>4
  <2>3. errors' \in Nat /\ (errors' = errors \/ errors' = errors + 1)
    BY <1>4, <1>n DEF Clear, Test, CountFailure, SetLock, Reset, Works, Fails
  <2>4. \A l \in Login : l # m => fails'[l] = fails[l] /\ until'[l] = until[l] /\ tried'[l] = tried[l]
    BY <1>4, <1>c, <2>0 DEF Clear, ClearColumns, Test, CountFailure, SetLock, Reset, Restart
  <2>5. ASSUME NEW l \in Login, l # m PROVE Guesses(l)'
    <3>1. /\ call[p].at \in {"testing", "failing", "locking"} => call[p].login # l
          /\ call'[p].at \in {"testing", "failing", "locking"} => call'[p].login # l
      BY <2>0, <2>2, <2>5
    <3>2. Testing(l)' = Testing(l) /\ Uncounted(l)' = Uncounted(l) /\ Unlocked(l)' = Unlocked(l)
      BY <1>o, <2>1, <3>1
    <3> QED
      BY <1>n, <1>w, <2>3, <2>4, <2>5, <3>2
  <2>g. /\ Guesses(m) /\ tried[m] \in Nat /\ fails[m] \in Nat /\ until[m] \in Nat
        /\ Testing(m) \in Nat /\ Uncounted(m) \in Nat /\ Unlocked(m) \in Nat
        /\ Cardinality(Proc) \in Nat /\ Testing(m) + Unlocked(m) <= Cardinality(Proc)
    BY <1>c, <1>i, <2>1, Places
  <2>6. CASE Clear(p)
    <3>1. call[p].at = "clearing" /\ call'[p].at = "testing" /\ call'[p].login = m
      <4>1. \/ call'[p] = [call[p] EXCEPT !.at = "testing"]
            \/ call'[p] = [call[p] EXCEPT !.at = "testing", !.fresh = FALSE]
        BY <1>p, <2>6 DEF Clear
      <4>2. CASE call'[p] = [call[p] EXCEPT !.at = "testing"]
        BY <2>0, <2>6, <2>c, <4>2 DEF Clear
      <4>3. CASE call'[p] = [call[p] EXCEPT !.at = "testing", !.fresh = FALSE]
        BY <2>0, <2>6, <2>c, <4>3 DEF Clear
      <4> QED
        BY <4>1, <4>2, <4>3
    <3>2. Testing(m)' = Testing(m) + 1 /\ Uncounted(m)' = Uncounted(m) /\ Unlocked(m)' = Unlocked(m)
      BY <1>m, <2>0, <2>1, <2>g, <3>1
    <3>3. ASSUME Restart(m) PROVE Guesses(m)'
      <4>1. fails'[m] = 0 /\ until'[m] = 0 /\ tried'[m] = 0
        BY <1>c, <3>3 DEF Restart
      <4>2. Uncounted(m)' + errors' >= 0 /\ MaxFails - 1 + Unlocked(m)' + errors' >= 0
        BY <1>n, <2>3, <2>g, <3>2
      <4> QED
        BY <1>n, <2>3, <2>g, <3>2, <4>1, <4>2 DEF Guesses
    <3>4. ASSUME errors' = errors + 1, UNCHANGED <<fails, until, tried>> PROVE Guesses(m)'
      BY <1>n, <2>g, <3>2, <3>4 DEF Guesses
    <3>5. Guesses(m)'
      BY <2>0, <2>6, <3>3, <3>4 DEF Clear, ClearColumns, Fails
    <3> QED
      BY <2>5, <3>5 DEF GuessInv
  <2>7. CASE Test(p)
    <3>1. UNCHANGED <<fails, until, errors>> /\ call[p].at = "testing"
      BY <2>7 DEF Test
    <3>2. \/ tried'[m] = tried[m] + 1 /\ call'[p].at = "failing" /\ call'[p].login = m
          \/ tried'[m] = tried[m] /\ call'[p].at \in {"idle", "resetting"}
      BY <1>c, <1>p, <2>0, <2>7, <2>c DEF Test, Idle
    <3>3. CASE tried'[m] = tried[m] + 1 /\ call'[p].at = "failing" /\ call'[p].login = m
      <4>1. Testing(m)' = Testing(m) - 1 /\ Uncounted(m)' = Uncounted(m) + 1 /\ Unlocked(m)' = Unlocked(m) + 1
        BY <1>m, <2>0, <2>1, <2>g, <3>1, <3>3
      <4> QED
        BY <1>n, <2>5, <2>g, <3>1, <3>3, <4>1 DEF Guesses, GuessInv
    <3>4. CASE tried'[m] = tried[m] /\ call'[p].at \in {"idle", "resetting"}
      <4>1. Testing(m)' = Testing(m) - 1 /\ Uncounted(m)' = Uncounted(m) /\ Unlocked(m)' = Unlocked(m)
        BY <1>m, <2>0, <2>1, <2>g, <3>1, <3>4
      <4> QED
        BY <1>n, <2>5, <2>g, <3>1, <3>4, <4>1 DEF Guesses, GuessInv
    <3> QED
      BY <3>2, <3>3, <3>4
  <2>8. CASE CountFailure(p)
    <3>1. UNCHANGED <<until, tried>> /\ call[p].at = "failing"
      BY <2>8 DEF CountFailure
    <3>2. \/ fails'[m] = fails[m] + 1 /\ errors' = errors /\ call'[p].at = "locking" /\ call'[p].login = m
          \/ fails'[m] = fails[m] /\ errors' = errors + 1 /\ call'[p].at = "idle"
      BY <1>c, <1>p, <2>0, <2>8, <2>c DEF CountFailure, Idle, Works, Fails
    <3>3. CASE fails'[m] = fails[m] + 1 /\ errors' = errors /\ call'[p].at = "locking" /\ call'[p].login = m
      <4>1. Testing(m)' = Testing(m) /\ Uncounted(m)' = Uncounted(m) - 1 /\ Unlocked(m)' = Unlocked(m)
        BY <1>m, <2>0, <2>1, <2>g, <3>1, <3>3
      <4> QED
        BY <1>n, <2>5, <2>g, <3>1, <3>3, <4>1 DEF Guesses, GuessInv
    <3>4. CASE fails'[m] = fails[m] /\ errors' = errors + 1 /\ call'[p].at = "idle"
      <4>1. Testing(m)' = Testing(m) /\ Uncounted(m)' = Uncounted(m) - 1 /\ Unlocked(m)' = Unlocked(m) - 1
        BY <1>m, <2>0, <2>1, <2>g, <3>1, <3>4
      <4> QED
        BY <1>n, <2>5, <2>g, <3>1, <3>4, <4>1 DEF Guesses, GuessInv
    <3> QED
      BY <3>2, <3>3, <3>4
  <2>9. CASE SetLock(p)
    <3>1. UNCHANGED <<fails, tried>> /\ call[p].at = "locking" /\ call'[p].at = "idle"
      BY <1>p, <2>9 DEF SetLock, Idle
    <3>2. Testing(m)' = Testing(m) /\ Uncounted(m)' = Uncounted(m) /\ Unlocked(m)' = Unlocked(m) - 1
      BY <1>m, <2>0, <2>1, <2>g, <3>1
    <3>3. CASE errors' = errors /\ fails[m] >= MaxFails /\ until'[m] = now + LockLen
      <4>1. tried[m] + Testing(m) <= MaxFails - 1 + Cardinality(Proc) + errors
        BY <1>n, <2>g DEF Guesses
      <4> QED
        BY <1>n, <2>5, <2>g, <3>1, <3>2, <3>3, <4>1 DEF Guesses, GuessInv
    <3>4. CASE errors' = errors /\ fails[m] < MaxFails /\ until'[m] = until[m]
      <4>1. Uncounted(m) <= Unlocked(m) - 1
        BY <2>0, <3>1, LockerCounted
      <4> QED
        BY <1>n, <2>5, <2>g, <3>1, <3>2, <3>4, <4>1 DEF Guesses, GuessInv
    <3>5. CASE errors' = errors + 1 /\ until'[m] = until[m]
      BY <1>n, <2>5, <2>g, <3>1, <3>2, <3>5 DEF Guesses, GuessInv
    <3> QED
      BY <1>c, <1>n, <2>0, <2>9, <2>g, <3>3, <3>4, <3>5 DEF SetLock, LockDue, Works, Fails
  <2>10. CASE Reset(p)
    <3>1. call[p].at = "resetting" /\ call'[p].at = "idle"
      BY <1>p, <2>10 DEF Reset, Idle
    <3>2. Testing(m)' = Testing(m) /\ Uncounted(m)' = Uncounted(m) /\ Unlocked(m)' = Unlocked(m)
      BY <1>m, <2>0, <2>1, <2>g, <3>1
    <3>3. ASSUME Restart(m) PROVE Guesses(m)'
      <4>1. fails'[m] = 0 /\ until'[m] = 0 /\ tried'[m] = 0
        BY <1>c, <3>3 DEF Restart
      <4> QED
        BY <1>n, <2>3, <2>g, <3>2, <4>1 DEF Guesses
    <3>4. ASSUME errors' = errors + 1, UNCHANGED <<fails, until, tried>> PROVE Guesses(m)'
      BY <1>n, <2>g, <3>2, <3>4 DEF Guesses
    <3>5. Guesses(m)'
      BY <2>0, <2>10, <3>3, <3>4 DEF Reset, Fails
    <3> QED
      BY <2>5, <3>5 DEF GuessInv
  <2> QED
    BY <1>4, <2>6, <2>7, <2>8, <2>9, <2>10
<1>5. CASE Cleanup
  <2>1. /\ UNCHANGED <<call, errors>>
        /\ \A l \in Login : \/ fails'[l] = fails[l] /\ until'[l] = until[l] /\ tried'[l] = tried[l]
                            \/ fails'[l] = 0 /\ until'[l] = 0 /\ tried'[l] = 0
    BY <1>5, <1>c DEF Cleanup
  <2>2. ASSUME NEW l \in Login PROVE Guesses(l)'
    <3>1. Testing(l)' = Testing(l) /\ Uncounted(l)' = Uncounted(l) /\ Unlocked(l)' = Unlocked(l)
      BY <2>1 DEF Testing, Uncounted, Unlocked, Among
    <3>2. CASE fails'[l] = fails[l] /\ until'[l] = until[l] /\ tried'[l] = tried[l]
      BY <1>n, <1>w, <2>1, <3>1, <3>2
    <3>3. CASE fails'[l] = 0 /\ until'[l] = 0 /\ tried'[l] = 0
      BY <1>n, <2>1, <3>1, <3>3, Places DEF Guesses
    <3> QED
      BY <2>1, <3>2, <3>3
  <2> QED
    BY <2>2 DEF GuessInv
<1>6. CASE Tick
  <2>1. UNCHANGED <<fails, until, tried, errors>>
    BY <1>6 DEF Tick
  <2>2. ASSUME NEW p \in Proc
        PROVE  /\ call'[p].at = call[p].at
               /\ call[p].at \in {"testing", "failing", "locking"} => call'[p].login = call[p].login
    BY <1>6, <1>a DEF Tick, CallType
  <2>3. ASSUME NEW l \in Login PROVE Guesses(l)'
    <3>1. /\ Among(l, {"testing"})' = Among(l, {"testing"})
          /\ Among(l, {"failing"})' = Among(l, {"failing"})
          /\ Among(l, {"failing", "locking"})' = Among(l, {"failing", "locking"})
      BY <2>2 DEF Among
    <3>2. Testing(l)' = Testing(l) /\ Uncounted(l)' = Uncounted(l) /\ Unlocked(l)' = Unlocked(l)
      BY <3>1 DEF Testing, Uncounted, Unlocked
    <3> QED
      BY <1>n, <1>w, <2>1, <3>2
  <2> QED
    BY <2>3 DEF GuessInv
<1> QED
  BY <1>1, <1>2, <1>3, <1>4, <1>5, <1>6 DEF Next

\* From one clearing of a login's row to the next, no more wrong credentials
\* are tested than MaxFails, and one more for each other request that was being
\* served when the lock came, and for each database error: for any number of
\* logins at once, whatever the replicas' clocks say and wherever the cleaner
\* runs.
THEOREM GuessesAreBounded ==
  ASSUME IsFiniteSet(Proc)
  PROVE  Spec => []GuessBudget
<1>1. Init => TypeOK /\ GuessInv
  <2> SUFFICES ASSUME Init, NEW l \in Login PROVE Guesses(l)
    BY TypeInit DEF GuessInv
  <2>1. tried[l] = 0 /\ fails[l] = 0 /\ until[l] = 0 /\ errors = 0
    BY DEF Init
  <2> QED
    BY <2>1, Places, RateAssumption DEF Guesses
<1>2. (TypeOK /\ GuessInv) /\ [Next]_vars => (TypeOK /\ GuessInv)'
  BY TypeStep, GuessStep
<1>3. TypeOK /\ GuessInv => GuessBudget
  <2> SUFFICES ASSUME TypeOK, NEW l \in Login, Guesses(l)
               PROVE  tried[l] <= MaxFails - 1 + Cardinality(Proc) + errors
    BY DEF GuessInv, GuessBudget
  <2>1. tried[l] \in Nat /\ until[l] \in Nat /\ errors \in Nat /\ MaxFails \in Nat
    BY RateAssumption DEF TypeOK
  <2> QED
    BY <2>1, Places DEF Guesses
<1> QED
  BY <1>1, <1>2, <1>3, PTL DEF Spec

=============================================================================
