---------------------------- MODULE DeliveryProofs ----------------------------
(***************************************************************************)
(* Theorems about Delivery, for any number of jobs, resends, channels,     *)
(* addresses, contents, attempts, edits and faults.                        *)
(***************************************************************************)
EXTENDS Delivery, SequenceTheorems, TLAPS

\* Everything a run reads, writes or hands on is of its type; the disjuncts of
\* Next are taken one by one, and the parts that one of them writes.

LEMMA PlanType ==
  ASSUME NEW cfg \in Config
  PROVE  /\ PlanOf(cfg) \subseteq Targets
         /\ cfg.channels \in Seq(Channel) /\ cfg.receivers \in Seq(Address)
  BY DeliveryAssumption DEF PlanOf

LEMMA NewRunType == NewRun \in RunRecord
  BY DEF NewRun, RunRecord, RunPC

LEMMA EndedType ==
  ASSUME TypeOK, NEW j \in Job
  PROVE  Ended(j) \in RunRecord
  BY NewRunType DEF TypeOK, Ended, NewRun, RunRecord, RunPC

LEMMA RowType ==
  ASSUME TypeOK, NEW j \in Job, runs[j] # 0, NEW c \in Channel,
         NEW to \in Address \cup {NoAddress}, NEW x \in Content \cup {Empty},
         NEW s \in {"success", "failed"}
  PROVE  RowOf(j, c, to, x, s) \in Row
  BY DeliveryAssumption DEF TypeOK, RowOf, Row

\* The log insert: rows and the run keep their types.
LEMMA CreateType ==
  ASSUME TypeOK, NEW j \in Job, NEW row \in Row, NEW r \in RunRecord,
         Create(j, row, r)
  PROVE  /\ logs' \subseteq Row
         /\ run' \in [Job -> RunRecord]
         /\ faults' \in 0 .. MaxFaults
         /\ run'[j].at = r.at /\ run'[j].left = r.left /\ run'[j].todo = r.todo
         /\ run'[j].content = r.content /\ run'[j].err = r.err
         /\ run'[j].failed = r.failed /\ run'[j].plan = r.plan
         /\ run'[j].off = r.off /\ run'[j].receivers = r.receivers
         /\ run'[j].since = r.since
         /\ logs' = logs \/ logs' = logs \cup {row}
         /\ row \in logs' \/ row.chan \in run'[j].untraced
         /\ r.untraced \subseteq run'[j].untraced
         /\ \A k \in Job : k # j => run'[k] = run[k]
<1>1. CASE logs' = logs \cup {row} /\ run' = [run EXCEPT ![j] = r] /\ UNCHANGED faults
  BY <1>1 DEF TypeOK
<1>2. CASE /\ Fault
           /\ run' = [run EXCEPT ![j] = [r EXCEPT !.untraced = @ \cup {row.chan}]]
           /\ UNCHANGED logs
  <2>1. row.chan \in Channel
    BY DEF Row
  <2>2. [r EXCEPT !.untraced = @ \cup {row.chan}] \in RunRecord
    BY <2>1 DEF RunRecord
  <2>3. faults' \in 0 .. MaxFaults
    BY <1>2, DeliveryAssumption DEF Fault, TypeOK
  <2> QED
    BY <1>2, <2>2, <2>3 DEF TypeOK, RunRecord
<1> QED
  BY <1>1, <1>2 DEF Create

-----------------------------------------------------------------------------
(* Types.  TypeOK alone is not inductive: a row is typed only if its run    *)
(* has been counted, and a resend has a row to read.                        *)

Placed ==
  \A j \in Job :
    /\ ~At(j, "idle") => runs[j] # 0 /\ phase[j] = "open"
    /\ At(j, "resending") => source[j] # NoLog
    /\ phase[j] = "absent" => runs[j] = 0

TypeInv == TypeOK /\ Placed

LEMMA TypeInit == Init => TypeInv
  BY DeliveryAssumption, NewRunType
     DEF Init, TypeInv, TypeOK, Placed, Queue!Init, Switch, HasTarget, At, NewRun

\* A run ends with the job open, or closed as done or failed.
LEMMA EndType ==
  ASSUME TypeInv, NEW j \in Job, Done(j) \/ Fail(j), UNCHANGED source
  PROVE  /\ phase' \in [Job -> {"absent", "open", "done", "failed", "deleted"}]
         /\ runs' \in [Job -> 0 .. MaxAttempts]
         /\ run' \in [Job -> RunRecord]
         /\ Placed'
         /\ \A k \in Job : HasTarget(k)'
<1> USE DEF TypeInv, TypeOK, Placed, HasTarget, At
<1>1. CASE Done(j)
  <2>1. Ended(j) \in RunRecord /\ Ended(j).at = "idle"
    BY EndedType DEF Ended, NewRun
  <2> QED
    BY <1>1, <2>1 DEF Done, Queue!Close
<1>2. CASE Fail(j)
  <2>1. NewRun.at = "idle"
    BY DEF NewRun
  <2> QED
    BY <1>2, <2>1, NewRunType DEF Fail, Queue!Close
<1> QED
  BY <1>1, <1>2

LEMMA QueueStep ==
  ASSUME TypeInv, NEW j \in Job,
         \/ Enqueue(j) \/ (\E row \in logs : EnqueueLogRetry(j, row))
         \/ Claim(j) \/ Interrupt(j) \/ GiveUp(j)
  PROVE  TypeInv'
<1> USE DeliveryAssumption, NewRunType
    DEF TypeInv, TypeOK, Placed, HasTarget, At, userVars
<1>1. CASE Enqueue(j)
  BY <1>1 DEF Enqueue, Queue!Accept
<1>2. CASE \E row \in logs : EnqueueLogRetry(j, row)
  BY <1>2 DEF EnqueueLogRetry, Queue!Accept
<1>3. CASE Claim(j)
  <2> DEFINE r == [NewRun EXCEPT !.at = "claimed", !.since = SwitchedOff]
  <2>1. r \in RunRecord /\ r.at = "claimed"
    BY DEF SwitchedOff, RunRecord, RunPC, NewRun
  <2>2. run' = [run EXCEPT ![j] = r]
    BY <1>3 DEF Claim
  <2>3. phase[j] = "open" /\ runs[j] < MaxAttempts /\ phase' = phase
        /\ runs' = [runs EXCEPT ![j] = @ + 1]
    BY <1>3 DEF Claim, Queue!Run
  <2> HIDE DEF r
  <2> QED
    BY <1>3, <2>1, <2>2, <2>3 DEF Claim
<1>4. CASE Interrupt(j)
  <2>1. NewRun.at = "idle"
    BY DEF NewRun
  <2> QED
    BY <1>4, <2>1 DEF Interrupt, Fault, queueVars
<1>5. CASE GiveUp(j)
  BY <1>5 DEF GiveUp, Queue!Close
<1> QED
  BY <1>1, <1>2, <1>3, <1>4, <1>5

\* A run goes on as r, with what r's place needs.
LEMMA GoOn ==
  ASSUME TypeInv, NEW j \in Job, ~At(j, "idle"), UNCHANGED <<phase, runs, source>>,
         NEW r \in RunRecord, run' \in [Job -> RunRecord],
         run'[j].at = r.at /\ run'[j].left = r.left /\ run'[j].todo = r.todo,
         \A k \in Job : k # j => run'[k] = run[k],
         r.at = "resending" => source[j] # NoLog,
         \/ r.at \notin {"addresses", "logging"}
         \/ r.at = "logging" /\ source[j] # NoLog
         \/ r.left # <<>> /\ r.todo # <<>>
  PROVE  Placed' /\ \A k \in Job : HasTarget(k)'
  BY DEF TypeInv, TypeOK, Placed, HasTarget, At

\* Moving a run on changes nothing else.
LEMMA MovedType ==
  ASSUME NEW r \in RunRecord, NEW p \in RunPC
  PROVE  /\ [r EXCEPT !.at = p] \in RunRecord
         /\ [r EXCEPT !.at = p].at = p
  BY DEF RunRecord

LEMMA TaskStep ==
  ASSUME TypeInv, NEW j \in Job,
         LoadTask(j) \/ ReadTask(j) \/ ReadTemplate(j) \/ Refuse(j)
  PROVE  TypeInv'
<1> USE DeliveryAssumption DEF TypeInv, TypeOK, userVars, Goto
<1>0. run[j] \in RunRecord
  OBVIOUS
<1>1. CASE LoadTask(j)
  <2>1. CASE task.state = "enabled" /\ Goto(j, "loaded") /\ UNCHANGED <<phase, runs, faults>>
    <3> DEFINE r == [run[j] EXCEPT !.at = "loaded"]
    <3>1. r \in RunRecord /\ r.at = "loaded"
      BY <1>0, MovedType DEF RunPC
    <3>2. run' = [run EXCEPT ![j] = r] /\ ~At(j, "idle")
          /\ UNCHANGED <<phase, runs, source, task, template, channel, edits,
                         inbox, logs, faults>>
      BY <1>1, <2>1 DEF LoadTask, At
    <3> HIDE DEF r
    <3>3. Placed' /\ \A k \in Job : HasTarget(k)'
      BY <3>1, <3>2, GoOn
    <3> QED
      BY <3>1, <3>2, <3>3
  <2>2. CASE Done(j) /\ UNCHANGED faults
    BY <1>1, <2>2, EndType DEF LoadTask
  <2>3. CASE Fault /\ Fail(j)
    BY <1>1, <2>3, EndType DEF LoadTask, Fault
  <2> QED
    BY <1>1, <2>1, <2>2, <2>3 DEF LoadTask
<1>2. CASE ReadTask(j)
  <2> DEFINE r == [run[j] EXCEPT !.at = "template", !.todo = task.cfg.channels,
                                 !.receivers = task.cfg.receivers,
                                 !.plan = PlanOf(task.cfg)]
  <2>1. CASE run' = [run EXCEPT ![j] = r] /\ UNCHANGED <<phase, runs, faults>>
    <3>1. r \in RunRecord /\ r.at = "template"
      BY <1>0, PlanType DEF RunRecord, RunPC
    <3> HIDE DEF r
    <3>2. Placed' /\ \A k \in Job : HasTarget(k)'
      BY <1>2, <2>1, <3>1, GoOn DEF ReadTask, At
    <3> QED
      BY <1>2, <2>1, <3>1, <3>2 DEF ReadTask
  <2>2. CASE Fail(j) /\ UNCHANGED faults
    BY <1>2, <2>2, EndType DEF ReadTask
  <2>3. CASE Fault /\ Fail(j)
    BY <1>2, <2>3, EndType DEF ReadTask, Fault
  <2> QED
    BY <1>2, <2>1, <2>2, <2>3 DEF ReadTask
<1>3. CASE ReadTemplate(j)
  <2> DEFINE r == [run[j] EXCEPT !.at = "channels", !.content = template.content]
             q == [run[j] EXCEPT !.at = "refusing"]
  <2>1. CASE run' = [run EXCEPT ![j] = r] /\ UNCHANGED <<phase, runs, faults>>
    <3>1. r \in RunRecord /\ r.at = "channels"
      BY <1>0 DEF RunRecord, RunPC
    <3> HIDE DEF r
    <3>2. Placed' /\ \A k \in Job : HasTarget(k)'
      BY <1>3, <2>1, <3>1, GoOn DEF ReadTemplate, At
    <3> QED
      BY <1>3, <2>1, <3>1, <3>2 DEF ReadTemplate
  <2>2. CASE run' = [run EXCEPT ![j] = q] /\ UNCHANGED <<phase, runs, faults>>
    <3>1. q \in RunRecord /\ q.at = "refusing"
      BY <1>0, MovedType DEF RunPC
    <3> HIDE DEF q
    <3>2. Placed' /\ \A k \in Job : HasTarget(k)'
      BY <1>3, <2>2, <3>1, GoOn DEF ReadTemplate, At
    <3> QED
      BY <1>3, <2>2, <3>1, <3>2 DEF ReadTemplate
  <2>3. CASE Fail(j) /\ UNCHANGED faults
    BY <1>3, <2>3, EndType DEF ReadTemplate
  <2>4. CASE Fault /\ Fail(j)
    BY <1>3, <2>4, EndType DEF ReadTemplate, Fault
  <2> QED
    BY <1>3, <2>1, <2>2, <2>3, <2>4 DEF ReadTemplate
<1>4. CASE Refuse(j)
  <2> DEFINE c == Head(run[j].todo)
             r == [run[j] EXCEPT !.todo = Tail(@), !.off = @ \cup {c}]
             q == [r EXCEPT !.untraced = @ \cup {c}]
             row == RowOf(j, c, NoAddress, Empty, "failed")
  <2>1. ASSUME run[j].todo # <<>>
        PROVE  /\ c \in Channel /\ r \in RunRecord /\ r.at = "refusing"
               /\ q \in RunRecord /\ q.at = "refusing" /\ row \in Row
    <3>1. c \in Channel /\ Tail(run[j].todo) \in Seq(Channel)
      BY <2>1, HeadTailProperties DEF RunRecord
    <3>2. row \in Row
      BY <1>4, <3>1, RowType DEF Refuse, Placed, At
    <3>3. r \in RunRecord /\ r.at = run[j].at
      BY <1>0, <3>1 DEF RunRecord
    <3>4. q \in RunRecord /\ q.at = run[j].at
      BY <3>1, <3>3 DEF RunRecord
    <3> QED
      BY <1>4, <3>1, <3>2, <3>3, <3>4 DEF Refuse, At
  <2>2. CASE run[j].todo # <<>> /\ Create(j, row, r) /\ UNCHANGED <<phase, runs>>
    <3>1. ~At(j, "idle") /\ r \in RunRecord /\ r.at = "refusing" /\ row \in Row
      BY <1>4, <2>1, <2>2 DEF Refuse, At
    <3> HIDE DEF r, row, q
    <3>2. /\ logs' \subseteq Row /\ run' \in [Job -> RunRecord] /\ faults' \in 0 .. MaxFaults
          /\ run'[j].at = r.at /\ run'[j].left = r.left /\ run'[j].todo = r.todo
          /\ \A k \in Job : k # j => run'[k] = run[k]
      BY <2>2, <3>1, CreateType
    <3>3. UNCHANGED <<phase, runs, source, task, template, channel, edits, inbox>>
      BY <1>4, <2>2 DEF Refuse
    <3>4. Placed' /\ \A k \in Job : HasTarget(k)'
      BY <3>1, <3>2, <3>3, GoOn
    <3> QED
      BY <3>2, <3>3, <3>4
  <2>3. CASE run[j].todo # <<>> /\ run' = [run EXCEPT ![j] = q]
             /\ UNCHANGED <<logs, faults, phase, runs>>
    <3> HIDE DEF r, row, q
    <3>1. Placed' /\ \A k \in Job : HasTarget(k)'
      BY <1>4, <2>1, <2>3, GoOn DEF Refuse, At
    <3> QED
      BY <1>4, <2>1, <2>3, <3>1 DEF Refuse
  <2>4. CASE Done(j) /\ UNCHANGED <<logs, faults>>
    BY <1>4, <2>4, EndType DEF Refuse
  <2> QED
    BY <1>4, <2>2, <2>3, <2>4 DEF Refuse
<1> QED
  BY <1>1, <1>2, <1>3, <1>4

\* A send: the message is of its type, and the run waits to log it.
LEMMA TransmitType ==
  ASSUME TypeInv, NEW j \in Job, ~At(j, "idle"), UNCHANGED <<phase, runs, source>>,
         NEW c \in Channel, NEW to \in Address \cup {NoAddress},
         NEW x \in Content \cup {Empty}, Transmit(j, c, to, x),
         source[j] # NoLog \/ (run[j].left # <<>> /\ run[j].todo # <<>>)
  PROVE  /\ inbox' \subseteq Message /\ run' \in [Job -> RunRecord]
         /\ Placed' /\ \A k \in Job : HasTarget(k)'
<1>1. PICK o \in Outcome :
        /\ inbox' = IF o.got
                    THEN inbox \cup {[job |-> j, run |-> runs[j], chan |-> c,
                                      to |-> to, content |-> x]}
                    ELSE inbox
        /\ run' = [run EXCEPT ![j].at = "logging", ![j].err = o.err]
  BY DEF Transmit
<1>2. runs[j] \in 1 .. MaxAttempts /\ run[j] \in RunRecord /\ inbox \subseteq Message
  BY DeliveryAssumption DEF TypeInv, TypeOK, Placed
<1>3. inbox' \subseteq Message
  BY <1>1, <1>2 DEF Message
<1> DEFINE r == [run[j] EXCEPT !.at = "logging", !.err = o.err]
<1>4. o.err \in BOOLEAN
  BY DEF Outcome
<1>5. r \in RunRecord /\ r.at = "logging" /\ r.left = run[j].left /\ r.todo = run[j].todo
  BY <1>2, <1>4 DEF RunRecord, RunPC
<1>6. run' = [run EXCEPT ![j] = r] /\ run \in [Job -> RunRecord]
  BY <1>1 DEF TypeInv, TypeOK
<1> HIDE DEF r
<1>7. Placed' /\ \A k \in Job : HasTarget(k)'
  BY <1>5, <1>6, GoOn
<1> QED
  BY <1>3, <1>5, <1>6, <1>7

\* The row that a send leaves.
SendRow(j) ==
  RowOf(j, Head(run[j].todo), Head(run[j].left), run[j].content,
        IF run[j].err THEN "failed" ELSE "success")

\* What logging a send does: the row, and where the run goes on.
LEMMA LogSendEffect ==
  ASSUME TypeInv, NEW j \in Job, LogSend(j)
  PROVE  /\ logs' \subseteq Row /\ run' \in [Job -> RunRecord]
         /\ faults' \in 0 .. MaxFaults
         /\ Placed' /\ \A k \in Job : HasTarget(k)'
         /\ run[j].at = "logging" /\ source[j] = NoLog
         /\ run[j].left # <<>> /\ run[j].todo # <<>>
         /\ run'[j].content = run[j].content /\ run'[j].plan = run[j].plan
         /\ run'[j].off = run[j].off /\ run'[j].receivers = run[j].receivers
         /\ run'[j].since = run[j].since
         /\ run[j].untraced \subseteq run'[j].untraced
         /\ run'[j].failed = (run[j].failed \/ run[j].err)
         /\ \/ /\ run'[j].at = "channels" /\ run'[j].todo = Tail(run[j].todo)
               /\ Len(run[j].left) = 1
            \/ /\ run'[j].at = "addresses" /\ run'[j].todo = run[j].todo
               /\ run'[j].left = Tail(run[j].left)
         /\ logs' = logs \/ logs' = logs \cup {SendRow(j)}
<1> DEFINE last == Len(run[j].left) = 1
           row == SendRow(j)
           r == [run[j] EXCEPT !.at = IF last THEN "channels" ELSE "addresses",
                               !.todo = IF last THEN Tail(@) ELSE @,
                               !.left = Tail(@),
                               !.err = FALSE,
                               !.failed = Accumulate(@, run[j].err)]
<1>0. /\ run \in [Job -> RunRecord] /\ run[j] \in RunRecord
      /\ run[j].todo \in Seq(Channel)
      /\ run[j].left \in Seq(Address \cup {NoAddress})
      /\ run[j].content \in Content \cup {Empty}
  BY DEF TypeInv, TypeOK, RunRecord
<1>1. /\ run[j].at = "logging" /\ ~At(j, "idle") /\ source[j] = NoLog
      /\ run[j].left # <<>> /\ run[j].todo # <<>> /\ runs[j] # 0
      /\ UNCHANGED <<phase, runs, source>>
      /\ Create(j, row, r)
  BY DEF LogSend, SendRow, At, queueVars, userVars, TypeInv, TypeOK, HasTarget, Placed
<1>2. /\ Head(run[j].todo) \in Channel /\ Head(run[j].left) \in Address \cup {NoAddress}
      /\ Tail(run[j].todo) \in Seq(Channel)
      /\ Tail(run[j].left) \in Seq(Address \cup {NoAddress})
      /\ Len(Tail(run[j].left)) = Len(run[j].left) - 1
  BY <1>0, <1>1, HeadTailProperties
<1>3. row \in Row
  BY <1>0, <1>1, <1>2, RowType DEF TypeInv, SendRow
<1>4. r \in RunRecord
  BY <1>0, <1>2 DEF RunRecord, RunPC, Accumulate
<1>5. /\ r.content = run[j].content /\ r.plan = run[j].plan /\ r.off = run[j].off
      /\ r.receivers = run[j].receivers /\ r.untraced = run[j].untraced
      /\ r.since = run[j].since
      /\ r.failed = (run[j].failed \/ run[j].err)
  BY <1>0 DEF RunRecord, Accumulate
<1>6. \/ last /\ r.at = "channels" /\ r.todo = Tail(run[j].todo)
      \/ /\ r.at = "addresses" /\ r.left = Tail(run[j].left) /\ r.left # <<>>
         /\ r.todo = run[j].todo
  <2>1. CASE last
    BY <1>0, <2>1 DEF RunRecord
  <2>2. CASE ~last
    <3>1. Len(run[j].left) # 0
      BY <1>0, <1>1, EmptySeq
    <3>2. Len(run[j].left) \in Nat /\ Len(run[j].left) # 1
      BY <1>0, <2>2
    <3>3. Len(Tail(run[j].left)) # 0
      BY <1>2, <3>1, <3>2
    <3>4. Tail(run[j].left) # <<>>
      BY <3>3, EmptySeq
    <3> QED
      BY <1>0, <2>2, <3>4 DEF RunRecord
  <2> QED
    BY <2>1, <2>2
<1> HIDE DEF row, r
<1>7. /\ logs' \subseteq Row /\ run' \in [Job -> RunRecord] /\ faults' \in 0 .. MaxFaults
      /\ run'[j].at = r.at /\ run'[j].left = r.left /\ run'[j].todo = r.todo
      /\ run'[j].content = r.content /\ run'[j].failed = r.failed
      /\ run'[j].plan = r.plan /\ run'[j].off = r.off
      /\ run'[j].receivers = r.receivers /\ r.untraced \subseteq run'[j].untraced
      /\ run'[j].since = r.since
      /\ logs' = logs \/ logs' = logs \cup {row}
      /\ \A k \in Job : k # j => run'[k] = run[k]
  BY <1>1, <1>3, <1>4, CreateType DEF TypeInv
<1>8. Placed' /\ \A k \in Job : HasTarget(k)'
  <2>1. \/ r.at \notin {"addresses", "logging"}
        \/ r.left # <<>> /\ r.todo # <<>>
    BY <1>1, <1>6
  <2> QED
    BY <1>1, <1>4, <1>6, <1>7, <2>1, GoOn
<1> QED
  BY <1>1, <1>5, <1>6, <1>7, <1>8 DEF row

LEMMA SendStep ==
  ASSUME TypeInv, NEW j \in Job,
         NextChannel(j) \/ sendOnce(j) \/ LogSend(j) \/ Finish(j)
  PROVE  TypeInv'
<1>0. /\ run \in [Job -> RunRecord] /\ run[j] \in RunRecord
      /\ run[j].todo \in Seq(Channel) /\ run[j].receivers \in Seq(Address)
      /\ run[j].left \in Seq(Address \cup {NoAddress})
      /\ run[j].content \in Content \cup {Empty}
  BY DEF TypeInv, TypeOK, RunRecord
<1>1. CASE NextChannel(j)
  <2> DEFINE c == Head(run[j].todo)
             next == [run[j] EXCEPT !.todo = Tail(@)]
             skipped == [next EXCEPT !.failed = TRUE]
             off == [next EXCEPT !.off = @ \cup {c}]
             row == RowOf(j, c, NoAddress, run[j].content, "failed")
             r == [run[j] EXCEPT !.at = "addresses", !.content = MessageFor(j),
                                 !.left = IF c \in Mail THEN run[j].receivers
                                          ELSE <<NoAddress>>]
  <2>1. /\ run[j].todo # <<>> /\ run[j].at = "channels" /\ ~At(j, "idle")
        /\ UNCHANGED <<phase, runs, source, task, template, channel, edits, inbox>>
    BY <1>1 DEF NextChannel, At, queueVars, userVars
  <2>2. c \in Channel /\ Tail(run[j].todo) \in Seq(Channel)
    BY <1>0, <2>1, HeadTailProperties
  <2>3. next \in RunRecord /\ next.at = "channels"
    BY <1>0, <2>1, <2>2 DEF RunRecord
  <2>4. skipped \in RunRecord /\ skipped.at = "channels"
    BY <2>3 DEF RunRecord
  <2>5. off \in RunRecord /\ off.at = "channels"
    BY <2>2, <2>3 DEF RunRecord
  <2>6. row \in Row
    BY <1>0, <2>1, <2>2, RowType DEF TypeInv, Placed, At
  <2>7. CASE run' = [run EXCEPT ![j] = r] /\ ~NoReceivers(j, c)
             /\ UNCHANGED <<logs, faults>>
    <3>0. /\ Seq(Address) \subseteq Seq(Address \cup {NoAddress})
          /\ <<NoAddress>> \in Seq(Address \cup {NoAddress})
      OBVIOUS
    <3>1. r \in RunRecord
      BY <1>0, <3>0 DEF RunRecord, RunPC, MessageFor
    <3>2. r.at = "addresses" /\ r.left # <<>> /\ r.todo = run[j].todo
      BY <1>0, <2>7 DEF NoReceivers
    <3> HIDE DEF r
    <3>3. Placed' /\ \A k \in Job : HasTarget(k)'
      BY <1>0, <2>1, <2>7, <3>1, <3>2, GoOn
    <3> QED
      BY <1>0, <2>1, <2>7, <3>1, <3>3 DEF TypeInv, TypeOK
  <2>8. CASE run' = [run EXCEPT ![j] = skipped] /\ UNCHANGED logs
             /\ (Fault \/ UNCHANGED faults)
    <3> HIDE DEF skipped
    <3>1. Placed' /\ \A k \in Job : HasTarget(k)'
      BY <1>0, <2>1, <2>4, <2>8, GoOn
    <3>2. faults' \in 0 .. MaxFaults
      BY <2>8, DeliveryAssumption DEF Fault, TypeInv, TypeOK
    <3> QED
      BY <1>0, <2>1, <2>4, <2>8, <3>1, <3>2 DEF TypeInv, TypeOK
  <2>9. CASE Create(j, row, off)
    <3> HIDE DEF row, off
    <3>1. /\ logs' \subseteq Row /\ run' \in [Job -> RunRecord] /\ faults' \in 0 .. MaxFaults
          /\ run'[j].at = off.at /\ run'[j].left = off.left /\ run'[j].todo = off.todo
          /\ \A k \in Job : k # j => run'[k] = run[k]
      BY <2>5, <2>6, <2>9, CreateType DEF TypeInv
    <3>2. Placed' /\ \A k \in Job : HasTarget(k)'
      BY <2>1, <2>5, <3>1, GoOn
    <3> QED
      BY <2>1, <3>1, <3>2 DEF TypeInv, TypeOK
  <2> QED
    BY <1>1, <2>7, <2>8, <2>9 DEF NextChannel
<1>2. CASE sendOnce(j)
  <2>1. /\ run[j].at = "addresses" /\ ~At(j, "idle")
        /\ run[j].left # <<>> /\ run[j].todo # <<>>
        /\ UNCHANGED <<phase, runs, source, task, template, channel, edits, logs, faults>>
    BY <1>2 DEF sendOnce, At, queueVars, userVars, TypeInv, TypeOK, HasTarget
  <2>2. Head(run[j].todo) \in Channel /\ Head(run[j].left) \in Address \cup {NoAddress}
    BY <1>0, <2>1, HeadTailProperties
  <2>3. Transmit(j, Head(run[j].todo), Head(run[j].left), run[j].content)
    BY <1>2 DEF sendOnce
  <2>4. inbox' \subseteq Message /\ run' \in [Job -> RunRecord]
        /\ Placed' /\ \A k \in Job : HasTarget(k)'
    BY <1>0, <2>1, <2>2, <2>3, TransmitType
  <2> QED
    BY <2>1, <2>4 DEF TypeInv, TypeOK
<1>3. CASE LogSend(j)
  <2>1. /\ logs' \subseteq Row /\ run' \in [Job -> RunRecord] /\ faults' \in 0 .. MaxFaults
        /\ Placed' /\ \A k \in Job : HasTarget(k)'
    BY <1>3, LogSendEffect
  <2> QED
    BY <1>3, <2>1 DEF LogSend, queueVars, userVars, TypeInv, TypeOK
<1>4. CASE Finish(j)
  <2>1. (Done(j) \/ Fail(j)) /\ UNCHANGED source
    BY <1>4 DEF Finish
  <2> QED
    BY <1>4, <2>1, EndType DEF Finish, userVars, TypeInv, TypeOK
<1> QED
  BY <1>1, <1>2, <1>3, <1>4

LEMMA ResendStep ==
  ASSUME TypeInv, NEW j \in Job, ReadLog(j) \/ ResendLog(j) \/ LogResend(j)
  PROVE  TypeInv'
<1>0. /\ run \in [Job -> RunRecord] /\ run[j] \in RunRecord
      /\ source[j] \in Row \cup {NoLog}
  BY DEF TypeInv, TypeOK
<1>1. CASE ReadLog(j)
  <2>1. CASE Goto(j, "resending") /\ UNCHANGED <<phase, runs, faults>>
    <3> DEFINE r == [run[j] EXCEPT !.at = "resending"]
    <3>1. r \in RunRecord /\ r.at = "resending"
      BY <1>0, MovedType DEF RunPC
    <3>2. /\ run' = [run EXCEPT ![j] = r] /\ ~At(j, "idle") /\ source[j] # NoLog
          /\ UNCHANGED <<phase, runs, source, task, template, channel, edits,
                         inbox, logs, faults>>
      BY <1>0, <1>1, <2>1 DEF ReadLog, Goto, At, userVars
    <3> HIDE DEF r
    <3>3. Placed' /\ \A k \in Job : HasTarget(k)'
      BY <1>0, <3>1, <3>2, GoOn
    <3> QED
      BY <1>0, <3>1, <3>2, <3>3 DEF TypeInv, TypeOK
  <2>2. CASE Fault /\ Done(j)
    <3>1. faults' \in 0 .. MaxFaults
      BY <2>2, DeliveryAssumption DEF Fault, TypeInv, TypeOK
    <3> QED
      BY <1>1, <2>2, <3>1, EndType DEF ReadLog, userVars, TypeInv, TypeOK
  <2> QED
    BY <1>1, <2>1, <2>2 DEF ReadLog
<1>2. CASE ResendLog(j)
  <2>1. /\ source[j] \in Row /\ source[j] # NoLog /\ ~At(j, "idle")
        /\ UNCHANGED <<source, task, template, channel, edits, logs>>
    BY <1>0, <1>2 DEF ResendLog, At, userVars, TypeInv, Placed
  <2>2. CASE Done(j) /\ UNCHANGED inbox /\ (Fault \/ UNCHANGED faults)
    <3>1. faults' \in 0 .. MaxFaults
      BY <2>2, DeliveryAssumption DEF Fault, TypeInv, TypeOK
    <3> QED
      BY <2>1, <2>2, <3>1, EndType DEF TypeInv, TypeOK
  <2>3. CASE /\ Transmit(j, source[j].chan, source[j].to, ResendText(source[j]))
             /\ UNCHANGED <<phase, runs, faults>>
    <3>1. /\ source[j].chan \in Channel /\ source[j].to \in Address \cup {NoAddress}
          /\ ResendText(source[j]) \in Content \cup {Empty}
      BY <2>1 DEF Row, ResendText
    <3>2. inbox' \subseteq Message /\ run' \in [Job -> RunRecord]
          /\ Placed' /\ \A k \in Job : HasTarget(k)'
      BY <2>1, <2>3, <3>1, TransmitType
    <3> QED
      BY <2>1, <2>3, <3>2 DEF TypeInv, TypeOK
  <2> QED
    BY <1>2, <2>2, <2>3 DEF ResendLog
<1>3. CASE LogResend(j)
  <2> DEFINE status == IF run[j].err THEN "failed" ELSE "success"
             row == RowOf(j, source[j].chan, source[j].to, source[j].content, status)
             r == Ended(j)
  <2>1. /\ source[j] \in Row /\ ~At(j, "idle") /\ runs[j] # 0
        /\ UNCHANGED <<source, task, template, channel, edits, inbox>>
        /\ Create(j, row, r) /\ Queue!Close({j}, "done")
    BY <1>0, <1>3 DEF LogResend, At, userVars, TypeInv, Placed
  <2>2. row \in Row
    <3>1. /\ source[j].chan \in Channel /\ source[j].to \in Address \cup {NoAddress}
          /\ source[j].content \in Content \cup {Empty}
      BY <2>1 DEF Row
    <3> QED
      BY <2>1, <3>1, RowType DEF TypeInv
  <2>3. r \in RunRecord /\ r.at = "idle"
    BY EndedType DEF TypeInv, Ended, NewRun
  <2> HIDE DEF row, r
  <2>4. /\ logs' \subseteq Row /\ run' \in [Job -> RunRecord] /\ faults' \in 0 .. MaxFaults
        /\ run'[j].at = "idle" /\ \A k \in Job : k # j => run'[k] = run[k]
    BY <2>1, <2>2, <2>3, CreateType DEF TypeInv
  <2>5. /\ phase' = [phase EXCEPT ![j] = "done"] /\ runs' = runs
        /\ phase \in [Job -> {"absent", "open", "done", "failed", "deleted"}]
    BY <2>1 DEF Queue!Close, TypeInv, TypeOK
  <2>6. source' = source
    BY <2>1
  <2>7. Placed'
    BY <2>1, <2>4, <2>5, <2>6 DEF TypeInv, Placed, At
  <2>8. \A k \in Job : HasTarget(k)'
    BY <2>4, <2>6 DEF TypeInv, TypeOK, HasTarget, At
  <2> QED
    BY <2>1, <2>4, <2>5, <2>7, <2>8 DEF TypeInv, TypeOK
<1> QED
  BY <1>1, <1>2, <1>3

\* Users change the rows and, of a run, only what has been off since it began.
LEMMA SwitchOnType ==
  ASSUME TypeInv, NEW S, SwitchOn(S), UNCHANGED queueVars
  PROVE  run' \in [Job -> RunRecord] /\ Placed' /\ \A k \in Job : HasTarget(k)'
<1>1. ASSUME NEW j \in Job
      PROVE  /\ run'[j] = [run[j] EXCEPT !.since = @ \ S]
             /\ [run[j] EXCEPT !.since = @ \ S] \in RunRecord
             /\ run'[j].at = run[j].at /\ run'[j].left = run[j].left
             /\ run'[j].todo = run[j].todo
  <2>1. run[j] \in RunRecord
    BY DEF TypeInv, TypeOK
  <2>2. run'[j] = [run[j] EXCEPT !.since = @ \ S]
    BY DEF SwitchOn
  <2> QED
    BY <2>1, <2>2 DEF RunRecord
<1>2. run' \in [Job -> RunRecord]
  BY <1>1 DEF SwitchOn
<1>3. phase' = phase /\ runs' = runs /\ source' = source
  BY DEF queueVars
<1>4. Placed'
  BY <1>1, <1>3 DEF TypeInv, Placed, At
<1>5. \A k \in Job : HasTarget(k)'
  BY <1>1, <1>3 DEF TypeInv, TypeOK, HasTarget, At
<1> QED
  BY <1>2, <1>4, <1>5

LEMMA UserStep ==
  ASSUME TypeInv,
         \/ \E s \in Switch, cfg \in Config : ChangeTask(s, cfg)
         \/ \E s \in Switch, x \in Content : ChangeTemplate(s, x)
         \/ \E c \in Channel, s \in Switch \cup {"broken"} : ChangeChannel(c, s)
  PROVE  TypeInv'
<1>1. /\ UNCHANGED <<phase, runs, source, inbox, logs, faults>>
      /\ edits < MaxEdits /\ edits' = edits + 1
  BY DEF ChangeTask, ChangeTemplate, ChangeChannel, Edit, queueVars
<1>2. edits' \in 0 .. MaxEdits
  BY <1>1, DeliveryAssumption DEF TypeInv, TypeOK
<1>3. \E S : SwitchOn(S)
  BY DEF ChangeTask, ChangeTemplate, ChangeChannel
<1>4. run' \in [Job -> RunRecord] /\ Placed' /\ \A k \in Job : HasTarget(k)'
  BY <1>1, <1>3, SwitchOnType DEF queueVars
<1>5. /\ task' \in [state : Switch, cfg : Config]
      /\ template' \in [state : Switch, content : Content]
      /\ channel' \in [Channel -> Switch \cup {"broken"}]
  <2>1. CASE \E s \in Switch, cfg \in Config : ChangeTask(s, cfg)
    BY <2>1 DEF ChangeTask, TypeInv, TypeOK
  <2>2. CASE \E s \in Switch, x \in Content : ChangeTemplate(s, x)
    BY <2>2 DEF ChangeTemplate, TypeInv, TypeOK
  <2>3. CASE \E c \in Channel, s \in Switch \cup {"broken"} : ChangeChannel(c, s)
    BY <2>3 DEF ChangeChannel, TypeInv, TypeOK
  <2> QED
    BY <2>1, <2>2, <2>3
<1> QED
  BY <1>1, <1>2, <1>4, <1>5 DEF TypeInv, TypeOK

LEMMA TypeStep == TypeInv /\ [Next]_vars => TypeInv'
<1> SUFFICES ASSUME TypeInv, [Next]_vars PROVE TypeInv'
  OBVIOUS
<1>1. CASE UNCHANGED vars
  BY <1>1 DEF vars, queueVars, userVars, TypeInv, TypeOK, Placed, HasTarget, At
<1>2. CASE Next
  BY <1>2, QueueStep, TaskStep, SendStep, ResendStep, UserStep DEF Next
<1> QED
  BY <1>1, <1>2

LEMMA TypeAlways == Spec => []TypeInv
  BY TypeInit, TypeStep, PTL DEF Spec

\* Types, for every instance: whatever happens to rows, statements and
\* processes, a run that sends has a channel and an address to send to.
THEOREM DeliveryTypeCorrect == Spec => []TypeOK
  BY TypeAlways, PTL DEF TypeInv

-----------------------------------------------------------------------------
(* What a step may do to the queue's side of a job and to the inbox.        *)

\* Only a claim counts a run.
LEMMA RunsStep ==
  ASSUME TypeInv, [Next]_vars, NEW j \in Job
  PROVE  runs'[j] = runs[j] \/ (Claim(j) /\ runs'[j] = runs[j] + 1)
<1>1. CASE \E k \in Job : Claim(k)
  <2>1. PICK k \in Job : Claim(k)
    BY <1>1
  <2>2. runs' = [runs EXCEPT ![k] = @ + 1]
    BY <2>1 DEF Claim, Queue!Run
  <2> QED
    BY <2>1, <2>2 DEF TypeInv, TypeOK
<1>2. CASE runs' = runs
  BY <1>2
<1>3. CASE Next /\ ~\E k \in Job : Claim(k)
  <2>1. runs' = runs
    BY <1>3 DEF Next, Enqueue, EnqueueLogRetry, Interrupt, GiveUp, LoadTask, ReadTask,
                ReadTemplate, Refuse, NextChannel, sendOnce, LogSend, Finish, ReadLog,
                ResendLog, LogResend, ChangeTask, ChangeTemplate, ChangeChannel, Edit,
                Done, Fail, Queue!Accept, Queue!Close, queueVars
  <2> QED
    BY <2>1
<1> QED
  BY <1>1, <1>2, <1>3 DEF vars, queueVars

\* Only the acceptance of a resend names a row, of a job that has never run.
LEMMA SourceStep ==
  ASSUME TypeInv, [Next]_vars, NEW j \in Job
  PROVE  \/ source'[j] = source[j]
         \/ /\ runs[j] = 0 /\ run' = run /\ At(j, "idle")
            /\ inbox' = inbox /\ logs' = logs /\ source'[j] # NoLog
<1>1. CASE \E k \in Job, row \in logs : EnqueueLogRetry(k, row)
  <2>1. PICK k \in Job, row \in logs : EnqueueLogRetry(k, row)
    BY <1>1
  <2>2. phase[k] = "absent" /\ run' = run /\ inbox' = inbox /\ logs' = logs
        /\ source' = [source EXCEPT ![k] = row]
    BY <2>1 DEF EnqueueLogRetry, Queue!Accept
  <2>3. runs[k] = 0 /\ At(k, "idle") /\ row # NoLog
    BY <2>2, LogAssumption DEF TypeInv, TypeOK, Placed
  <2> QED
    BY <2>2, <2>3 DEF TypeInv, TypeOK
<1>2. CASE ~\E k \in Job, row \in logs : EnqueueLogRetry(k, row)
  <2>1. source' = source
    BY <1>2 DEF Next, Enqueue, Claim, Interrupt, GiveUp, LoadTask, ReadTask,
                ReadTemplate, Refuse, NextChannel, sendOnce, LogSend, Finish, ReadLog,
                ResendLog, LogResend, ChangeTask, ChangeTemplate, ChangeChannel, Edit,
                queueVars, vars
  <2> QED
    BY <2>1
<1> QED
  BY <1>1, <1>2

\* Only sends add messages, each for its job and run.
LEMMA InboxStep ==
  ASSUME TypeInv, [Next]_vars
  PROVE  \/ inbox' = inbox
         \/ \E j \in Job :
              /\ sendOnce(j) \/ ResendLog(j)
              /\ ~At(j, "idle") /\ runs' = runs /\ source' = source
              /\ \E m \in Message : /\ inbox' = inbox \cup {m}
                                    /\ m.job = j /\ m.run = runs[j]
<1>1. ASSUME NEW j \in Job, sendOnce(j) \/ ResendLog(j), inbox' # inbox
      PROVE  /\ ~At(j, "idle") /\ runs' = runs /\ source' = source
             /\ \E m \in Message : /\ inbox' = inbox \cup {m}
                                   /\ m.job = j /\ m.run = runs[j]
  <2>1. ~At(j, "idle") /\ runs' = runs /\ source' = source
    BY <1>1 DEF sendOnce, ResendLog, At, queueVars, Done, Queue!Close
  <2>2. PICK c, to, x : Transmit(j, c, to, x)
    BY <1>1 DEF sendOnce, ResendLog
  <2>3. inbox' = inbox \cup {[job |-> j, run |-> runs[j], chan |-> c,
                              to |-> to, content |-> x]}
    BY <1>1, <2>2 DEF Transmit
  <2>4. inbox' \subseteq Message
    BY TypeStep DEF TypeInv, TypeOK
  <2> QED
    BY <2>1, <2>3, <2>4
<1>2. CASE ~\E j \in Job : sendOnce(j) \/ ResendLog(j)
  <2>1. inbox' = inbox
    BY <1>2 DEF Next, Enqueue, EnqueueLogRetry, Claim, Interrupt, GiveUp, LoadTask, ReadTask,
                ReadTemplate, Refuse, NextChannel, LogSend, Finish, ReadLog,
                LogResend, ChangeTask, ChangeTemplate, ChangeChannel, Edit, vars
  <2> QED
    BY <2>1
<1> QED
  BY <1>1, <1>2

\* A message is of a run that has begun.
Trail == \A m \in inbox : m.run <= runs[m.job]

\* The steps of SendTask are those of a task's job.
Kinds ==
  \A j \in Job :
    run[j].at \in {"loaded", "template", "refusing", "channels", "addresses"}
      => source[j] = NoLog

LEMMA TrailStep == TypeInv /\ Trail /\ [Next]_vars => Trail'
<1> SUFFICES ASSUME TypeInv, Trail, [Next]_vars, NEW m \in inbox'
             PROVE  m.run <= runs'[m.job]
  BY DEF Trail
<1>0. m \in Message /\ runs \in [Job -> 0 .. MaxAttempts]
  BY TypeStep DEF TypeInv, TypeOK
<1>1. m.job \in Job /\ m.run \in Nat /\ runs[m.job] \in Nat
  BY <1>0, DeliveryAssumption DEF Message
<1>2. m.run <= runs[m.job]
  BY <1>1, InboxStep DEF Trail
<1> QED
  BY <1>1, <1>2, RunsStep

\* A step of job j's run.
RunStep(j) ==
  \/ Claim(j) \/ Interrupt(j) \/ LoadTask(j) \/ ReadTask(j) \/ ReadTemplate(j)
  \/ Refuse(j) \/ NextChannel(j) \/ sendOnce(j) \/ LogSend(j) \/ Finish(j)
  \/ ReadLog(j) \/ ResendLog(j) \/ LogResend(j)

\* The run of k is where it was, with what it had.
SameRun(k) ==
  /\ run'[k].at = run[k].at /\ run'[k].todo = run[k].todo
  /\ run'[k].receivers = run[k].receivers /\ run'[k].left = run[k].left
  /\ run'[k].content = run[k].content /\ run'[k].err = run[k].err
  /\ run'[k].failed = run[k].failed /\ run'[k].plan = run[k].plan
  /\ run'[k].off = run[k].off /\ run'[k].untraced = run[k].untraced

LEMMA OthersRun ==
  ASSUME TypeInv, NEW j \in Job, RunStep(j), NEW k \in Job, k # j
  PROVE  run'[k] = run[k]
<1>0. run \in [Job -> RunRecord]
  BY DEF TypeInv, TypeOK
<1>1. CASE Claim(j) \/ Interrupt(j) \/ LoadTask(j) \/ ReadTask(j) \/ ReadTemplate(j)
  BY <1>0, <1>1 DEF Claim, Interrupt, LoadTask, ReadTask, ReadTemplate, Goto, Done, Fail
<1>2. CASE Refuse(j) \/ NextChannel(j)
  BY <1>0, <1>2 DEF Refuse, NextChannel, Create, Done
<1>3. CASE sendOnce(j) \/ LogSend(j) \/ Finish(j)
  BY <1>0, <1>3 DEF sendOnce, Transmit, LogSend, Create, Finish, Done, Fail
<1>4. CASE ReadLog(j) \/ ResendLog(j) \/ LogResend(j)
  BY <1>0, <1>4 DEF ReadLog, Goto, ResendLog, Transmit, LogResend, Create, Done
<1> QED
  BY <1>1, <1>2, <1>3, <1>4 DEF RunStep

LEMMA OneRun ==
  ASSUME TypeInv, [Next]_vars, NEW k \in Job
  PROVE  RunStep(k) \/ SameRun(k)
<1>0. run \in [Job -> RunRecord]
  BY DEF TypeInv, TypeOK
<1>1. CASE \E j \in Job : RunStep(j)
  BY <1>1, OthersRun DEF SameRun
<1>2. CASE \E S : SwitchOn(S)
  <2>1. PICK S : SwitchOn(S)
    BY <1>2
  <2>2. run'[k] = [run[k] EXCEPT !.since = @ \ S] /\ run[k] \in RunRecord
    BY <1>0, <2>1 DEF SwitchOn
  <2> QED
    BY <2>2 DEF SameRun, RunRecord
<1>3. CASE run' = run
  BY <1>3 DEF SameRun
<1>4. (\E j \in Job : RunStep(j)) \/ (\E S : SwitchOn(S)) \/ run' = run
  BY DEF Next, RunStep, Enqueue, EnqueueLogRetry, GiveUp,
         ChangeTask, ChangeTemplate, ChangeChannel, vars
<1> QED
  BY <1>1, <1>2, <1>3, <1>4

\* Where a step leaves its run.
LEMMA Places ==
  ASSUME TypeInv, NEW j \in Job
  PROVE  /\ Claim(j) => run'[j].at = "claimed"
         /\ Interrupt(j) \/ Done(j) \/ Fail(j) \/ LogResend(j) => run'[j].at = "idle"
         /\ \A c, to, x : Transmit(j, c, to, x) => run'[j].at = "logging"
         /\ \A p : Goto(j, p) => run'[j].at = p
<1>0. /\ run \in [Job -> RunRecord] /\ DOMAIN run[j] = DOMAIN NewRun
      /\ NewRun.at = "idle" /\ Ended(j).at = "idle" /\ Ended(j) \in RunRecord
  BY EndedType DEF TypeInv, TypeOK, Ended, NewRun, RunRecord
<1>1. Claim(j) => run'[j].at = "claimed"
  <2>1. [NewRun EXCEPT !.at = "claimed", !.since = SwitchedOff].at = "claimed"
    BY DEF NewRun
  <2> QED
    BY <1>0, <2>1 DEF Claim
<1>2. Interrupt(j) \/ Done(j) \/ Fail(j) => run'[j].at = "idle"
  BY <1>0 DEF Interrupt, Done, Fail
<1>3. LogResend(j) => run'[j].at = "idle"
  <2> SUFFICES ASSUME LogResend(j) PROVE run'[j].at = "idle"
    OBVIOUS
  <2>1. PICK row : Create(j, row, Ended(j))
    BY DEF LogResend
  <2>2. [Ended(j) EXCEPT !.untraced = @ \cup {row.chan}].at = "idle"
    BY <1>0 DEF RunRecord
  <2> QED
    BY <1>0, <2>1, <2>2 DEF Create
<1>4. ASSUME NEW c, NEW to, NEW x, Transmit(j, c, to, x) PROVE run'[j].at = "logging"
  <2>1. PICK o \in Outcome : run' = [run EXCEPT ![j].at = "logging", ![j].err = o.err]
    BY <1>4 DEF Transmit
  <2> QED
    BY <1>0, <2>1 DEF RunRecord
<1>5. ASSUME NEW p, Goto(j, p) PROVE run'[j].at = p
  BY <1>0, <1>5 DEF Goto, RunRecord
<1> QED
  BY <1>1, <1>2, <1>3, <1>4, <1>5

LEMMA KindsStep == TypeInv /\ Kinds /\ [Next]_vars => Kinds'
<1> SUFFICES ASSUME TypeInv, Kinds, [Next]_vars, NEW j \in Job,
                    run'[j].at \in {"loaded", "template", "refusing", "channels", "addresses"}
             PROVE  source'[j] = NoLog
  BY DEF Kinds
<1>0. run \in [Job -> RunRecord] /\ run[j] \in RunRecord
  BY DEF TypeInv, TypeOK
<1>1. source'[j] = source[j]
  BY SourceStep DEF At
<1>2. CASE SameRun(j)
  BY <1>1, <1>2 DEF SameRun, Kinds
<1>3. CASE RunStep(j)
  <2>1. \/ run[j].at \in {"loaded", "template", "refusing", "channels", "addresses"}
        \/ source[j] = NoLog
    <3> SUFFICES ASSUME run[j].at \notin {"loaded", "template", "refusing",
                                          "channels", "addresses"}
                 PROVE  source[j] = NoLog
      OBVIOUS
    <3>1. LoadTask(j) \/ LogSend(j) \/ Claim(j) \/ Interrupt(j)
          \/ ReadLog(j) \/ ResendLog(j) \/ LogResend(j)
      BY <1>3 DEF RunStep, ReadTask, ReadTemplate, Refuse, NextChannel, sendOnce, Finish, At
    <3>2. ~(Claim(j) \/ Interrupt(j) \/ LogResend(j))
      BY Places
    <3>3. ~(ReadLog(j) \/ ResendLog(j))
      BY Places DEF ReadLog, ResendLog
    <3> QED
      BY <3>1, <3>2, <3>3 DEF LoadTask, LogSend
  <2> QED
    BY <1>1, <2>1 DEF Kinds
<1> QED
  BY <1>2, <1>3, OneRun

\* While a run sends it keeps its message.
LEMMA KeepsMessage ==
  ASSUME TypeInv, NEW j \in Job, NextChannel(j) \/ sendOnce(j) \/ LogSend(j)
  PROVE  /\ run'[j].content = run[j].content
         /\ run'[j].at \in {"channels", "addresses", "logging"}
<1>0. run \in [Job -> RunRecord] /\ run[j] \in RunRecord
  BY DEF TypeInv, TypeOK
<1>1. CASE NextChannel(j)
  <2> DEFINE next == [run[j] EXCEPT !.todo = Tail(@)]
  <2>1. run[j].at = "channels"
    BY <1>1 DEF NextChannel, At
  <2>2. CASE run' = [run EXCEPT ![j].at = "addresses", ![j].content = MessageFor(j),
                                ![j].left = IF Head(run[j].todo) \in Mail
                                            THEN run[j].receivers ELSE <<NoAddress>>]
    BY <1>0, <2>2 DEF MessageFor, RunRecord
  <2>3. CASE run' = [run EXCEPT ![j] = [next EXCEPT !.failed = TRUE]]
    BY <1>0, <2>1, <2>3 DEF RunRecord
  <2>4. CASE Create(j, RowOf(j, Head(run[j].todo), NoAddress, run[j].content, "failed"),
                    [next EXCEPT !.off = @ \cup {Head(run[j].todo)}])
    <3> DEFINE row == RowOf(j, Head(run[j].todo), NoAddress, run[j].content, "failed")
               r == [next EXCEPT !.off = @ \cup {Head(run[j].todo)}]
    <3>1. /\ Head(run[j].todo) \in Channel /\ Tail(run[j].todo) \in Seq(Channel)
          /\ run[j].content \in Content \cup {Empty}
      BY <1>0, <1>1, HeadTailProperties DEF NextChannel, RunRecord
    <3>2. row \in Row
      BY <2>1, <3>1, RowType DEF TypeInv, Placed, At
    <3>3. r \in RunRecord /\ r.content = run[j].content /\ r.at = "channels"
      BY <1>0, <2>1, <3>1 DEF RunRecord
    <3>4. Create(j, row, r)
      BY <2>4
    <3> HIDE DEF row, r
    <3> QED
      BY <3>2, <3>3, <3>4, CreateType DEF TypeInv
  <2> QED
    BY <1>1, <2>2, <2>3, <2>4 DEF NextChannel
<1>2. CASE sendOnce(j)
  <2>1. PICK o \in Outcome : run' = [run EXCEPT ![j].at = "logging", ![j].err = o.err]
    BY <1>2 DEF sendOnce, Transmit
  <2> QED
    BY <1>0, <2>1 DEF RunRecord
<1>3. CASE LogSend(j)
  BY <1>3, LogSendEffect
<1> QED
  BY <1>1, <1>2, <1>3

\* A resend sends what its row holds: the row is fixed before the job first
\* runs, and only ResendLog sends for a job that has one.
FaithfulInv == TypeInv /\ Trail /\ Kinds /\ ResendIsFaithful

LEMMA FaithfulStep == FaithfulInv /\ [Next]_vars => FaithfulInv'
<1> SUFFICES ASSUME FaithfulInv, [Next]_vars PROVE FaithfulInv'
  OBVIOUS
<1> USE DEF FaithfulInv
<1>1. TypeInv' /\ Trail' /\ Kinds'
  BY TypeStep, TrailStep, KindsStep
<1>2. ASSUME NEW m \in inbox', source'[m.job] # NoLog
      PROVE  LET row == source'[m.job] IN
             m.chan = row.chan /\ m.to = row.to /\ m.content = row.content
  <2>1. m \in Message /\ m.job \in Job /\ m.run \in Nat /\ m.run # 0
    BY <1>1, DeliveryAssumption DEF TypeInv, TypeOK, Message
  <2>2. CASE m \in inbox
    <3>1. runs[m.job] # 0
      BY <2>1, <2>2 DEF Trail, TypeInv, TypeOK
    <3>2. source'[m.job] = source[m.job]
      BY <2>1, <3>1, SourceStep
    <3> QED
      BY <1>2, <2>2, <3>2 DEF ResendIsFaithful
  <2>3. CASE m \notin inbox
    <3>1. PICK j \in Job :
            /\ sendOnce(j) \/ ResendLog(j)
            /\ source' = source
            /\ \E n \in Message : inbox' = inbox \cup {n} /\ n.job = j
      BY <2>3, InboxStep
    <3>2. m.job = j /\ source[j] # NoLog
      BY <1>2, <2>3, <3>1
    <3>3. ~sendOnce(j)
      BY <3>2 DEF sendOnce, At, Kinds
    <3>4. Transmit(j, source[j].chan, source[j].to, ResendText(source[j]))
      BY <2>3, <3>1, <3>3 DEF ResendLog
    <3>5. m = [job |-> j, run |-> runs[j], chan |-> source[j].chan,
               to |-> source[j].to, content |-> source[j].content]
      BY <2>3, <3>4 DEF Transmit, ResendText
    <3> QED
      BY <3>1, <3>2, <3>5
  <2> QED
    BY <2>2, <2>3
<1> QED
  BY <1>1, <1>2 DEF ResendIsFaithful

LEMMA FaithfulInit == Init => FaithfulInv
  BY TypeInit DEF Init, FaithfulInv, Trail, Kinds, ResendIsFaithful, NewRun

LEMMA FaithfulAlways == Spec => []FaithfulInv
  BY FaithfulInit, FaithfulStep, PTL DEF Spec

\* Every message of a resend is what the failed row holds, sent to the channel
\* and the address it names, whatever users do to task, template and channels.
THEOREM ResendsAreFaithful == Spec => []ResendIsFaithful
  BY FaithfulAlways, PTL DEF FaithfulInv

-----------------------------------------------------------------------------
(* One text for all.  Inductive form: what a run has sent so far is the     *)
(* message it holds, and a run that has sent anything is still sending.     *)

Current ==
  \A m \in inbox :
    source[m.job] = NoLog /\ m.run = runs[m.job] /\ ~At(m.job, "idle") =>
      /\ m.content = run[m.job].content
      /\ run[m.job].at \in {"channels", "addresses", "logging"}

TextInv == FaithfulInv /\ Current /\ SameTextForAll

LEMMA CurrentStep == FaithfulInv /\ Current /\ [Next]_vars => Current'
<1> SUFFICES ASSUME FaithfulInv, Current, [Next]_vars, NEW m \in inbox',
                    source'[m.job] = NoLog, m.run = runs'[m.job], run'[m.job].at # "idle"
             PROVE  /\ m.content = run'[m.job].content
                    /\ run'[m.job].at \in {"channels", "addresses", "logging"}
  BY DEF Current, At
<1> DEFINE j == m.job
<1>a. TypeInv /\ Trail /\ Kinds /\ TypeInv'
  BY TypeStep DEF FaithfulInv
<1>b. m \in Message /\ runs \in [Job -> 0 .. MaxAttempts]
  BY <1>a DEF TypeInv, TypeOK
<1>0. /\ TypeInv /\ Trail /\ Kinds /\ m \in Message /\ j \in Job
      /\ m.run \in Nat /\ m.run # 0 /\ runs[j] \in Nat
  BY <1>a, <1>b, DeliveryAssumption DEF Message
<1> HIDE DEF j
<1>1. CASE m \in inbox
  <2>1. m.run <= runs[j]
    BY <1>0, <1>1 DEF Trail, j
  <2>2. ~Claim(j) /\ runs'[j] = runs[j]
    <3>1. Claim(j) => runs'[j] = runs[j] + 1
      BY <1>0 DEF Claim, Queue!Run, TypeInv, TypeOK
    <3> QED
      BY <1>0, <2>1, <3>1, RunsStep DEF j
  <2>3. source[j] = NoLog
    BY <1>0, <2>1, SourceStep DEF j
  <2>4. CASE SameRun(j)
    BY <1>1, <2>2, <2>3, <2>4 DEF SameRun, Current, At, j
  <2>5. CASE RunStep(j)
    <3>1. run[j].at # "idle"
      BY <2>2, <2>5 DEF RunStep, Interrupt, LoadTask, ReadTask, ReadTemplate, Refuse,
                        NextChannel, sendOnce, LogSend, Finish, ReadLog, ResendLog,
                        LogResend, At
    <3>2. m.content = run[j].content /\ run[j].at \in {"channels", "addresses", "logging"}
      BY <1>1, <2>2, <2>3, <3>1 DEF Current, At, j
    <3>3. NextChannel(j) \/ sendOnce(j) \/ LogSend(j) \/ Finish(j) \/ Interrupt(j)
      BY <2>2, <2>3, <2>5, <3>2
         DEF RunStep, LoadTask, ReadTask, ReadTemplate, Refuse, ReadLog, ResendLog,
             LogResend, At
    <3>4. ~(Finish(j) \/ Interrupt(j))
      BY <1>0, Places DEF Finish, j
    <3> QED
      BY <1>0, <3>2, <3>3, <3>4, KeepsMessage DEF j
  <2> QED
    BY <1>0, <2>4, <2>5, OneRun
<1>2. CASE m \notin inbox
  <2>1. (sendOnce(j) \/ ResendLog(j)) /\ source' = source
    BY <1>2, <1>0, InboxStep DEF j
  <2>2. sendOnce(j)
    BY <1>0, <2>1 DEF ResendLog, At, j, TypeInv, Placed
  <2>3. m.content = run[j].content
    BY <1>2, <2>2 DEF sendOnce, Transmit
  <2> QED
    BY <1>0, <2>2, <2>3, Places, KeepsMessage DEF j
<1> QED
  BY <1>1, <1>2

LEMMA SameTextStep == TextInv /\ [Next]_vars => SameTextForAll'
<1> SUFFICES ASSUME TextInv, [Next]_vars PROVE SameTextForAll'
  OBVIOUS
<1>0. /\ TypeInv /\ Trail /\ Kinds /\ Current /\ ResendIsFaithful /\ ResendIsFaithful'
      /\ SameTextForAll
  BY FaithfulStep DEF TextInv, FaithfulInv
<1>1. CASE inbox' = inbox
  BY <1>0, <1>1 DEF SameTextForAll
<1>2. CASE inbox' # inbox
  <2>1. PICK j \in Job : /\ sendOnce(j) \/ ResendLog(j)
                         /\ ~At(j, "idle") /\ source' = source
                         /\ \E m \in Message : /\ inbox' = inbox \cup {m}
                                               /\ m.job = j /\ m.run = runs[j]
    BY <1>0, <1>2, InboxStep
  <2>2. PICK p \in Message : inbox' = inbox \cup {p} /\ p.job = j /\ p.run = runs[j]
    BY <2>1
  <2>3. ASSUME NEW m \in inbox, m.job = j, m.run = runs[j]
        PROVE  m.content = p.content
    <3>1. CASE source[j] = NoLog
      <4>1. sendOnce(j)
        BY <1>0, <2>1, <3>1 DEF ResendLog, At, TypeInv, Placed
      <4>2. p.content = run[j].content
        BY <1>2, <2>2, <4>1 DEF sendOnce, Transmit
      <4>3. m.content = run[j].content
        BY <1>0, <2>1, <2>3, <3>1 DEF Current
      <4> QED
        BY <4>2, <4>3
    <3>2. CASE source[j] # NoLog
      BY <1>0, <2>1, <2>2, <2>3, <3>2 DEF ResendIsFaithful
    <3> QED
      BY <3>1, <3>2
  <2> QED
    BY <1>0, <2>2, <2>3 DEF SameTextForAll
<1> QED
  BY <1>1, <1>2

LEMMA TextStep == TextInv /\ [Next]_vars => TextInv'
  BY FaithfulStep, CurrentStep, SameTextStep DEF TextInv

LEMMA TextInit == Init => TextInv
  BY FaithfulInit DEF Init, TextInv, Current, SameTextForAll

LEMMA TextAlways == Spec => []TextInv
  BY TextInit, TextStep, PTL DEF Spec

\* All channels and receivers that one run serves get the same text, for any
\* number of channels and receivers and whenever the template is edited.
THEOREM OneTextPerRun == Spec => []SameTextForAll
  BY TextAlways, PTL DEF TextInv

-----------------------------------------------------------------------------
(* What is left behind: the rows of task_logs, the targets of a job that is *)
(* done, and what has been switched off.                                   *)

-----------------------------------------------------------------------------
(* What the steps of a run do.                                              *)

\* A channel that is passed over as failed, with a row or the history's mark.
Passed(j, c) ==
  /\ \/ logs' = logs
     \/ \E row \in Row : /\ logs' = logs \cup {row}
                         /\ row.job = j /\ row.chan = c /\ row.status = "failed"
  /\ \/ c \in run'[j].untraced
     \/ \E row \in logs' : row.job = j /\ row.chan = c /\ row.status = "failed"

LEMMA RefuseEffect ==
  ASSUME TypeInv, NEW j \in Job, Refuse(j)
  PROVE  LET c == Head(run[j].todo) IN
         /\ run[j].at = "refusing" /\ source' = source /\ inbox' = inbox
         /\ \/ Done(j) /\ run[j].todo = <<>> /\ logs' = logs
            \/ /\ run[j].todo # <<>> /\ c \in Channel
               /\ run'[j].at = "refusing" /\ run'[j].todo = Tail(run[j].todo)
               /\ run'[j].plan = run[j].plan /\ run'[j].receivers = run[j].receivers
               /\ run'[j].off = run[j].off \cup {c}
               /\ run'[j].failed = run[j].failed /\ run'[j].since = run[j].since
               /\ run[j].untraced \subseteq run'[j].untraced
               /\ phase' = phase /\ runs' = runs
               /\ Passed(j, c)
<1> DEFINE c == Head(run[j].todo)
           r == [run[j] EXCEPT !.todo = Tail(@), !.off = @ \cup {c}]
           q == [r EXCEPT !.untraced = @ \cup {c}]
           row == RowOf(j, c, NoAddress, Empty, "failed")
<1>0. /\ run \in [Job -> RunRecord] /\ run[j] \in RunRecord
      /\ run[j].todo \in Seq(Channel) /\ runs[j] # 0
      /\ run[j].at = "refusing" /\ source' = source /\ inbox' = inbox
  BY DEF TypeInv, TypeOK, RunRecord, Placed, Refuse, At
<1>1. CASE Done(j) /\ run[j].todo = <<>> /\ logs' = logs
  BY <1>0, <1>1
<1>2. ASSUME run[j].todo # <<>>
      PROVE  /\ c \in Channel /\ row \in Row /\ r \in RunRecord
             /\ row.job = j /\ row.chan = c /\ row.status = "failed"
             /\ r.at = "refusing" /\ r.todo = Tail(run[j].todo)
             /\ r.plan = run[j].plan /\ r.receivers = run[j].receivers
             /\ r.off = run[j].off \cup {c} /\ r.failed = run[j].failed
             /\ r.untraced = run[j].untraced /\ r.since = run[j].since
             /\ q = [r EXCEPT !.untraced = @ \cup {c}]
  <2>1. c \in Channel /\ Tail(run[j].todo) \in Seq(Channel)
    BY <1>0, <1>2, HeadTailProperties
  <2>2. row \in Row
    BY <1>0, <2>1, RowType DEF TypeInv
  <2>3. r \in RunRecord
    BY <1>0, <2>1 DEF RunRecord
  <2> QED
    BY <1>0, <2>1, <2>2, <2>3 DEF RunRecord, RowOf
<1>3. CASE run[j].todo # <<>> /\ Create(j, row, r) /\ phase' = phase /\ runs' = runs
  <2> HIDE DEF r, q, row
  <2> QED
    BY <1>0, <1>2, <1>3, CreateType DEF TypeInv, Passed
<1>4. CASE run[j].todo # <<>> /\ run' = [run EXCEPT ![j] = q]
           /\ logs' = logs /\ phase' = phase /\ runs' = runs
  <2>1. run'[j] = q
    BY <1>0, <1>4
  <2>2. /\ q.at = r.at /\ q.todo = r.todo /\ q.plan = r.plan
        /\ q.receivers = r.receivers /\ q.off = r.off /\ q.failed = r.failed
        /\ q.untraced = r.untraced \cup {c} /\ q.since = r.since
    <3> HIDE DEF r
    <3> QED
      BY <1>2, <1>4 DEF RunRecord
  <2> HIDE DEF r, q, row
  <2> QED
    BY <1>0, <1>2, <1>4, <2>1, <2>2 DEF Passed
<1> QED
  BY <1>1, <1>3, <1>4 DEF Refuse

LEMMA NextChannelEffect ==
  ASSUME TypeInv, NEW j \in Job, NextChannel(j)
  PROVE  LET c == Head(run[j].todo) IN
         /\ run[j].at = "channels" /\ run[j].todo # <<>> /\ c \in Channel
         /\ source' = source /\ inbox' = inbox /\ phase' = phase /\ runs' = runs
         /\ run'[j].plan = run[j].plan /\ run'[j].receivers = run[j].receivers
         /\ run[j].untraced \subseteq run'[j].untraced
         /\ run'[j].since = run[j].since
         /\ \/ /\ channel[c] = "enabled" /\ logs' = logs
               /\ run'[j].at = "addresses" /\ run'[j].todo = run[j].todo
               /\ run'[j].left = IF c \in Mail THEN run[j].receivers ELSE <<NoAddress>>
               /\ run'[j].off = run[j].off /\ run'[j].failed = run[j].failed
            \/ /\ run'[j].at = "channels" /\ run'[j].todo = Tail(run[j].todo)
               /\ run'[j].off = run[j].off /\ run'[j].failed /\ logs' = logs
            \/ /\ run'[j].at = "channels" /\ run'[j].todo = Tail(run[j].todo)
               /\ run'[j].off = run[j].off \cup {c} /\ run'[j].failed = run[j].failed
               /\ Passed(j, c)
<1> DEFINE c == Head(run[j].todo)
           next == [run[j] EXCEPT !.todo = Tail(@)]
           skipped == [next EXCEPT !.failed = TRUE]
           off == [next EXCEPT !.off = @ \cup {c}]
           row == RowOf(j, c, NoAddress, run[j].content, "failed")
           r == [run[j] EXCEPT !.at = "addresses", !.content = MessageFor(j),
                               !.left = IF c \in Mail THEN run[j].receivers
                                        ELSE <<NoAddress>>]
<1>0. /\ run \in [Job -> RunRecord] /\ run[j] \in RunRecord
      /\ run[j].todo \in Seq(Channel) /\ runs[j] # 0
      /\ run[j].content \in Content \cup {Empty}
      /\ run[j].at = "channels" /\ run[j].todo # <<>>
      /\ source' = source /\ inbox' = inbox /\ phase' = phase /\ runs' = runs
  BY DEF TypeInv, TypeOK, RunRecord, Placed, NextChannel, At, queueVars
<1>1. c \in Channel /\ Tail(run[j].todo) \in Seq(Channel)
  BY <1>0, HeadTailProperties
<1>2. CASE run' = [run EXCEPT ![j] = r] /\ channel[c] = "enabled" /\ logs' = logs
  <2>1. run'[j] = r
    BY <1>0, <1>2
  <2>2. /\ r.at = "addresses" /\ r.todo = run[j].todo /\ r.plan = run[j].plan
        /\ r.left = IF c \in Mail THEN run[j].receivers ELSE <<NoAddress>>
        /\ r.receivers = run[j].receivers /\ r.off = run[j].off
        /\ r.failed = run[j].failed /\ r.untraced = run[j].untraced
        /\ r.since = run[j].since
    BY <1>0 DEF RunRecord
  <2> HIDE DEF r
  <2> QED
    BY <1>0, <1>1, <1>2, <2>1, <2>2
<1>3. CASE run' = [run EXCEPT ![j] = skipped] /\ logs' = logs
  <2>1. run'[j] = skipped
    BY <1>0, <1>3
  <2>2. /\ skipped.at = "channels" /\ skipped.todo = Tail(run[j].todo)
        /\ skipped.plan = run[j].plan /\ skipped.receivers = run[j].receivers
        /\ skipped.off = run[j].off /\ skipped.untraced = run[j].untraced
        /\ skipped.failed /\ skipped.since = run[j].since
    BY <1>0 DEF RunRecord
  <2> HIDE DEF skipped
  <2> QED
    BY <1>0, <1>1, <1>3, <2>1, <2>2
<1>4. CASE Create(j, row, off)
  <2>1. row \in Row /\ row.job = j /\ row.chan = c /\ row.status = "failed"
    <3>1. row \in Row
      BY <1>0, <1>1, RowType DEF TypeInv
    <3> QED
      BY <3>1 DEF RowOf
  <2>2. /\ off \in RunRecord
        /\ off.at = "channels" /\ off.todo = Tail(run[j].todo)
        /\ off.plan = run[j].plan /\ off.receivers = run[j].receivers
        /\ off.off = run[j].off \cup {c} /\ off.untraced = run[j].untraced
        /\ off.failed = run[j].failed /\ off.since = run[j].since
    BY <1>0, <1>1 DEF RunRecord
  <2> HIDE DEF row, off
  <2> QED
    BY <1>0, <1>1, <1>4, <2>1, <2>2, CreateType DEF TypeInv, Passed
<1> QED
  BY <1>2, <1>3, <1>4 DEF NextChannel

-----------------------------------------------------------------------------
(* The log tells the truth.  Inductive form: a send that waits to be logged *)
(* as a success has arrived.                                                *)

\* The message that a row stands for has arrived.
Arrived(row) ==
  \E m \in inbox : /\ m.job = row.job /\ m.run = row.run
                   /\ m.chan = row.chan /\ m.to = row.to
                   /\ m.content = row.content

\* The row that a resend leaves.
ResendRow(j) ==
  RowOf(j, source[j].chan, source[j].to, source[j].content,
        IF run[j].err THEN "failed" ELSE "success")

\* The row that comes next.
NextRow(j) == IF source[j] = NoLog THEN SendRow(j) ELSE ResendRow(j)

Unlogged ==
  \A j \in Job : run[j].at = "logging" /\ ~run[j].err => Arrived(NextRow(j))

TruthInv == TypeInv /\ Kinds /\ Unlogged /\ LogsTellTruth

LEMMA InboxGrows ==
  ASSUME TypeInv, [Next]_vars
  PROVE  inbox \subseteq inbox'
  BY InboxStep

\* A send reports a success only if the message is there.
LEMMA TransmitEffect ==
  ASSUME TypeInv, NEW j \in Job, NEW c, NEW to, NEW x, Transmit(j, c, to, x)
  PROVE  /\ run'[j].at = "logging" /\ run'[j].todo = run[j].todo
         /\ run'[j].left = run[j].left /\ run'[j].receivers = run[j].receivers
         /\ run'[j].content = run[j].content /\ run'[j].failed = run[j].failed
         /\ run'[j].plan = run[j].plan /\ run'[j].off = run[j].off
         /\ run'[j].untraced = run[j].untraced /\ run'[j].since = run[j].since
         /\ \/ run'[j].err
            \/ [job |-> j, run |-> runs[j], chan |-> c, to |-> to, content |-> x] \in inbox'
<1>0. run \in [Job -> RunRecord] /\ run[j] \in RunRecord
  BY DEF TypeInv, TypeOK
<1>1. PICK o \in Outcome :
        /\ inbox' = IF o.got
                    THEN inbox \cup {[job |-> j, run |-> runs[j], chan |-> c,
                                      to |-> to, content |-> x]}
                    ELSE inbox
        /\ run' = [run EXCEPT ![j].at = "logging", ![j].err = o.err]
  BY DEF Transmit
<1>2. o.got \/ o.err
  BY DEF Outcome
<1> QED
  BY <1>0, <1>1, <1>2 DEF RunRecord

\* Only a send leaves its run waiting to be logged.
LEMMA LoggingStep ==
  ASSUME TypeInv, NEW j \in Job, RunStep(j), run'[j].at = "logging"
  PROVE  sendOnce(j) \/ (ResendLog(j) /\ ~Done(j))
<1>0. run \in [Job -> RunRecord] /\ run[j] \in RunRecord
  BY DEF TypeInv, TypeOK
<1>1. ~(Claim(j) \/ Interrupt(j) \/ Done(j) \/ Fail(j) \/ LogResend(j))
      /\ \A p : p # "logging" => ~Goto(j, p)
  BY Places
<1>2. ~(LoadTask(j) \/ ReadLog(j) \/ Finish(j))
  BY <1>1 DEF LoadTask, ReadLog, Finish
<1>3. ~LogSend(j) /\ ~Refuse(j) /\ ~NextChannel(j)
  BY <1>1, LogSendEffect, RefuseEffect, NextChannelEffect
<1>4. ~ReadTask(j) /\ ~ReadTemplate(j)
  BY <1>0, <1>1 DEF ReadTask, ReadTemplate, RunRecord
<1> QED
  BY <1>1, <1>2, <1>3, <1>4 DEF RunStep

LEMMA UnloggedStep == TypeInv /\ Kinds /\ Unlogged /\ [Next]_vars => Unlogged'
<1> SUFFICES ASSUME TypeInv, Kinds, Unlogged, [Next]_vars, NEW j \in Job,
                    run'[j].at = "logging", ~run'[j].err
             PROVE  Arrived(NextRow(j))'
  BY DEF Unlogged
<1>0. source'[j] = source[j] /\ (Claim(j) \/ runs'[j] = runs[j]) /\ inbox \subseteq inbox'
  BY SourceStep, RunsStep, InboxGrows DEF At
<1>1. CASE SameRun(j)
  <2>1. ~Claim(j)
    BY <1>1, Places DEF SameRun, Claim, At
  <2>2. NextRow(j)' = NextRow(j)
    BY <1>0, <1>1, <2>1 DEF SameRun, NextRow, SendRow, ResendRow, RowOf
  <2>3. Arrived(NextRow(j))
    BY <1>1 DEF SameRun, Unlogged
  <2> QED
    BY <1>0, <2>2, <2>3 DEF Arrived
<1>2. CASE RunStep(j)
  <2>1. sendOnce(j) \/ (ResendLog(j) /\ ~Done(j))
    BY <1>2, LoggingStep
  <2>2. ~Claim(j)
    BY Places
  <2>3. CASE sendOnce(j)
    <3>1. source[j] = NoLog
      BY <2>3 DEF sendOnce, Kinds, At
    <3>2. /\ run'[j].todo = run[j].todo /\ run'[j].left = run[j].left
          /\ run'[j].content = run[j].content
          /\ [job |-> j, run |-> runs[j], chan |-> Head(run[j].todo),
              to |-> Head(run[j].left), content |-> run[j].content] \in inbox'
      BY <2>3, TransmitEffect DEF sendOnce
    <3> QED
      BY <1>0, <2>2, <3>1, <3>2 DEF Arrived, NextRow, SendRow, RowOf
  <2>4. CASE ResendLog(j) /\ ~Done(j)
    <3>1. source[j] # NoLog
      BY <2>4 DEF ResendLog, At, TypeInv, Placed
    <3>2. Transmit(j, source[j].chan, source[j].to, source[j].content)
      BY <2>4 DEF ResendLog, ResendText
    <3>3. [job |-> j, run |-> runs[j], chan |-> source[j].chan,
           to |-> source[j].to, content |-> source[j].content] \in inbox'
      BY <3>2, TransmitEffect
    <3> QED
      BY <1>0, <2>2, <3>1, <3>3 DEF Arrived, NextRow, ResendRow, RowOf
  <2> QED
    BY <2>1, <2>3, <2>4
<1> QED
  BY <1>1, <1>2, OneRun

\* Rows are only added: for what failed or was passed over, and for sends.
LEMMA LogsStep ==
  ASSUME TypeInv, [Next]_vars
  PROVE  /\ logs \subseteq logs'
         /\ \A row \in logs' \ logs :
              \/ row.status = "failed"
              \/ \E j \in Job : run[j].at = "logging" /\ row = NextRow(j)
<1>1. ASSUME NEW j \in Job, RunStep(j), logs' # logs
      PROVE  /\ logs \subseteq logs'
             /\ \A row \in logs' \ logs :
                  \/ row.status = "failed"
                  \/ run[j].at = "logging" /\ row = NextRow(j)
  <2>1. CASE Refuse(j) \/ NextChannel(j)
    BY <1>1, <2>1, RefuseEffect, NextChannelEffect DEF Passed
  <2>2. CASE LogSend(j)
    BY <1>1, <2>2, LogSendEffect DEF NextRow
  <2>3. CASE LogResend(j)
    <3>1. run[j].at = "logging" /\ source[j] # NoLog /\ Create(j, ResendRow(j), Ended(j))
      BY <2>3 DEF LogResend, ResendRow, At
    <3> QED
      BY <3>1 DEF Create, NextRow
  <2> QED
    BY <1>1, <2>1, <2>2, <2>3
       DEF RunStep, Claim, Interrupt, LoadTask, ReadTask, ReadTemplate, sendOnce,
           Finish, ReadLog, ResendLog
<1>2. CASE ~\E j \in Job : RunStep(j)
  <2>1. logs' = logs
    BY <1>2 DEF Next, RunStep, Enqueue, EnqueueLogRetry, GiveUp, ChangeTask,
                ChangeTemplate, ChangeChannel, Edit, vars
  <2> QED
    BY <2>1
<1> QED
  BY <1>1, <1>2

LEMMA TruthStep == TruthInv /\ [Next]_vars => TruthInv'
<1> SUFFICES ASSUME TruthInv, [Next]_vars PROVE TruthInv'
  OBVIOUS
<1>1. TypeInv /\ Kinds /\ Unlogged /\ LogsTellTruth
  BY DEF TruthInv
<1>2. TypeInv' /\ Kinds' /\ Unlogged'
  BY <1>1, TypeStep, KindsStep, UnloggedStep
<1>3. ASSUME NEW row \in logs', row.status = "success" PROVE Arrived(row)
  <2>1. CASE row \in logs
    BY <1>1, <1>3, <2>1 DEF LogsTellTruth, Arrived
  <2>2. CASE row \notin logs
    <3>1. PICK j \in Job : run[j].at = "logging" /\ row = NextRow(j)
      BY <1>1, <1>3, <2>2, LogsStep
    <3>2. ~run[j].err
      BY <1>3, <3>1 DEF NextRow, SendRow, ResendRow, RowOf
    <3> QED
      BY <1>1, <3>1, <3>2 DEF Unlogged
  <2> QED
    BY <2>1, <2>2
<1>4. LogsTellTruth'
  BY <1>1, <1>3, InboxGrows DEF LogsTellTruth, Arrived
<1> QED
  BY <1>2, <1>4 DEF TruthInv

LEMMA TruthInit == Init => TruthInv
  BY TypeInit DEF Init, TruthInv, Kinds, Unlogged, LogsTellTruth, NewRun

LEMMA TruthAlways == Spec => []TruthInv
  BY TruthInit, TruthStep, PTL DEF Spec

\* A row of task_logs with status success stands for a message that arrived,
\* whatever sends, inserts and processes fail.
THEOREM LogsAreTrue == Spec => []LogsTellTruth
  BY TruthAlways, PTL DEF TruthInv

-----------------------------------------------------------------------------
(* Done means accounted for.  Inductive form: whoever the task named has    *)
(* been reached, or passed over with a trace, or is still ahead of the run; *)
(* or the run remembers a failure and will not end as done.                 *)

LEMMA RangeSplit ==
  ASSUME NEW S, NEW s \in Seq(S), s # <<>>, NEW x \in Range(s)
  PROVE  /\ x = Head(s) \/ x \in Range(Tail(s))
         /\ Len(s) = 1 => x = Head(s)
<1>1. PICK i \in 1 .. Len(s) : x = s[i]
  BY DEF Range
<1>2. Len(s) \in Nat /\ Tail(s) \in Seq(S) /\ Len(Tail(s)) = Len(s) - 1
      /\ \A k \in 1 .. Len(s) - 1 : Tail(s)[k] = s[k + 1]
      /\ Head(s) = s[1]
  BY HeadTailProperties
<1>3. CASE i = 1
  BY <1>1, <1>2, <1>3
<1>4. CASE i # 1
  <2>1. i - 1 \in 1 .. Len(Tail(s)) /\ x = Tail(s)[i - 1] /\ Len(s) # 1
    BY <1>1, <1>2, <1>4
  <2>2. DOMAIN Tail(s) = 1 .. Len(Tail(s))
    BY <1>2
  <2> QED
    BY <2>1, <2>2 DEF Range
<1> QED
  BY <1>3, <1>4

LEMMA RangeTail ==
  ASSUME NEW S, NEW s \in Seq(S), s # <<>>
  PROVE  Range(Tail(s)) \subseteq Range(s)
<1> SUFFICES ASSUME NEW x \in Range(Tail(s)) PROVE x \in Range(s)
  OBVIOUS
<1>1. /\ Tail(s) \in Seq(S) /\ Len(s) \in Nat /\ Len(Tail(s)) = Len(s) - 1
      /\ DOMAIN s = 1 .. Len(s) /\ DOMAIN Tail(s) = 1 .. Len(Tail(s))
      /\ \A k \in 1 .. Len(s) - 1 : Tail(s)[k] = s[k + 1]
  BY HeadTailProperties
<1>2. PICK k \in DOMAIN Tail(s) : x = Tail(s)[k]
  BY DEF Range
<1>3. k + 1 \in DOMAIN s /\ x = s[k + 1]
  BY <1>1, <1>2
<1> QED
  BY <1>3 DEF Range

\* The channel has been passed over, and somebody may know.
Traced(j, c) ==
  \/ c \in run[j].untraced
  \/ \E row \in logs : row.job = j /\ row.chan = c /\ row.status = "failed"

Settled(j, t) == Reached(j, t) \/ (t.chan \in run[j].off /\ Traced(j, t.chan))

\* The run has still to serve t.
Ahead(j, t) ==
  IF run[j].at \in {"addresses", "logging"}
  THEN \/ t.chan \in Range(Tail(run[j].todo))
       \/ t.chan = Head(run[j].todo) /\ t.to \in Range(run[j].left)
  ELSE t.chan \in Range(run[j].todo)

\* t is a receiver of its channel.
Named(j, t) ==
  IF t.chan \in Mail THEN t.to \in Range(run[j].receivers) ELSE t.to = NoAddress

CoverAt(j) ==
  /\ run[j].at \in {"claimed", "loaded"} => run[j].plan = {}
  /\ run[j].at \in {"template", "refusing", "channels", "addresses", "logging"} =>
       \A t \in run[j].plan : Named(j, t)
  /\ run[j].at \in {"template", "refusing"} =>
       \A t \in run[j].plan : Settled(j, t) \/ Ahead(j, t)
  /\ run[j].at \in {"channels", "addresses", "logging"} =>
       run[j].failed \/ \A t \in run[j].plan : Settled(j, t) \/ Ahead(j, t)
  /\ phase[j] = "done" => \A t \in run[j].plan : Settled(j, t)

Cover == \A j \in Job : source[j] = NoLog => CoverAt(j)

\* Who is settled remains so while the run goes on.
LEMMA SettledStays ==
  ASSUME TypeInv, [Next]_vars, NEW j \in Job, NEW t, Settled(j, t),
         run[j].off \subseteq run'[j].off, run[j].untraced \subseteq run'[j].untraced
  PROVE  Settled(j, t)'
  BY InboxGrows, LogsStep DEF Settled, Reached, Traced

\* A run that ends as done keeps its history; one that fails is not done.
LEMMA EndCover ==
  ASSUME TypeInv, NEW j \in Job
  PROVE  /\ Done(j) => /\ run'[j].at = "idle" /\ run'[j].plan = run[j].plan
                       /\ run'[j].off = run[j].off
                       /\ run'[j].untraced = run[j].untraced
         /\ ~At(j, "idle") /\ Fail(j) => CoverAt(j)'
<1>0. /\ run \in [Job -> RunRecord] /\ run[j] \in RunRecord
      /\ phase \in [Job -> {"absent", "open", "done", "failed", "deleted"}]
      /\ ~At(j, "idle") => phase[j] = "open"
  BY DEF TypeInv, TypeOK, Placed
<1>1. Ended(j).at = "idle" /\ Ended(j).plan = run[j].plan
      /\ Ended(j).off = run[j].off /\ Ended(j).untraced = run[j].untraced
  BY <1>0 DEF Ended, NewRun
<1>2. Done(j) => run'[j] = Ended(j)
  BY <1>0 DEF Done
<1>3. ASSUME ~At(j, "idle"), Fail(j) PROVE CoverAt(j)'
  <2>1. run'[j] = NewRun /\ NewRun.at = "idle"
    BY <1>0, <1>3 DEF Fail, NewRun
  <2>2. phase'[j] # "done"
    BY <1>0, <1>3 DEF Fail, Queue!Close
  <2> QED
    BY <2>1, <2>2 DEF CoverAt
<1> QED
  BY <1>1, <1>2, <1>3

LEMMA BeginCover ==
  ASSUME TypeInv, [Next]_vars, NEW j \in Job, CoverAt(j),
         Claim(j) \/ Interrupt(j) \/ LoadTask(j) \/ ReadTask(j) \/ ReadTemplate(j)
  PROVE  CoverAt(j)'
<1>0. /\ run \in [Job -> RunRecord] /\ run[j] \in RunRecord
      /\ run[j].todo \in Seq(Channel)
      /\ ~At(j, "idle") => phase[j] = "open"
  BY DEF TypeInv, TypeOK, Placed, RunRecord
<1>1. CASE Claim(j)
  <2> DEFINE r == [NewRun EXCEPT !.at = "claimed", !.since = SwitchedOff]
  <2>1. run'[j] = r /\ phase'[j] = "open"
    BY <1>0, <1>1 DEF Claim, Queue!Run
  <2>2. r.at = "claimed" /\ r.plan = {}
    BY DEF NewRun
  <2> HIDE DEF r
  <2> QED
    BY <2>1, <2>2 DEF CoverAt
<1>2. CASE Interrupt(j)
  <2>1. run'[j] = NewRun /\ phase'[j] = "open"
    BY <1>0, <1>2 DEF Interrupt, queueVars
  <2>2. NewRun.at = "idle"
    BY DEF NewRun
  <2> QED
    BY <2>1, <2>2 DEF CoverAt
<1>3. CASE LoadTask(j)
  <2>1. run[j].at = "claimed" /\ run[j].plan = {} /\ ~At(j, "idle")
    BY <1>3 DEF LoadTask, At, CoverAt
  <2>2. CASE Goto(j, "loaded") /\ phase' = phase
    <3>1. run'[j].at = "loaded" /\ run'[j].plan = {}
      BY <1>0, <2>1, <2>2 DEF Goto, RunRecord
    <3> QED
      BY <1>0, <2>1, <2>2, <3>1 DEF CoverAt
  <2>3. CASE Done(j)
    BY <2>1, <2>3, EndCover DEF CoverAt
  <2>4. CASE Fail(j)
    BY <2>1, <2>4, EndCover
  <2> QED
    BY <1>3, <2>2, <2>3, <2>4 DEF LoadTask
<1>4. CASE ReadTask(j)
  <2> DEFINE r == [run[j] EXCEPT !.at = "template", !.todo = task.cfg.channels,
                                 !.receivers = task.cfg.receivers,
                                 !.plan = PlanOf(task.cfg)]
  <2>1. CASE run' = [run EXCEPT ![j] = r] /\ phase' = phase
    <3>1. run'[j] = r /\ phase'[j] = "open"
      BY <1>0, <1>4, <2>1 DEF ReadTask, At
    <3>2. /\ r.at = "template" /\ r.todo = task.cfg.channels
          /\ r.receivers = task.cfg.receivers /\ r.plan = PlanOf(task.cfg)
      BY <1>0 DEF RunRecord
    <3> HIDE DEF r
    <3>3. \A t \in run'[j].plan : Named(j, t)' /\ Ahead(j, t)'
      BY <3>1, <3>2 DEF PlanOf, Named, Ahead
    <3> QED
      BY <3>1, <3>2, <3>3 DEF CoverAt
  <2>2. CASE Fail(j)
    BY <1>4, <2>2, EndCover DEF ReadTask, At
  <2> QED
    BY <1>4, <2>1, <2>2 DEF ReadTask
<1>5. CASE ReadTemplate(j)
  <2>1. run[j].at = "template" /\ phase[j] = "open"
    BY <1>0, <1>5 DEF ReadTemplate, At
  <2>2. CASE Fail(j)
    BY <2>1, <2>2, EndCover DEF At
  <2>3. CASE ~Fail(j)
    <3>1. /\ run'[j].at \in {"channels", "refusing"} /\ phase' = phase
          /\ run'[j].todo = run[j].todo /\ run'[j].receivers = run[j].receivers
          /\ run'[j].plan = run[j].plan /\ run'[j].off = run[j].off
          /\ run'[j].untraced = run[j].untraced
      BY <1>0, <1>5, <2>3 DEF ReadTemplate, Goto, RunRecord
    <3>2. \A t \in run[j].plan : Named(j, t)' /\ (Settled(j, t)' \/ Ahead(j, t)')
      <4> SUFFICES ASSUME NEW t \in run[j].plan
                   PROVE  Named(j, t)' /\ (Settled(j, t)' \/ Ahead(j, t)')
        OBVIOUS
      <4>1. Named(j, t) /\ (Settled(j, t) \/ Ahead(j, t))
        BY <2>1 DEF CoverAt
      <4>2. Settled(j, t) => Settled(j, t)'
        BY <3>1, SettledStays
      <4> QED
        BY <2>1, <3>1, <4>1, <4>2 DEF Named, Ahead
    <3> QED
      BY <2>1, <3>1, <3>2 DEF CoverAt
  <2> QED
    BY <2>2, <2>3
<1> QED
  BY <1>1, <1>2, <1>3, <1>4, <1>5

\* A channel served is a channel less: the head of todo is settled.
LEMMA PassedCover ==
  ASSUME TypeInv, [Next]_vars, NEW j \in Job,
         run[j].todo # <<>>, run[j].at \notin {"addresses", "logging"},
         run'[j].at \notin {"addresses", "logging"},
         run'[j].todo = Tail(run[j].todo), run'[j].receivers = run[j].receivers,
         run'[j].off = run[j].off \cup {Head(run[j].todo)},
         run[j].untraced \subseteq run'[j].untraced, Passed(j, Head(run[j].todo)),
         NEW t, Named(j, t), Settled(j, t) \/ Ahead(j, t)
  PROVE  Named(j, t)' /\ (Settled(j, t)' \/ Ahead(j, t)')
<1>1. run[j].todo \in Seq(Channel)
  BY DEF TypeInv, TypeOK, RunRecord
<1>2. Named(j, t)'
  BY DEF Named
<1>3. CASE Settled(j, t)
  BY <1>2, <1>3, SettledStays
<1>4. CASE t.chan \in Range(Tail(run[j].todo))
  BY <1>2, <1>4 DEF Ahead
<1>5. CASE t.chan = Head(run[j].todo)
  BY <1>2, <1>5 DEF Settled, Traced, Passed
<1> QED
  BY <1>1, <1>3, <1>4, <1>5, RangeSplit DEF Ahead

LEMMA RefuseCover ==
  ASSUME TypeInv, [Next]_vars, NEW j \in Job, CoverAt(j), Refuse(j)
  PROVE  CoverAt(j)'
<1>0. run[j].at = "refusing" /\ phase[j] = "open"
  BY DEF Refuse, At, TypeInv, Placed
<1>1. CASE Done(j) /\ run[j].todo = <<>>
  <2>1. \A t \in run[j].plan : Settled(j, t)
    BY <1>0, <1>1 DEF CoverAt, Ahead, Range
  <2>2. \A t \in run[j].plan : Settled(j, t)'
    BY <1>1, <2>1, EndCover, SettledStays
  <2> QED
    BY <1>1, <2>2, EndCover DEF CoverAt
<1>2. CASE run[j].todo # <<>>
  <2>1. /\ run[j].todo # <<>> /\ run'[j].at = "refusing"
        /\ run'[j].todo = Tail(run[j].todo) /\ run'[j].plan = run[j].plan
        /\ run'[j].receivers = run[j].receivers
        /\ run'[j].off = run[j].off \cup {Head(run[j].todo)}
        /\ run[j].untraced \subseteq run'[j].untraced
        /\ phase' = phase /\ Passed(j, Head(run[j].todo))
    BY <1>2, RefuseEffect
  <2>2. \A t \in run[j].plan : Named(j, t)' /\ (Settled(j, t)' \/ Ahead(j, t)')
    BY <1>0, <2>1, PassedCover DEF CoverAt
  <2> QED
    BY <1>0, <2>1, <2>2 DEF CoverAt
<1> QED
  BY <1>1, <1>2, RefuseEffect

LEMMA NextChannelCover ==
  ASSUME TypeInv, [Next]_vars, NEW j \in Job, CoverAt(j), NextChannel(j)
  PROVE  CoverAt(j)'
<1> DEFINE c == Head(run[j].todo)
<1>0. /\ run[j].at = "channels" /\ phase[j] = "open" /\ phase' = phase
      /\ run[j].todo # <<>> /\ run[j].todo \in Seq(Channel)
      /\ run'[j].plan = run[j].plan /\ run'[j].receivers = run[j].receivers
      /\ run[j].untraced \subseteq run'[j].untraced
  BY NextChannelEffect DEF NextChannel, At, TypeInv, TypeOK, RunRecord, Placed
<1>1. \A t \in run[j].plan : Named(j, t) /\ Named(j, t)'
  BY <1>0 DEF CoverAt, Named
<1>2. CASE /\ run'[j].at = "addresses" /\ run'[j].todo = run[j].todo
           /\ run'[j].left = IF c \in Mail THEN run[j].receivers ELSE <<NoAddress>>
           /\ run'[j].off = run[j].off /\ run'[j].failed = run[j].failed
  <2>1. ASSUME NEW t \in run[j].plan, Settled(j, t) \/ Ahead(j, t)
        PROVE  Settled(j, t)' \/ Ahead(j, t)'
    <3>1. CASE Settled(j, t)
      BY <1>0, <1>2, <3>1, SettledStays
    <3>2. CASE t.chan \in Range(Tail(run[j].todo))
      BY <1>2, <3>2 DEF Ahead
    <3>3. CASE t.chan = c
      <4>1. NoAddress \in Range(<<NoAddress>>)
        BY DEF Range
      <4>2. t.to \in Range(run'[j].left)
        BY <1>1, <1>2, <3>3, <4>1 DEF Named
      <4> QED
        BY <1>2, <3>3, <4>2 DEF Ahead
    <3> QED
      BY <1>0, <2>1, <3>1, <3>2, <3>3, RangeSplit DEF Ahead
  <2> QED
    BY <1>0, <1>1, <1>2, <2>1 DEF CoverAt
<1>3. CASE run'[j].at = "channels" /\ run'[j].failed
  BY <1>0, <1>1, <1>3 DEF CoverAt
<1>4. CASE /\ run'[j].at = "channels" /\ run'[j].todo = Tail(run[j].todo)
           /\ run'[j].off = run[j].off \cup {c} /\ run'[j].failed = run[j].failed
           /\ Passed(j, c)
  <2>1. ASSUME NEW t \in run[j].plan, Settled(j, t) \/ Ahead(j, t)
        PROVE  Settled(j, t)' \/ Ahead(j, t)'
    BY <1>0, <1>1, <1>4, <2>1, PassedCover
  <2> QED
    BY <1>0, <1>1, <1>4, <2>1 DEF CoverAt
<1> QED
  BY <1>2, <1>3, <1>4, NextChannelEffect

LEMMA SendCover ==
  ASSUME TypeInv, [Next]_vars, NEW j \in Job, CoverAt(j), sendOnce(j)
  PROVE  CoverAt(j)'
<1>1. /\ run[j].at = "addresses" /\ phase[j] = "open" /\ phase' = phase
      /\ run'[j].at = "logging" /\ run'[j].todo = run[j].todo
      /\ run'[j].left = run[j].left /\ run'[j].receivers = run[j].receivers
      /\ run'[j].failed = run[j].failed /\ run'[j].plan = run[j].plan
      /\ run'[j].off = run[j].off /\ run'[j].untraced = run[j].untraced
  BY TransmitEffect DEF sendOnce, At, queueVars, TypeInv, Placed
<1>2. ASSUME NEW t \in run[j].plan
      PROVE  /\ Named(j, t) => Named(j, t)'
             /\ Settled(j, t) \/ Ahead(j, t) => Settled(j, t)' \/ Ahead(j, t)'
  <2>1. Settled(j, t) => Settled(j, t)'
    BY <1>1, SettledStays
  <2> QED
    BY <1>1, <2>1 DEF Named, Ahead
<1> QED
  BY <1>1, <1>2 DEF CoverAt

\* A send that is logged as a success has reached its target.
LEMMA LogSendCover ==
  ASSUME TypeInv, [Next]_vars, Unlogged, NEW j \in Job, CoverAt(j), LogSend(j)
  PROVE  CoverAt(j)'
<1>0. /\ run[j].at = "logging" /\ phase[j] = "open" /\ phase' = phase
      /\ source[j] = NoLog
      /\ run[j].todo # <<>> /\ run[j].todo \in Seq(Channel)
      /\ run[j].left # <<>> /\ run[j].left \in Seq(Address \cup {NoAddress})
      /\ run'[j].plan = run[j].plan /\ run'[j].receivers = run[j].receivers
      /\ run'[j].off = run[j].off /\ run[j].untraced \subseteq run'[j].untraced
      /\ run'[j].failed = (run[j].failed \/ run[j].err)
      /\ run'[j].at \in {"channels", "addresses"}
  BY LogSendEffect DEF LogSend, At, queueVars, TypeInv, TypeOK, RunRecord, Placed
<1>1. \A t \in run[j].plan : Named(j, t)'
  BY <1>0 DEF CoverAt, Named
<1>2. CASE run'[j].failed
  BY <1>0, <1>1, <1>2 DEF CoverAt
<1>3. ASSUME ~run[j].failed, ~run[j].err, NEW t \in run[j].plan
      PROVE  Settled(j, t)' \/ Ahead(j, t)'
  <2>1. Settled(j, t) \/ Ahead(j, t)
    BY <1>0, <1>3 DEF CoverAt
  <2>2. CASE Settled(j, t)
    BY <1>0, <2>2, SettledStays
  <2>3. CASE t.chan = Head(run[j].todo) /\ t.to = Head(run[j].left)
    <3>1. Reached(j, t)
      BY <1>0, <1>3, <2>3 DEF Unlogged, Arrived, NextRow, SendRow, RowOf, Reached
    <3> QED
      BY <1>0, <3>1, SettledStays DEF Settled
  <2>4. CASE t.chan \in Range(Tail(run[j].todo))
    BY <2>4, <1>0, LogSendEffect DEF Ahead
  <2>5. CASE /\ t.chan = Head(run[j].todo) /\ t.to \in Range(Tail(run[j].left))
             /\ t.to # Head(run[j].left)
    <3>1. t.to \in Range(run[j].left)
      BY <1>0, <2>5, RangeTail
    <3>2. Len(run[j].left) # 1
      BY <1>0, <2>5, <3>1, RangeSplit
    <3> QED
      BY <2>5, <3>2, LogSendEffect DEF Ahead
  <2> QED
    BY <1>0, <2>1, <2>2, <2>3, <2>4, <2>5, RangeSplit DEF Ahead
<1> QED
  BY <1>0, <1>1, <1>2, <1>3 DEF CoverAt

LEMMA FinishCover ==
  ASSUME TypeInv, [Next]_vars, NEW j \in Job, CoverAt(j), Finish(j)
  PROVE  CoverAt(j)'
<1>1. run[j].at = "channels" /\ run[j].todo = <<>> /\ ~At(j, "idle")
  BY DEF Finish, At
<1>2. CASE Fail(j)
  BY <1>1, <1>2, EndCover
<1>3. CASE Done(j) /\ ~run[j].failed
  <2>1. \A t \in run[j].plan : Settled(j, t)
    BY <1>1, <1>3 DEF CoverAt, Ahead, Range
  <2>2. \A t \in run[j].plan : Settled(j, t)'
    BY <1>3, <2>1, EndCover, SettledStays
  <2> QED
    BY <1>3, <2>2, EndCover DEF CoverAt
<1> QED
  BY <1>2, <1>3 DEF Finish

\* A job is closed as done by its own run only.
LEMMA DoneStep ==
  ASSUME TypeInv, [Next]_vars, NEW j \in Job, phase'[j] = "done"
  PROVE  phase[j] = "done" \/ RunStep(j)
<1>0. phase \in [Job -> {"absent", "open", "done", "failed", "deleted"}]
  BY DEF TypeInv, TypeOK
<1>1. ASSUME NEW k \in Job, k # j, RunStep(k) PROVE phase'[j] = phase[j]
  BY <1>0, <1>1 DEF RunStep, Claim, Interrupt, LoadTask, ReadTask, ReadTemplate, Refuse,
     NextChannel, sendOnce, LogSend, Finish, ReadLog, ResendLog, LogResend,
     Done, Fail, Queue!Close, Queue!Run, queueVars
<1>2. CASE \E k \in Job : \/ Enqueue(k) \/ GiveUp(k)
                          \/ \E row \in logs : EnqueueLogRetry(k, row)
  BY <1>0, <1>2 DEF Enqueue, GiveUp, EnqueueLogRetry, Queue!Accept, Queue!Close
<1>3. CASE phase' = phase
  BY <1>3
<1> QED
  BY <1>1, <1>2, <1>3 DEF Next, RunStep, ChangeTask, ChangeTemplate, ChangeChannel, Edit,
                          queueVars, vars

CoverInv == TruthInv /\ Cover

LEMMA CoverStep == CoverInv /\ [Next]_vars => CoverInv'
<1> SUFFICES ASSUME CoverInv, [Next]_vars, NEW j \in Job, source'[j] = NoLog
             PROVE  CoverAt(j)'
  BY TruthStep DEF CoverInv, Cover
<1>0. TypeInv /\ Unlogged
  BY DEF CoverInv, TruthInv
<1>1. source[j] = NoLog /\ CoverAt(j)
  BY <1>0, SourceStep DEF CoverInv, Cover
<1>2. CASE RunStep(j)
  <2>1. ~ReadLog(j) /\ ~ResendLog(j) /\ ~LogResend(j)
    BY <1>0, <1>1 DEF ReadLog, ResendLog, LogResend, TypeInv, Placed
  <2> QED
    BY <1>0, <1>1, <1>2, <2>1, BeginCover, RefuseCover, NextChannelCover, SendCover,
       LogSendCover, FinishCover DEF RunStep
<1>3. CASE ~RunStep(j)
  <2>1. SameRun(j) /\ (phase'[j] = "done" => phase[j] = "done")
    BY <1>0, <1>3, OneRun, DoneStep
  <2>2. ASSUME NEW t
        PROVE  /\ Named(j, t)' <=> Named(j, t)
               /\ Ahead(j, t)' <=> Ahead(j, t)
               /\ Settled(j, t) => Settled(j, t)'
    BY <1>0, <2>1, SettledStays DEF SameRun, Named, Ahead
  <2> QED
    BY <1>1, <2>1, <2>2 DEF CoverAt, SameRun
<1> QED
  BY <1>2, <1>3

LEMMA CoverInit == Init => CoverInv
  BY TruthInit DEF Init, CoverInv, Cover, CoverAt, NewRun

LEMMA CoverAlways == Spec => []CoverInv
  BY CoverInit, CoverStep, PTL DEF Spec

LEMMA CoverMeans == CoverInv => DoneMeansAccounted /\ NoSilentMiss
  BY DEF CoverInv, Cover, CoverAt, Settled, Traced, Sent, DoneMeansAccounted, NoSilentMiss

\* A job that is done has reached everybody its task named, unless the channel
\* or the template was switched off: for any number of channels, receivers and
\* attempts, whatever sends, statements and processes fail on the way.
THEOREM DoneIsAccounted == Spec => []DoneMeansAccounted
  BY CoverAlways, CoverMeans, PTL

\* Whom a done job has left out has a failed row, unless that very insert
\* failed or the channel could not be read for it.
THEOREM NobodyMissedSilently == Spec => []NoSilentMiss
  BY CoverAlways, CoverMeans, PTL

-----------------------------------------------------------------------------
(* Switched off.  Inductive form: what has been off since a run began is    *)
(* still off, and a run has got past nothing that was.                      *)

Silent ==
  \A j \in Job :
    /\ run[j].since \subseteq SwitchedOff
    /\ source[j] = NoLog =>
         /\ run[j].at \in {"loaded", "template", "channels", "addresses", "logging"} =>
              "task" \notin run[j].since
         /\ run[j].at \in {"channels", "addresses", "logging"} =>
              "template" \notin run[j].since
         /\ run[j].at \in {"addresses", "logging"} =>
              Head(run[j].todo) \notin run[j].since

SilentInv == TypeInv /\ Kinds /\ Silent

\* During a run its memory of what is off is only cut down, by users.
LEMMA SinceStep ==
  ASSUME TypeInv, NEW j \in Job, RunStep(j)
  PROVE  \/ Claim(j) /\ run'[j].at = "claimed" /\ run'[j].since = SwitchedOff
         \/ run'[j].at = "idle" /\ run'[j].since = {}
         \/ run'[j].since = run[j].since
<1>0. run \in [Job -> RunRecord] /\ run[j] \in RunRecord /\ Ended(j) \in RunRecord
  BY EndedType DEF TypeInv, TypeOK
<1>1. CASE Claim(j)
  <2>1. /\ [NewRun EXCEPT !.at = "claimed", !.since = SwitchedOff].since = SwitchedOff
        /\ [NewRun EXCEPT !.at = "claimed", !.since = SwitchedOff].at = "claimed"
    BY DEF NewRun
  <2> QED
    BY <1>0, <1>1, <2>1 DEF Claim
<1>2. CASE Interrupt(j) \/ Done(j) \/ Fail(j)
  <2>1. NewRun.since = {} /\ Ended(j).since = {} /\ NewRun.at = "idle" /\ Ended(j).at = "idle"
    BY DEF NewRun, Ended
  <2> QED
    BY <1>0, <1>2, <2>1 DEF Interrupt, Done, Fail
<1>3. CASE \E p : Goto(j, p)
  BY <1>0, <1>3 DEF Goto, RunRecord
<1>4. CASE ReadTask(j) \/ ReadTemplate(j)
  BY <1>0, <1>2, <1>3, <1>4 DEF ReadTask, ReadTemplate, RunRecord
<1>5. CASE Refuse(j) \/ NextChannel(j) \/ LogSend(j)
  BY <1>2, <1>5, RefuseEffect, NextChannelEffect, LogSendEffect
<1>6. CASE sendOnce(j) \/ ResendLog(j)
  <2>1. Done(j) \/ \E c, to, x : Transmit(j, c, to, x)
    BY <1>6 DEF sendOnce, ResendLog
  <2> QED
    BY <1>2, <2>1, TransmitEffect
<1>7. CASE LogResend(j)
  <2>1. PICK row : Create(j, row, Ended(j))
    BY <1>7 DEF LogResend
  <2>2. [Ended(j) EXCEPT !.untraced = @ \cup {row.chan}].since = Ended(j).since
        /\ Ended(j).since = {}
    BY <1>0 DEF RunRecord, Ended, NewRun
  <2> QED
    BY <1>0, <1>7, <2>1, <2>2, Places DEF Create
<1> QED
  BY <1>1, <1>2, <1>3, <1>4, <1>5, <1>6, <1>7
     DEF RunStep, LoadTask, Finish, ReadLog

\* A user's change: what is switched on is forgotten by every run.
LEMMA SwitchedOffStep ==
  ASSUME TypeInv,
         \/ \E s \in Switch, cfg \in Config : ChangeTask(s, cfg)
         \/ \E s \in Switch, x \in Content : ChangeTemplate(s, x)
         \/ \E c \in Channel, s \in Switch \cup {"broken"} : ChangeChannel(c, s)
  PROVE  \E S : SwitchOn(S) /\ SwitchedOff \ S \subseteq SwitchedOff'
<1>0. {"task", "template"} \cap Channel = {} /\ channel \in [Channel -> Switch \cup {"broken"}]
  BY DeliveryAssumption DEF TypeInv, TypeOK
<1>1. CASE \E s \in Switch, cfg \in Config : ChangeTask(s, cfg)
  <2>1. PICK s \in Switch, cfg \in Config : ChangeTask(s, cfg)
    BY <1>1
  <2> DEFINE S == IF s = "enabled" THEN {"task"} ELSE {}
  <2>2. /\ SwitchOn(S) /\ task' = [state |-> s, cfg |-> cfg]
        /\ template' = template /\ channel' = channel
    BY <2>1 DEF ChangeTask
  <2>3. SwitchedOff \ S \subseteq SwitchedOff'
    BY <2>2 DEF SwitchedOff
  <2> QED
    BY <2>2, <2>3
<1>2. CASE \E s \in Switch, x \in Content : ChangeTemplate(s, x)
  <2>1. PICK s \in Switch, x \in Content : ChangeTemplate(s, x)
    BY <1>2
  <2> DEFINE S == IF s = "enabled" THEN {"template"} ELSE {}
  <2>2. /\ SwitchOn(S) /\ template' = [state |-> s, content |-> x]
        /\ task' = task /\ channel' = channel
    BY <2>1 DEF ChangeTemplate
  <2>3. SwitchedOff \ S \subseteq SwitchedOff'
    BY <2>2 DEF SwitchedOff
  <2> QED
    BY <2>2, <2>3
<1>3. CASE \E c \in Channel, s \in Switch \cup {"broken"} : ChangeChannel(c, s)
  <2>1. PICK c \in Channel, s \in Switch \cup {"broken"} : ChangeChannel(c, s)
    BY <1>3
  <2> DEFINE S == IF s \in {"enabled", "broken"} THEN {c} ELSE {}
  <2>2. /\ SwitchOn(S) /\ channel' = [channel EXCEPT ![c] = s]
        /\ task' = task /\ template' = template
    BY <2>1 DEF ChangeChannel
  <2>3. SwitchedOff \ S \subseteq SwitchedOff'
    BY <1>0, <2>2 DEF SwitchedOff, Switch
  <2> QED
    BY <2>2, <2>3
<1> QED
  BY <1>1, <1>2, <1>3

\* What is found enabled is not among what is switched off.
LEMMA EnabledIsOn ==
  ASSUME TypeInv
  PROVE  /\ task.state = "enabled" => "task" \notin SwitchedOff
         /\ template.state = "enabled" => "template" \notin SwitchedOff
         /\ \A c \in Channel : channel[c] = "enabled" => c \notin SwitchedOff
  BY DeliveryAssumption DEF SwitchedOff

\* A run gets past nothing that has been off since it began.
LEMMA GateStep ==
  ASSUME TypeInv, Kinds, Silent, NEW j \in Job, RunStep(j), source[j] = NoLog,
         run'[j].since = run[j].since
  PROVE  /\ run'[j].at \in {"loaded", "template", "channels", "addresses", "logging"} =>
              "task" \notin run'[j].since
         /\ run'[j].at \in {"channels", "addresses", "logging"} =>
              "template" \notin run'[j].since
         /\ run'[j].at \in {"addresses", "logging"} =>
              Head(run'[j].todo) \notin run'[j].since
<1>0. /\ run \in [Job -> RunRecord] /\ run[j] \in RunRecord
      /\ run[j].since \subseteq SwitchedOff
  BY DEF TypeInv, TypeOK, Silent
<1>1. CASE run'[j].at \in {"idle", "claimed", "refusing"}
  BY <1>1
<1>2. CASE LoadTask(j) /\ run'[j].at # "idle"
  <2>1. task.state = "enabled" /\ Goto(j, "loaded")
    BY <1>2, Places DEF LoadTask
  <2> QED
    BY <1>0, <2>1, EnabledIsOn, Places
<1>3. CASE ReadTask(j) /\ run'[j].at # "idle"
  <2>1. run[j].at = "loaded" /\ run'[j].at = "template"
    BY <1>0, <1>3, Places DEF ReadTask, At, RunRecord
  <2> QED
    BY <2>1 DEF Silent
<1>4. CASE ReadTemplate(j) /\ run'[j].at \notin {"idle", "refusing"}
  <2>1. run[j].at = "template" /\ run'[j].at = "channels" /\ template.state = "enabled"
    BY <1>0, <1>4, Places DEF ReadTemplate, At, RunRecord
  <2> QED
    BY <1>0, <2>1, EnabledIsOn DEF Silent
<1>5. CASE NextChannel(j)
  <2>1. /\ run[j].at = "channels" /\ run'[j].at \in {"channels", "addresses"}
        /\ run'[j].at = "addresses" =>
             /\ run'[j].todo = run[j].todo /\ Head(run[j].todo) \in Channel
             /\ channel[Head(run[j].todo)] = "enabled"
    BY <1>5, NextChannelEffect
  <2> QED
    BY <1>0, <2>1, EnabledIsOn DEF Silent
<1>6. CASE sendOnce(j)
  <2>1. run[j].at = "addresses" /\ run'[j].at = "logging" /\ run'[j].todo = run[j].todo
    BY <1>6, TransmitEffect DEF sendOnce, At
  <2> QED
    BY <2>1 DEF Silent
<1>7. CASE LogSend(j)
  <2>1. /\ run[j].at = "logging" /\ run'[j].at \in {"channels", "addresses"}
        /\ run'[j].at = "addresses" => run'[j].todo = run[j].todo
    BY <1>7, LogSendEffect
  <2> QED
    BY <2>1 DEF Silent
<1>8. ~ReadLog(j) /\ ~ResendLog(j) /\ ~LogResend(j)
  BY DEF ReadLog, ResendLog, LogResend, TypeInv, Placed
<1>9. CASE Claim(j) \/ Interrupt(j) \/ Refuse(j) \/ Finish(j)
  BY <1>1, <1>9, Places, RefuseEffect DEF Finish
<1> QED
  BY <1>1, <1>2, <1>3, <1>4, <1>5, <1>6, <1>7, <1>8, <1>9 DEF RunStep

LEMMA SilentStep == SilentInv /\ [Next]_vars => SilentInv'
<1> SUFFICES ASSUME SilentInv, [Next]_vars PROVE SilentInv'
  OBVIOUS
<1>0. TypeInv /\ Kinds /\ Silent /\ TypeInv' /\ Kinds'
  BY TypeStep, KindsStep DEF SilentInv
<1> DEFINE UserChange ==
             \/ \E s \in Switch, cfg \in Config : ChangeTask(s, cfg)
             \/ \E s \in Switch, x \in Content : ChangeTemplate(s, x)
             \/ \E c \in Channel, s \in Switch \cup {"broken"} : ChangeChannel(c, s)
<1>1. CASE UserChange
  <2>1. PICK S : SwitchOn(S) /\ SwitchedOff \ S \subseteq SwitchedOff'
    BY <1>0, <1>1, SwitchedOffStep
  <2>2. source' = source
    BY <1>1 DEF ChangeTask, ChangeTemplate, ChangeChannel, Edit, queueVars
  <2>3. ASSUME NEW j \in Job
        PROVE  /\ run'[j].at = run[j].at /\ run'[j].todo = run[j].todo
               /\ run'[j].since = run[j].since \ S
    <3>1. run[j] \in RunRecord /\ run'[j] = [run[j] EXCEPT !.since = @ \ S]
      BY <1>0, <2>1 DEF SwitchOn, TypeInv, TypeOK
    <3> QED
      BY <3>1 DEF RunRecord
  <2>4. Silent'
    BY <1>0, <2>1, <2>2, <2>3 DEF Silent
  <2> QED
    BY <1>0, <2>4 DEF SilentInv
<1>2. CASE ~UserChange
  <2>1. SwitchedOff' = SwitchedOff
    BY <1>2 DEF Next, Enqueue, EnqueueLogRetry, Claim, Interrupt, GiveUp, LoadTask, ReadTask,
       ReadTemplate, Refuse, NextChannel, sendOnce, LogSend, Finish, ReadLog, ResendLog,
       LogResend, userVars, vars, SwitchedOff
  <2>2. ASSUME NEW j \in Job, ~RunStep(j) PROVE run'[j] = run[j]
    BY <1>0, <1>2, <2>2, OthersRun
       DEF Next, RunStep, Enqueue, EnqueueLogRetry, GiveUp, vars
  <2>3. ASSUME NEW j \in Job
        PROVE  /\ run'[j].since \subseteq SwitchedOff'
               /\ source'[j] = NoLog =>
                    /\ run'[j].at \in {"loaded", "template", "channels", "addresses", "logging"} =>
                         "task" \notin run'[j].since
                    /\ run'[j].at \in {"channels", "addresses", "logging"} =>
                         "template" \notin run'[j].since
                    /\ run'[j].at \in {"addresses", "logging"} =>
                         Head(run'[j].todo) \notin run'[j].since
    <3>1. source'[j] = source[j] \/ source'[j] # NoLog
      BY <1>0, SourceStep
    <3>2. CASE ~RunStep(j)
      BY <1>0, <2>1, <2>2, <3>1, <3>2 DEF Silent
    <3>3. CASE RunStep(j)
      BY <1>0, <2>1, <3>1, <3>3, SinceStep, GateStep DEF Silent
    <3> QED
      BY <3>2, <3>3
  <2>4. Silent'
    BY <2>3 DEF Silent
  <2> QED
    BY <1>0, <2>4 DEF SilentInv
<1> QED
  BY <1>1, <1>2

LEMMA SilentInit == Init => SilentInv
  BY TypeInit DEF Init, SilentInv, Kinds, Silent, NewRun

LEMMA SilentSend ==
  SilentInv /\ [Next]_vars =>
    \A m \in inbox' \ inbox :
       /\ m.chan \notin run[m.job].since
       /\ source[m.job] = NoLog => {"task", "template"} \cap run[m.job].since = {}
<1> SUFFICES ASSUME SilentInv, [Next]_vars, NEW m \in inbox' \ inbox
             PROVE  /\ m.chan \notin run[m.job].since
                    /\ source[m.job] = NoLog =>
                         {"task", "template"} \cap run[m.job].since = {}
  OBVIOUS
<1>1. TypeInv /\ Kinds /\ Silent
  BY DEF SilentInv
<1>2. PICK j \in Job : (sendOnce(j) \/ ResendLog(j)) /\ m.job = j
  BY <1>1, InboxStep
<1>3. CASE sendOnce(j)
  <2>1. run[j].at = "addresses" /\ source[j] = NoLog /\ m.chan = Head(run[j].todo)
    BY <1>1, <1>3 DEF sendOnce, Transmit, Kinds, At
  <2> QED
    BY <1>1, <1>2, <2>1 DEF Silent
<1>4. CASE ResendLog(j)
  <2>1. source[j] # NoLog /\ source[j] \in Row /\ source[j].chan \in Channel
    BY <1>1, <1>4 DEF ResendLog, At, TypeInv, TypeOK, Placed, Row
  <2>2. channel[source[j].chan] = "enabled" /\ m.chan = source[j].chan
    BY <1>4 DEF ResendLog, Refused, Transmit
  <2> QED
    BY <1>1, <1>2, <2>1, <2>2, EnabledIsOn DEF Silent
<1> QED
  BY <1>2, <1>3, <1>4

\* Nothing leaves through a channel, and nothing but a resend for a task or
\* from a template, that has been switched off ever since the run began.
THEOREM OffIsSilent == Spec => SwitchedOffStaysSilent
<1>1. Spec => []SilentInv
  BY SilentInit, SilentStep, PTL DEF Spec
<1> QED
  BY <1>1, SilentSend, PTL DEF Spec, SwitchedOffStaysSilent

=============================================================================
