------------------------------ MODULE Delivery ------------------------------
(***************************************************************************)
(* One run of a job, from the claim to the result it reports to the queue: *)
(* QueueService.process, NotificationService.SendTask, sendToChannels,     *)
(* sendOnce and ResendLog.  The queue around it is what JobContract says:  *)
(* it runs an open job up to MaxAttempts times, one run after the other.   *)
(*                                                                         *)
(* Task, template and channels are read by one statement each, at          *)
(* different times, while users edit, switch off and delete them; every    *)
(* send and every row in task_logs is a step of its own.  A run may be     *)
(* interrupted between any two steps: by a crash, by a panic, or by a      *)
(* MarkDone or MarkFailed that is lost.                                    *)
(*                                                                         *)
(* The model has one task with its template.  Rendering is the choice of   *)
(* the template's content: variables are the job's and never change.       *)
(***************************************************************************)
EXTENDS Integers, Sequences, Functions

CONSTANTS
  SendJob,      \* ids of send_jobs, for the task's jobs ...
  ResendJob,    \* ... and for resends; apart only to bound each kind
  MaxAttempts,  \* QUEUE_MAX_ATTEMPTS
  Channel,      \* the channels
  Mail,         \* those of type email, which send to each receiver
  Address,      \* the receivers' addresses
  NoAddress,    \* the empty address: the target is bound to the channel
  Content,      \* the rendered contents a template may have
  Empty,        \* the empty content
  Config,       \* the channel lists and receivers a task may have
  NoLog,        \* log_id = 0: the job is a task's, not a resend
  MaxEdits,     \* bound: changes by users
  MaxFaults     \* bound: failing statements and interrupted runs

Job == SendJob \cup ResendJob

ASSUME DeliveryAssumption ==
  /\ SendJob \cap ResendJob = {}
  /\ MaxAttempts \in Nat \ {0}
  /\ Mail \subseteq Channel
  /\ NoAddress \notin Address
  /\ {"task", "template"} \cap Channel = {}
  /\ Empty \notin Content
  /\ Config \subseteq [channels : Seq(Channel), receivers : Seq(Address)]
  /\ MaxEdits \in Nat
  /\ MaxFaults \in Nat

Switch == {"enabled", "disabled", "deleted"}

VARIABLES
  phase, runs,  \* the queue: see JobContract
  source,       \* the log row a job resends, or NoLog
  run,          \* the current or last run of each job
  task,         \* the task's row
  template,     \* its template's row
  channel,      \* each channel; "broken" if its configuration is unusable
  inbox,        \* the messages that have arrived
  logs,         \* the rows of task_logs
  edits, faults

queueVars == <<phase, runs, source>>
userVars  == <<task, template, channel, edits>>
vars == <<queueVars, run, userVars, inbox, logs, faults>>

Queue == INSTANCE JobContract

Targets == [chan : Channel, to : Address \cup {NoAddress}]

\* A row of task_logs; job and run say who wrote it.
Row == [job : Job, run : 1 .. MaxAttempts, chan : Channel,
        to : Address \cup {NoAddress}, content : Content \cup {Empty},
        status : {"success", "failed"}]

ASSUME LogAssumption == NoLog \notin Row

\* A message that has arrived; job and run say who sent it.
Message == [job : Job, run : 1 .. MaxAttempts, chan : Channel,
            to : Address \cup {NoAddress}, content : Content \cup {Empty}]

RunPC == {"idle", "claimed", "loaded", "template", "refusing", "channels",
          "addresses", "resending", "logging"}

RunRecord ==
  [at : RunPC, todo : Seq(Channel), receivers : Seq(Address),
   left : Seq(Address \cup {NoAddress}), content : Content \cup {Empty},
   err : BOOLEAN, failed : BOOLEAN, plan : SUBSET Targets,
   off : SUBSET Channel, untraced : SUBSET Channel,
   since : SUBSET (Channel \cup {"task", "template"})]

NewRun == [at |-> "idle",
           todo |-> <<>>,       \* the channels still to serve
           receivers |-> <<>>,  \* as read with the task
           left |-> <<>>,       \* the addresses still to serve in this channel
           content |-> Empty,   \* as rendered
           err |-> FALSE,       \* the last send has failed
           failed |-> FALSE,    \* lastErr # nil
           plan |-> {},         \* history: the targets the task named
           off |-> {},          \* history: channels found switched off, or all
                                \* if the template was
           untraced |-> {},     \* history: channels whose row was not written
           since |-> {}]        \* history: what has been off since the run began

Init ==
  /\ Queue!Init
  /\ source = [j \in Job |-> NoLog]
  /\ run = [j \in Job |-> NewRun]
  /\ task \in {[state |-> "enabled", cfg |-> c] : c \in Config}
  /\ template \in {[state |-> "enabled", content |-> x] : x \in Content}
  /\ channel = [c \in Channel |-> "enabled"]
  /\ inbox = {}
  /\ logs = {}
  /\ edits = 0
  /\ faults = 0

-----------------------------------------------------------------------------
(* Helpers.                                                                *)

At(j, p) == run[j].at = p
Goto(j, p) == run' = [run EXCEPT ![j].at = p]

\* A statement fails, or a process does.
Fault ==
  /\ faults < MaxFaults
  /\ faults' = faults + 1

\* What is left of a run that has ended as done: its history.
Ended(j) == [NewRun EXCEPT !.plan = run[j].plan, !.off = run[j].off,
                           !.untraced = run[j].untraced]

\* process ends with MarkDone ...
Done(j) ==
  /\ run' = [run EXCEPT ![j] = Ended(j)]
  /\ Queue!Close({j}, "done")

\* ... or with MarkFailed, which gives up or leaves the job to be run again.
Fail(j) ==
  /\ run' = [run EXCEPT ![j] = NewRun]
  /\ IF runs[j] = MaxAttempts THEN Queue!Close({j}, "failed")
     ELSE UNCHANGED <<phase, runs>>

\* logRepo.Create: its error is ignored, so the run goes on as r either way.
Create(j, row, r) ==
  \/ /\ logs' = logs \cup {row}
     /\ run' = [run EXCEPT ![j] = r]
     /\ UNCHANGED faults
  \/ /\ Fault
     /\ run' = [run EXCEPT ![j] = [r EXCEPT !.untraced = @ \cup {row.chan}]]
     /\ UNCHANGED logs

RowOf(j, c, to, content, status) ==
  [job |-> j, run |-> runs[j], chan |-> c, to |-> to,
   content |-> content, status |-> status]

\* Mutated: the last channel or receiver decides.
Accumulate_LastOnly(failed, err) == err

\* lastErr: an error is remembered, a success does not clear it.
Accumulate(failed, err) == failed \/ err

\* Whom the task's configuration names.
PlanOf(cfg) ==
  {t \in Targets :
     /\ t.chan \in Range(cfg.channels)
     /\ IF t.chan \in Mail THEN t.to \in Range(cfg.receivers) ELSE t.to = NoAddress}

-----------------------------------------------------------------------------
(* The queue.                                                              *)

\* Enqueue accepts a job of the enabled task.  (Its check and its insert are
\* two steps in SendQueue; here the run checks the task again.)
Enqueue(j) ==
  /\ j \in SendJob
  /\ task.state = "enabled"
  /\ Queue!Accept(j)
  /\ UNCHANGED <<source, run, userVars, inbox, logs, faults>>

\* EnqueueLogRetry accepts a failed row of the enabled task.
EnqueueLogRetry(j, row) ==
  /\ j \in ResendJob
  /\ row \in logs
  /\ row.status = "failed"
  /\ task.state = "enabled"
  /\ Queue!Accept(j)
  /\ source' = [source EXCEPT ![j] = row]
  /\ UNCHANGED <<run, userVars, inbox, logs, faults>>

\* Everything that is switched off now.
SwitchedOff ==
  {c \in Channel : channel[c] \in {"disabled", "deleted"}}
    \cup (IF task.state = "enabled" THEN {} ELSE {"task"})
    \cup (IF template.state = "enabled" THEN {} ELSE {"template"})

\* A worker claims the job and calls process.
Claim(j) ==
  /\ At(j, "idle")
  /\ Queue!Run(j)
  /\ run' = [run EXCEPT ![j] = [NewRun EXCEPT !.at = "claimed",
                                              !.since = SwitchedOff]]
  /\ UNCHANGED <<source, userVars, inbox, logs, faults>>

\* The run ends here, without a result: the claim is taken over later.
Interrupt(j) ==
  /\ ~At(j, "idle")
  /\ Fault
  /\ run' = [run EXCEPT ![j] = NewRun]
  /\ UNCHANGED <<queueVars, userVars, inbox, logs>>

\* RecoverStale gives up a job whose last run was interrupted.
GiveUp(j) ==
  /\ At(j, "idle")
  /\ runs[j] = MaxAttempts
  /\ Queue!Close({j}, "failed")
  /\ phase[j] = "open"
  /\ UNCHANGED <<source, run, userVars, inbox, logs, faults>>

-----------------------------------------------------------------------------
(* A run of a task's job: process and SendTask.                            *)

\* process reads the task: without it, or with it disabled, the job is done.
LoadTask(j) ==
  /\ At(j, "claimed")
  /\ source[j] = NoLog
  /\ \/ /\ task.state = "enabled"
        /\ Goto(j, "loaded")
        /\ UNCHANGED <<phase, runs, faults>>
     \/ /\ task.state # "enabled"
        /\ Done(j)
        /\ UNCHANGED faults
     \/ Fault /\ Fail(j)
  /\ UNCHANGED <<source, userVars, inbox, logs>>

\* SendTask reads it again; now a missing or disabled task is an error, as is
\* one without channels.
ReadTask(j) ==
  /\ At(j, "loaded")
  /\ \/ /\ task.state = "enabled"
        /\ task.cfg.channels # <<>>
        /\ run' = [run EXCEPT ![j].at = "template",
                              ![j].todo = task.cfg.channels,
                              ![j].receivers = task.cfg.receivers,
                              ![j].plan = PlanOf(task.cfg)]
        /\ UNCHANGED <<phase, runs, faults>>
     \/ /\ task.state # "enabled" \/ task.cfg.channels = <<>>
        /\ Fail(j)
        /\ UNCHANGED faults
     \/ Fault /\ Fail(j)
  /\ UNCHANGED <<source, userVars, inbox, logs>>

\* The template is read and rendered once for all channels.
ReadTemplate(j) ==
  /\ At(j, "template")
  /\ \/ /\ template.state = "enabled"
        /\ run' = [run EXCEPT ![j].at = "channels", ![j].content = template.content]
        /\ UNCHANGED <<phase, runs, faults>>
     \/ /\ template.state = "disabled"
        /\ Goto(j, "refusing")
        /\ UNCHANGED <<phase, runs, faults>>
     \/ /\ template.state = "deleted"
        /\ Fail(j)
        /\ UNCHANGED faults
     \/ Fault /\ Fail(j)
  /\ UNCHANGED <<source, userVars, inbox, logs>>

\* Mutated: no rows, as nothing was sent.
Refuse_Silent(j) ==
  /\ At(j, "refusing")
  /\ run' = [run EXCEPT ![j] = [Ended(j) EXCEPT !.off = Range(run[j].todo)]]
  /\ Queue!Close({j}, "done")
  /\ UNCHANGED <<source, userVars, inbox, logs, faults>>

\* A disabled template: a failed row without content for each channel that
\* can be read, and no error.
Refuse(j) ==
  /\ At(j, "refusing")
  /\ \/ /\ run[j].todo # <<>>
        /\ LET c == Head(run[j].todo)
               r == [run[j] EXCEPT !.todo = Tail(@), !.off = @ \cup {c}] IN
           IF channel[c] # "deleted"
           THEN Create(j, RowOf(j, c, NoAddress, Empty, "failed"), r)
           ELSE /\ run' = [run EXCEPT ![j] = [r EXCEPT !.untraced = @ \cup {c}]]
                /\ UNCHANGED <<logs, faults>>
        /\ UNCHANGED <<phase, runs>>
     \/ /\ run[j].todo = <<>>
        /\ Done(j)
        /\ UNCHANGED <<logs, faults>>
  /\ UNCHANGED <<source, userVars, inbox>>

-----------------------------------------------------------------------------
(* sendToChannels and sendOnce.                                            *)

\* Mutated: each channel renders the template anew.
MessageFor_Rendered(j) == template.content

\* What the next channel is given: the message rendered at the start.
MessageFor(j) == run[j].content

NoReceivers(j, c) == c \in Mail /\ run[j].receivers = <<>>

\* The next channel, as it is now.
NextChannel(j) ==
  /\ At(j, "channels")
  /\ run[j].todo # <<>>
  /\ LET c    == Head(run[j].todo)
         next == [run[j] EXCEPT !.todo = Tail(@)]
         skip == run' = [run EXCEPT ![j] = [next EXCEPT !.failed = TRUE]] IN
     \/ /\ channel[c] = "enabled"
        /\ ~NoReceivers(j, c)
        /\ run' = [run EXCEPT ![j].at = "addresses",
                              ![j].content = MessageFor(j),
                              ![j].left = IF c \in Mail THEN run[j].receivers
                                          ELSE <<NoAddress>>]
        /\ UNCHANGED <<logs, faults>>
     \/ /\ \/ channel[c] \in {"deleted", "broken"}
           \/ channel[c] = "enabled" /\ NoReceivers(j, c)
        /\ skip
        /\ UNCHANGED <<logs, faults>>
     \/ /\ channel[c] = "disabled"
        /\ Create(j, RowOf(j, c, NoAddress, run[j].content, "failed"),
                  [next EXCEPT !.off = @ \cup {c}])
     \/ Fault /\ skip /\ UNCHANGED logs
  /\ UNCHANGED <<queueVars, userVars, inbox>>

\* Mutated: the answer of a robot is not looked at, a refusal passes for a success.
Outcome_AnswerIgnored == [got : BOOLEAN, err : BOOLEAN]

\* What Send may come to: nothing is reported as sent that the service has not
\* accepted, but an error may come after it has (a time-out, a failing QUIT).
\* A 2xx answer without a code counts as acceptance, as it does in the code.
Outcome == [got : BOOLEAN, err : BOOLEAN] \ {[got |-> FALSE, err |-> FALSE]}

\* Send to one target, up to its return.
Transmit(j, c, to, content) ==
  \E o \in Outcome :
    /\ inbox' = IF o.got
                THEN inbox \cup {[job |-> j, run |-> runs[j], chan |-> c,
                                  to |-> to, content |-> content]}
                ELSE inbox
    /\ run' = [run EXCEPT ![j].at = "logging", ![j].err = o.err]

sendOnce(j) ==
  /\ At(j, "addresses")
  /\ Transmit(j, Head(run[j].todo), Head(run[j].left), run[j].content)
  /\ UNCHANGED <<queueVars, userVars, logs, faults>>

\* ... and its row; then the next address or the next channel.
LogSend(j) ==
  /\ At(j, "logging")
  /\ source[j] = NoLog
  /\ LET r    == run[j]
         last == Len(r.left) = 1
         status == IF r.err THEN "failed" ELSE "success" IN
     Create(j, RowOf(j, Head(r.todo), Head(r.left), r.content, status),
            [r EXCEPT !.at = IF last THEN "channels" ELSE "addresses",
                      !.todo = IF last THEN Tail(@) ELSE @,
                      !.left = Tail(@),
                      !.err = FALSE,
                      !.failed = Accumulate(@, r.err)])
  /\ UNCHANGED <<queueVars, userVars, inbox>>

\* All channels are served: process records the result.
Finish(j) ==
  /\ At(j, "channels")
  /\ run[j].todo = <<>>
  /\ IF run[j].failed THEN Fail(j) ELSE Done(j)
  /\ UNCHANGED <<source, userVars, inbox, logs, faults>>

-----------------------------------------------------------------------------
(* A run of a resend: ResendLog.  Whatever it returns, the job is done.    *)

\* The row is read; it may be unreadable, or cleaned up by now.
ReadLog(j) ==
  /\ At(j, "claimed")
  /\ source[j] # NoLog
  /\ \/ /\ Goto(j, "resending")
        /\ UNCHANGED <<phase, runs, faults>>
     \/ Fault /\ Done(j)
  /\ UNCHANGED <<source, userVars, inbox, logs>>

\* Mutated: a disabled channel is used.
Refused_NotDisabled(c) == channel[c] \in {"deleted", "broken"}

\* ResendLog returns before it sends.
Refused(c) == channel[c] # "enabled"

\* Mutated: the message is rendered from the template as it is now.
ResendText_Rendered(row) == template.content

ResendText(row) == row.content

\* The channel is read; the row's message goes to the row's address.
ResendLog(j) ==
  /\ At(j, "resending")
  /\ LET row == source[j] IN
     \/ /\ Refused(row.chan)
        /\ Done(j)
        /\ UNCHANGED <<inbox, faults>>
     \/ /\ ~Refused(row.chan)
        /\ Transmit(j, row.chan, row.to, ResendText(row))
        /\ UNCHANGED <<phase, runs, faults>>
     \/ Fault /\ Done(j) /\ UNCHANGED inbox
  /\ UNCHANGED <<source, userVars, logs>>

\* A new row for the resend; the old one stays.
LogResend(j) ==
  /\ At(j, "logging")
  /\ source[j] # NoLog
  /\ LET row == source[j]
         status == IF run[j].err THEN "failed" ELSE "success" IN
     Create(j, RowOf(j, row.chan, row.to, row.content, status),
            Ended(j))
  /\ Queue!Close({j}, "done")
  /\ UNCHANGED <<source, userVars, inbox>>

-----------------------------------------------------------------------------
(* Users: saving, toggling and deleting the rows that a run reads.         *)

Edit ==
  /\ edits < MaxEdits
  /\ edits' = edits + 1
  /\ UNCHANGED <<queueVars, inbox, logs, faults>>

\* What is switched on again has not been off since the runs began.
SwitchOn(S) == run' = [j \in Job |-> [run[j] EXCEPT !.since = @ \ S]]

ChangeTask(state, cfg) ==
  /\ Edit
  /\ task.state # "deleted"
  /\ state = "deleted" => cfg = task.cfg
  /\ task' = [state |-> state, cfg |-> cfg]
  /\ task' # task
  /\ SwitchOn(IF state = "enabled" THEN {"task"} ELSE {})
  /\ UNCHANGED <<template, channel>>

ChangeTemplate(state, content) ==
  /\ Edit
  /\ template.state # "deleted"
  /\ state = "deleted" => content = template.content
  /\ template' = [state |-> state, content |-> content]
  /\ template' # template
  /\ SwitchOn(IF state = "enabled" THEN {"template"} ELSE {})
  /\ UNCHANGED <<task, channel>>

ChangeChannel(c, state) ==
  /\ Edit
  /\ channel[c] # "deleted"
  /\ channel' = [channel EXCEPT ![c] = state]
  /\ channel' # channel
  /\ SwitchOn(IF state \in {"enabled", "broken"} THEN {c} ELSE {})
  /\ UNCHANGED <<task, template>>

Next ==
  \/ \E j \in Job :
       \/ Enqueue(j) \/ (\E row \in logs : EnqueueLogRetry(j, row))
       \/ Claim(j) \/ Interrupt(j) \/ GiveUp(j)
       \/ LoadTask(j) \/ ReadTask(j) \/ ReadTemplate(j) \/ Refuse(j)
       \/ NextChannel(j) \/ sendOnce(j) \/ LogSend(j) \/ Finish(j)
       \/ ReadLog(j) \/ ResendLog(j) \/ LogResend(j)
  \/ \E s \in Switch, cfg \in Config : ChangeTask(s, cfg)
  \/ \E s \in Switch, x \in Content : ChangeTemplate(s, x)
  \/ \E c \in Channel, s \in Switch \cup {"broken"} : ChangeChannel(c, s)

Spec == Init /\ [][Next]_vars

-----------------------------------------------------------------------------
(* Properties.                                                             *)

\* A run that sends or has sent has a channel and an address to send to.
HasTarget(j) ==
  At(j, "addresses") \/ (At(j, "logging") /\ source[j] = NoLog) =>
    run[j].left # <<>> /\ run[j].todo # <<>>

\* Every variable has its type, and a run has what its place needs: a channel
\* and an address to send to.
TypeOK ==
  /\ phase \in [Job -> {"absent", "open", "done", "failed", "deleted"}]
  /\ runs \in [Job -> 0 .. MaxAttempts]
  /\ source \in [Job -> Row \cup {NoLog}]
  /\ run \in [Job -> RunRecord]
  /\ task \in [state : Switch, cfg : Config]
  /\ template \in [state : Switch, content : Content]
  /\ channel \in [Channel -> Switch \cup {"broken"}]
  /\ inbox \subseteq Message
  /\ logs \subseteq Row
  /\ edits \in 0 .. MaxEdits
  /\ faults \in 0 .. MaxFaults
  /\ \A j \in Job : HasTarget(j)

Reached(j, t) == \E m \in inbox : m.job = j /\ m.chan = t.chan /\ m.to = t.to

Sent(j) == phase[j] = "done" /\ source[j] = NoLog

\* A job that ends as done has left nobody out by accident: every channel and
\* receiver that the task named in its last run has got a message of this job,
\* unless that run found the channel or the template switched off.  It is what
\* lastErr in sendToChannels, over two nested loops, and the retries are for.
DoneMeansAccounted ==
  \A j \in Job : Sent(j) =>
    \A t \in run[j].plan : Reached(j, t) \/ t.chan \in run[j].off

\* Nothing is left out without a trace ("one failed row for each, to be able to
\* follow it up", notification_service.go:68): whoever a done job did not reach
\* has a failed row of the channel, unless that one insert failed, or the
\* template was off and the channel could not be read.
NoSilentMiss ==
  \A j \in Job : Sent(j) =>
    \A t \in run[j].plan :
      \/ Reached(j, t)
      \/ t.chan \in run[j].untraced
      \/ \E row \in logs : row.job = j /\ row.chan = t.chan /\ row.status = "failed"

\* task_logs does not claim more than happened: a row with status success, of a
\* send or of a resend, stands for a message with this content that arrived
\* through this channel, at this address, in this run.
LogsTellTruth ==
  \A row \in logs : row.status = "success" =>
    \E m \in inbox : /\ m.job = row.job /\ m.run = row.run
                     /\ m.chan = row.chan /\ m.to = row.to
                     /\ m.content = row.content

\* All channels and receivers of one run get the same text, although the
\* template may be edited between two sends (SendTask renders once).
SameTextForAll ==
  \A m, n \in inbox : m.job = n.job /\ m.run = n.run => m.content = n.content

\* A resend sends what the failed row holds, to the channel and the address it
\* names, whatever has become of task and template since.
ResendIsFaithful ==
  \A m \in inbox : source[m.job] # NoLog =>
    LET row == source[m.job] IN
    m.chan = row.chan /\ m.to = row.to /\ m.content = row.content

\* Switching off takes effect for every run that begins later: no message
\* leaves through a channel, and none but a resend for a task or from a
\* template, that has been off ever since the run began.
SwitchedOffStaysSilent ==
  [][\A m \in inbox' \ inbox :
       /\ m.chan \notin run[m.job].since
       /\ source[m.job] = NoLog => {"task", "template"} \cap run[m.job].since = {}]_vars

=============================================================================
