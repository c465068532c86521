--------------------------- MODULE PlatformProofs ---------------------------
(***************************************************************************)
(* Safety of smaller components, each for every value of its constants:    *)
(* the message outbox, the deletion of an account and a host's agencies.   *)
(* The three share no rows, and a theorem is about one of them.            *)
(***************************************************************************)
EXTENDS Messaging, AccountDeletion, AgencyHosts, SumTheorems

(***************************************************************************)
(* Messaging.  Whoever is about to mark a row has published it.            *)
(***************************************************************************)

\* A request or a handler that is at its mark has a row that was delivered.
Publisher == [pc : {"idle", "publish", "mark", "enqueue"}, seq : Nat]
AfterPublish(w) == w.pc = "mark" => w.seq \in delivered
OutboxInv ==
    /\ messages \in Seq(ClientIds)
    /\ outJobs \subseteq Nat /\ stale \subseteq Nat
    /\ sender \in [Senders -> Publisher] /\ publisher \in [Publishers -> Publisher]
    /\ \A s \in Senders : AfterPublish(sender[s])
    /\ \A p \in Publishers : AfterPublish(publisher[p])
    /\ marked \subseteq delivered

\* A step of a request, which changes its own entry and delivers at most more.
LEMMA SenderMoves ==
    ASSUME OutboxInv, NEW s \in Senders, NEW w \in Publisher,
           sender' = [sender EXCEPT ![s] = w], UNCHANGED publisher,
           delivered \subseteq delivered', AfterPublish(w)'
    PROVE  /\ sender' \in [Senders -> Publisher]
           /\ \A q \in Senders : AfterPublish(sender[q])'
           /\ \A p \in Publishers : AfterPublish(publisher[p])'
  BY DEF OutboxInv, AfterPublish

\* The same of a handler.
LEMMA PublisherMoves ==
    ASSUME OutboxInv, NEW p \in Publishers, NEW w \in Publisher,
           publisher' = [publisher EXCEPT ![p] = w], UNCHANGED sender,
           delivered \subseteq delivered', AfterPublish(w)'
    PROVE  /\ publisher' \in [Publishers -> Publisher]
           /\ \A s \in Senders : AfterPublish(sender[s])'
           /\ \A q \in Publishers : AfterPublish(publisher[q])'
  BY DEF OutboxInv, AfterPublish

\* Every step of sendMessage, of the publish jobs and of the sweep.
LEMMA OutboxStep == OutboxInv /\ [MsgNext]_msgVars => OutboxInv'
  <1> SUFFICES ASSUME OutboxInv, [MsgNext]_msgVars PROVE OutboxInv'
    OBVIOUS
  <1>0. IdlePub \in Publisher /\ IdlePub.pc = "idle"
    BY DEF IdlePub, Publisher
  <1>1. ASSUME NEW s \in Senders, NEW c \in ClientIds, Send(s, c)
        PROVE  OutboxInv'
    <2> DEFINE w == [pc |-> "publish", seq |-> Len(messages) + 1]
    <2>1. w \in Publisher /\ w.pc = "publish" /\ messages' \in Seq(ClientIds)
      BY <1>1 DEF OutboxInv, Publisher, Send
    <2>2. /\ sender' = [sender EXCEPT ![s] = w]
          /\ UNCHANGED <<stale, delivered, marked, outJobs, publisher>>
      BY <1>1 DEF Send
    <2> HIDE DEF w
    <2> QED BY <2>1, <2>2, SenderMoves DEF OutboxInv, AfterPublish
  <1>2. ASSUME NEW s \in Senders, InlinePublish(s)
        PROVE  OutboxInv'
    <2> DEFINE w == [sender[s] EXCEPT !.pc = "mark"]
    <2>1. /\ sender' = [sender EXCEPT ![s] = w]
          /\ UNCHANGED <<messages, stale, outJobs, publisher, marked>>
          /\ delivered' = delivered \cup {sender[s].seq}
      BY <1>2 DEF InlinePublish, Publish
    <2>2. w \in Publisher /\ w.seq = sender[s].seq
      BY DEF OutboxInv, Publisher
    <2> HIDE DEF w
    <2> QED BY <2>1, <2>2, SenderMoves DEF OutboxInv, AfterPublish
  <1>3. ASSUME NEW s \in Senders, InlineMark(s)
        PROVE  OutboxInv'
    <2>1. /\ sender' = [sender EXCEPT ![s] = IdlePub]
          /\ UNCHANGED <<messages, stale, outJobs, publisher, delivered>>
          /\ marked' = marked \cup {sender[s].seq} /\ sender[s].seq \in delivered
      BY <1>3 DEF InlineMark, Mark, OutboxInv, AfterPublish
    <2> QED BY <1>0, <2>1, SenderMoves DEF OutboxInv, AfterPublish
  <1>4. ASSUME NEW s \in Senders, InlineFails(s)
        PROVE  OutboxInv'
    <2> DEFINE w == [sender[s] EXCEPT !.pc = "enqueue"]
    <2>1. /\ sender' = [sender EXCEPT ![s] = w]
          /\ UNCHANGED <<messages, stale, outJobs, publisher, delivered, marked>>
      BY <1>4 DEF InlineFails
    <2>2. w \in Publisher /\ w.pc = "enqueue"
      BY DEF OutboxInv, Publisher
    <2> HIDE DEF w
    <2> QED BY <2>1, <2>2, SenderMoves DEF OutboxInv, AfterPublish
  <1>5. ASSUME NEW s \in Senders, InlineEnqueue(s) \/ SenderCrash(s)
        PROVE  OutboxInv'
    <2>1. /\ sender' = [sender EXCEPT ![s] = IdlePub]
          /\ UNCHANGED <<messages, stale, publisher, delivered, marked>>
          /\ outJobs' \subseteq outJobs \cup {sender[s].seq}
      BY <1>5 DEF InlineEnqueue, SenderCrash
    <2>2. sender[s].seq \in Nat
      BY DEF OutboxInv, Publisher
    <2> QED BY <1>0, <2>1, <2>2, SenderMoves DEF OutboxInv, AfterPublish
  <1>6. ASSUME NEW p \in Publishers, NEW i \in Seqs, JobTake(p, i)
        PROVE  OutboxInv'
    <2> DEFINE w == [pc |-> "publish", seq |-> i]
    <2>1. /\ UNCHANGED <<messages, stale, sender, delivered, marked>>
          /\ outJobs' \subseteq outJobs /\ i \in Nat
          /\ UNCHANGED publisher \/ publisher' = [publisher EXCEPT ![p] = w]
      BY <1>6 DEF JobTake, OutboxInv
    <2>2. w \in Publisher /\ w.pc = "publish"
      BY <2>1 DEF Publisher
    <2> HIDE DEF w
    <2>3. CASE UNCHANGED publisher
      BY <2>1, <2>3 DEF OutboxInv, AfterPublish
    <2>4. CASE publisher' = [publisher EXCEPT ![p] = w]
      BY <2>1, <2>2, <2>4, PublisherMoves DEF OutboxInv, AfterPublish
    <2> QED BY <2>1, <2>3, <2>4
  <1>7. ASSUME NEW p \in Publishers, JobPublish(p)
        PROVE  OutboxInv'
    <2> DEFINE w == [publisher[p] EXCEPT !.pc = "mark"]
    <2>1. /\ publisher' = [publisher EXCEPT ![p] = w]
          /\ UNCHANGED <<messages, stale, outJobs, sender, marked>>
          /\ delivered' = delivered \cup {publisher[p].seq}
      BY <1>7 DEF JobPublish, Publish
    <2>2. w \in Publisher /\ w.seq = publisher[p].seq
      BY DEF OutboxInv, Publisher
    <2> HIDE DEF w
    <2> QED BY <2>1, <2>2, PublisherMoves DEF OutboxInv, AfterPublish
  <1>8. ASSUME NEW p \in Publishers, JobMark(p)
        PROVE  OutboxInv'
    <2>1. /\ publisher' = [publisher EXCEPT ![p] = IdlePub]
          /\ UNCHANGED <<messages, stale, outJobs, sender, delivered>>
          /\ marked' = marked \cup {publisher[p].seq} /\ publisher[p].seq \in delivered
      BY <1>8 DEF JobMark, Mark, OutboxInv, AfterPublish
    <2> QED BY <1>0, <2>1, PublisherMoves DEF OutboxInv, AfterPublish
  <1>9. ASSUME NEW p \in Publishers, JobFails(p)
        PROVE  OutboxInv'
    <2>1. /\ publisher' = [publisher EXCEPT ![p] = IdlePub]
          /\ UNCHANGED <<messages, stale, sender, delivered, marked>>
          /\ outJobs' \subseteq outJobs \cup {publisher[p].seq}
      BY <1>9 DEF JobFails
    <2>2. publisher[p].seq \in Nat
      BY DEF OutboxInv, Publisher
    <2> QED BY <1>0, <2>1, <2>2, PublisherMoves DEF OutboxInv, AfterPublish
  <1>10. CASE RowsAge \/ Sweep \/ UNCHANGED msgVars
    <2>1. UNCHANGED <<messages, delivered, marked, sender, publisher>>
      BY <1>10 DEF RowsAge, Sweep, msgVars
    <2>2. stale' \subseteq Nat
      <3>1. 1..Len(messages) \subseteq Nat
        BY DEF OutboxInv
      <3>2. stale' = 1..Len(messages) \/ stale' = stale
        BY <1>10 DEF RowsAge, Sweep, msgVars
      <3> QED BY <3>1, <3>2 DEF OutboxInv
    <2>3. outJobs' \subseteq Nat
      BY <1>10 DEF RowsAge, Sweep, Swept, msgVars, OutboxInv
    <2> QED BY <2>1, <2>2, <2>3 DEF OutboxInv, AfterPublish
  <1> QED BY <1>1, <1>2, <1>3, <1>4, <1>5, <1>6, <1>7, <1>8, <1>9, <1>10 DEF MsgNext

\* sendMessage, the publish jobs and the sweep, for any number of each and any
\* faults: publishedAt is set only on a row that has reached the channel.
THEOREM MarkedWasPublishedAlways == MsgSpec => []MarkedWasPublished
  <1>1. MsgInit => OutboxInv
    BY DEF MsgInit, OutboxInv, AfterPublish, IdlePub, Publisher
  <1>2. OutboxInv => MarkedWasPublished
    BY DEF OutboxInv, MarkedWasPublished
  <1> QED BY <1>1, <1>2, OutboxStep, PTL DEF MsgSpec

(***************************************************************************)
(* AccountDeletion.  A schedule that has sent its reminder says so in its  *)
(* row for as long as it is the current one.                               *)
(***************************************************************************)

\* No notice of a schedule to come; one of the current schedule only when its
\* row says reminded.
ReminderInv ==
    /\ delNow \in Nat /\ deletion \in DeletionRow
    /\ notices \in [1..MaxSchedules -> Nat]
    /\ \A n \in 1..MaxSchedules : /\ notices[n] <= 1
                                  /\ n > deletion.times => notices[n] = 0
                                  /\ n = deletion.times /\ ~deletion.reminded => notices[n] = 0

\* Every step of the requests and of the job.
LEMMA ReminderStep == ReminderInv /\ [DelNext]_delVars => ReminderInv'
  <1> SUFFICES ASSUME ReminderInv, [DelNext]_delVars PROVE ReminderInv'
    OBVIOUS
  <1>0. MaxSchedules \in Nat
    BY DelAssumption
  <1>1. ASSUME NEW r \in DelRequests, ScheduleWrite(r)
        PROVE  ReminderInv'
    <2>1. /\ deletion' = [times |-> deletion.times + 1, until |-> delNow + GraceDays,
                          at |-> delNow + DeletionDays, cancelled |-> FALSE,
                          deleted |-> FALSE, reminded |-> FALSE]
          /\ deletion.times < MaxSchedules /\ UNCHANGED <<delNow, notices>>
      BY <1>1 DEF ScheduleWrite
    <2>2. deletion' \in DeletionRow /\ deletion'.times = deletion.times + 1
      BY <1>0, <2>1, DelAssumption DEF ReminderInv, DeletionRow
    <2> QED BY <1>0, <2>1, <2>2 DEF ReminderInv, DeletionRow
  <1>2. ASSUME NEW j \in DelJobs, RemindClaim(j), Claimable
        PROVE  ReminderInv'
    <2>1. /\ deletion' = [deletion EXCEPT !.reminded = TRUE]
          /\ notices' = [notices EXCEPT ![deletion.times] = @ + 1]
          /\ deletion.times > 0 /\ ~deletion.reminded /\ UNCHANGED delNow
      BY <1>2 DEF RemindClaim, Claimable, Scheduled
    <2>2. deletion.times \in 1..MaxSchedules /\ notices[deletion.times] = 0
      BY <1>0, <2>1 DEF ReminderInv, DeletionRow
    <2>3. /\ deletion' \in DeletionRow /\ deletion'.times = deletion.times
          /\ deletion'.reminded
      BY <2>1 DEF ReminderInv, DeletionRow
    <2>4. notices' \in [1..MaxSchedules -> Nat] /\ notices'[deletion.times] = 1
      BY <2>1, <2>2 DEF ReminderInv
    <2>5. \A n \in 1..MaxSchedules : n # deletion.times => notices'[n] = notices[n]
      BY <2>1 DEF ReminderInv
    <2> QED BY <1>0, <2>1, <2>2, <2>3, <2>4, <2>5 DEF ReminderInv
  <1>3. ASSUME UNCHANGED notices, delNow' \in Nat,
               \/ UNCHANGED deletion
               \/ deletion' = [deletion EXCEPT !.cancelled = TRUE]
               \/ deletion' = [deletion EXCEPT !.deleted = TRUE]
        PROVE  ReminderInv'
    <2>1. /\ deletion' \in DeletionRow /\ deletion'.times = deletion.times
          /\ deletion'.reminded = deletion.reminded
      BY <1>3 DEF ReminderInv, DeletionRow
    <2> QED BY <1>3, <2>1 DEF ReminderInv
  <1>4. ASSUME NEW r \in DelRequests, DelRequestStep(r), ~ScheduleWrite(r)
        PROVE  ReminderInv'
    <2>1. /\ UNCHANGED <<notices, delNow>>
          /\ UNCHANGED deletion \/ deletion' = [deletion EXCEPT !.cancelled = TRUE]
      BY <1>4 DEF DelRequestStep, ScheduleRead, ScheduleStatus, CancelByOwner,
                  CancelByAdmin, CancelOnLogin, CancelWrite, CancelStatus
    <2> QED BY <1>3, <2>1 DEF ReminderInv
  <1>5. ASSUME NEW j \in DelJobs, DelJobStep(j) \/ JobStops(j),
               ~(RemindClaim(j) /\ Claimable)
        PROVE  ReminderInv'
    <2>1. /\ UNCHANGED <<notices, delNow>>
          /\ UNCHANGED deletion \/ deletion' = [deletion EXCEPT !.deleted = TRUE]
      BY <1>5 DEF DelJobStep, RemindRead, RemindClaim, DeleteRead, DeleteWrite, JobStops
    <2> QED BY <1>3, <2>1 DEF ReminderInv
  <1>6. CASE DelDay \/ UNCHANGED delVars
    BY <1>3, <1>6 DEF DelDay, delVars, ReminderInv
  <1> QED BY <1>1, <1>2, <1>4, <1>5, <1>6 DEF DelNext

\* claimReminder, for any number of requests, of overlapping runs of the job and
\* of schedules: one schedule sends at most one reminder.
THEOREM OneReminderAlways == DelSpec => []OneReminder
  <1>1. DelInit => ReminderInv
    BY DelAssumption DEF DelInit, ReminderInv, DeletionRow
  <1>2. ReminderInv => OneReminder
    BY DEF ReminderInv, OneReminder
  <1> QED BY <1>1, <1>2, ReminderStep, PTL DEF DelSpec

(***************************************************************************)
(* AgencyHosts.  The membership, the user row and the counts are written   *)
(* together, by a transaction that rolls back when the membership it       *)
(* counted on is gone; so the sum needs no more than that the agencies     *)
(* which a task names are agencies.                                        *)
(***************************************************************************)

\* A join names an agency, and a request about an application an application.
TaskInv(w) == /\ w \in Task
              /\ w.pc = "join" => w.to \in Agencies
              /\ w.pc = "read" => w.app \in LeaveApps
LeaveRow == [agency : Agencies \cup {NoAgency}, status : LeaveStatus]
HostsInv ==
    /\ member \in Agencies \cup {NoAgency}
    /\ hosts \in [Agencies -> Int]
    /\ leave \in [LeaveApps -> LeaveRow]
    /\ agTask \in [AgRequests \cup AgWorkers -> Task]
    /\ \A t \in AgRequests \cup AgWorkers : TaskInv(agTask[t])
    /\ HostsAddUp

\* A step of one task that leaves membership, user row and counts alone.
LEMMA HostsQuiet ==
    ASSUME HostsInv, UNCHANGED agRows, leave' \in [LeaveApps -> LeaveRow],
           NEW t \in AgRequests \cup AgWorkers, NEW w, TaskInv(w), TaskGoes(t, w)
    PROVE  HostsInv'
  <1>1. agTask' \in [AgRequests \cup AgWorkers -> Task]
    BY DEF HostsInv, TaskGoes, TaskInv
  <1>2. \A q \in AgRequests \cup AgWorkers : TaskInv(agTask[q])'
    BY DEF HostsInv, TaskGoes, TaskInv
  <1>3. HostsAddUp'
    BY DEF HostsInv, HostsAddUp, agRows
  <1> QED BY <1>1, <1>2, <1>3 DEF HostsInv, agRows

\* A task that has ended.
LEMMA NoTaskFacts == TaskInv(NoTask) /\ NoTask \in Task
  BY DEF NoTask, TaskInv, Task, LeaveStatus

\* What a task may be about when it begins.
LEMMA NewTaskFacts ==
    /\ \A a \in Agencies : TaskInv([NoTask EXCEPT !.pc = "join", !.to = a])
    /\ \A pc \in {"member", "apply"}, a \in Agencies \cup {NoAgency} :
         TaskInv([NoTask EXCEPT !.pc = pc, !.from = a])
    /\ \A l \in LeaveApps : TaskInv([NoTask EXCEPT !.pc = "queue", !.app = l])
    /\ \A l \in LeaveApps, s \in LeaveStatus :
         TaskInv([NoTask EXCEPT !.pc = "read", !.app = l, !.status = s])
    /\ \A a \in Agencies, b \in Agencies \cup {NoAgency} :
         TaskInv([NoTask EXCEPT !.pc = "member", !.from = b, !.to = a])
  <1>1. ASSUME NEW a \in Agencies PROVE TaskInv([NoTask EXCEPT !.pc = "join", !.to = a])
    BY NoTaskFacts DEF TaskInv, Task
  <1>2. ASSUME NEW pc \in {"member", "apply"}, NEW a \in Agencies \cup {NoAgency}
        PROVE  TaskInv([NoTask EXCEPT !.pc = pc, !.from = a])
    BY NoTaskFacts DEF TaskInv, Task
  <1>3. ASSUME NEW l \in LeaveApps PROVE TaskInv([NoTask EXCEPT !.pc = "queue", !.app = l])
    BY NoTaskFacts DEF TaskInv, Task
  <1>4. ASSUME NEW l \in LeaveApps, NEW s \in LeaveStatus
        PROVE  TaskInv([NoTask EXCEPT !.pc = "read", !.app = l, !.status = s])
    BY NoTaskFacts DEF TaskInv, Task
  <1>5. ASSUME NEW a \in Agencies, NEW b \in Agencies \cup {NoAgency}
        PROVE  TaskInv([NoTask EXCEPT !.pc = "member", !.from = b, !.to = a])
    BY NoTaskFacts DEF TaskInv, Task
  <1> QED BY <1>1, <1>2, <1>3, <1>4, <1>5

\* Requests and jobs begin.
LEMMA StartsHosts ==
    ASSUME HostsInv, NEW t \in AgRequests \cup AgWorkers,
           AgRequestStarts(t) \/ AgWorkerStarts(t)
    PROVE  HostsInv'
  <1>0. leave \in [LeaveApps -> LeaveRow] /\ member \in Agencies \cup {NoAgency}
    BY DEF HostsInv
  <1>1. /\ UNCHANGED <<agRows, leave>>
        /\ \E w : TaskInv(w) /\ TaskGoes(t, w)
    <2>1. ASSUME NEW a \in Agencies, JoinRead(t, a) \/ TransferRead(t, a)
          PROVE  UNCHANGED <<agRows, leave>> /\ \E w : TaskInv(w) /\ TaskGoes(t, w)
      BY <1>0, <2>1, NewTaskFacts DEF JoinRead, TransferRead
    <2>2. CASE LeaveRead(t) \/ RemoveRead(t)
      BY <1>0, <2>2, NewTaskFacts DEF LeaveRead, RemoveRead
    <2>3. ASSUME NEW l \in LeaveApps,
                 \/ LeaveUnqueue(t, l) \/ LeaveResolve(t, l)
                 \/ AutoTake(t, l) \/ AutoSweep(t, l)
          PROVE  UNCHANGED <<agRows, leave>> /\ \E w : TaskInv(w) /\ TaskGoes(t, w)
      BY <2>3, NewTaskFacts
         DEF LeaveUnqueue, LeaveResolve, AutoTake, AutoSweep, LeaveStatus
    <2> QED BY <2>1, <2>2, <2>3 DEF AgRequestStarts, AgWorkerStarts
  <1> QED BY <1>0, <1>1, HostsQuiet

\* createMembership: a host without a row gets one, and its agency one host more.
LEMMA JoinHosts ==
    ASSUME HostsInv, NEW t \in AgRequests \cup AgWorkers, JoinWrite(t)
    PROVE  HostsInv'
  <1>0. UNCHANGED leave /\ TaskGoes(t, NoTask) /\ leave \in [LeaveApps -> LeaveRow]
    BY DEF HostsInv, JoinWrite, TaskEnds
  <1>1. CASE UNCHANGED agRows
    BY <1>0, <1>1, HostsQuiet, NoTaskFacts
  <1>2. CASE member = NoAgency /\ ~UNCHANGED agRows
    <2>1. PICK a \in Agencies : a = agTask[t].to
      BY DEF HostsInv, TaskInv, JoinWrite
    <2>2. /\ member' = a /\ current' = a
          /\ hosts' = [hosts EXCEPT ![a] = @ + 1]
      BY <1>2, <2>1 DEF JoinWrite
    <2>3. SumFunction(hosts) = 0 /\ hosts \in [Agencies -> Int]
      BY <1>2 DEF HostsInv, HostsAddUp
    <2>4. SumFunction(Added(hosts, a, 1)) = SumFunction(hosts) + 1
      BY <2>3, SumMoves, AgAssumption
    <2>5. hosts' \in [Agencies -> Int]
      BY <2>2, <2>3
    <2>6. HostsAddUp'
      BY <2>2, <2>3, <2>4, AgAssumption DEF HostsAddUp, Added
    <2> QED BY <1>0, <2>2, <2>5, <2>6, NoTaskFacts DEF HostsInv, TaskGoes
  <1> QED BY <1>1, <1>2 DEF JoinWrite

\* The transaction of an exit or a transfer: it takes the host from one agency
\* that counted it, or from none when the host was in none.
LEMMA ExitHosts ==
    ASSUME HostsInv, NEW t \in AgRequests \cup AgWorkers, ExitWrite(t)
    PROVE  HostsInv'
  <1>1. PICK w \in Task : w = agTask[t]
    BY DEF HostsInv
  <1>2. leave' \in [LeaveApps -> LeaveRow]
    <2>1. w.app # NoLeave => w.app \in LeaveApps
      BY DEF Task
    <2>2. CASE leave' = leave
      BY <2>2 DEF HostsInv
    <2>3. CASE w.app # NoLeave /\ leave' = [leave EXCEPT ![w.app].status = w.status]
      <3>1. w.status \in LeaveStatus
        BY DEF Task
      <3> QED BY <2>1, <2>3, <3>1 DEF HostsInv, LeaveRow
    <2> QED BY <1>1, <2>2, <2>3 DEF ExitWrite, LeaveAfter
  <1>3. TaskGoes(t, NoTask)
    BY DEF ExitWrite, TaskEnds
  <1>4. CASE UNCHANGED agRows
    BY <1>2, <1>3, <1>4, HostsQuiet, NoTaskFacts
  <1>5. CASE Exits(w) /\ ~ExitFails(w)
    <2>1. /\ member' = w.to /\ current' = w.to
          /\ hosts' = [a \in Agencies |-> hosts[a] - (IF a = w.from THEN 1 ELSE 0)
                                                   + (IF a = w.to THEN 1 ELSE 0)]
      BY <1>1, <1>5 DEF ExitWrite
    <2>2. /\ w.from \in Agencies \cup {NoAgency} /\ w.to \in Agencies \cup {NoAgency}
          /\ hosts \in [Agencies -> Int] /\ NoAgency \notin Agencies
          /\ w.from = NoAgency <=> member = NoAgency
      BY <1>5, AgAssumption DEF HostsInv, Task, Exits, ExitFails
    <2>3. hosts' \in [Agencies -> Int]
      BY <2>1, <2>2
    <2> DEFINE out == IF w.from = NoAgency THEN hosts
                      ELSE Added(hosts, w.from, -1)
               in == IF w.to = NoAgency THEN out ELSE Added(out, w.to, 1)
    <2>4. out \in [Agencies -> Int] /\ SumFunction(out) = 0
      <3>1. CASE w.from = NoAgency
        BY <2>2, <3>1 DEF HostsInv, HostsAddUp
      <3>2. CASE w.from # NoAgency
        <4>1. SumFunction(hosts) = 1
          BY <2>2, <3>2 DEF HostsInv, HostsAddUp
        <4>2. SumFunction(Added(hosts, w.from, -1)) = SumFunction(hosts) + (-1)
          BY <2>2, <3>2, SumMoves, AgAssumption
        <4>3. Added(hosts, w.from, -1) \in [Agencies -> Int]
          BY <2>2, <3>2 DEF Added
        <4> QED BY <3>2, <4>1, <4>2, <4>3
      <3> QED BY <3>1, <3>2
    <2>5. hosts' = in
      <3>1. in \in [Agencies -> Int]
        BY <2>2, <2>4 DEF Added
      <3>2. ASSUME NEW a \in Agencies PROVE hosts'[a] = in[a]
        <4>1. out[a] = hosts[a] - (IF a = w.from THEN 1 ELSE 0)
          BY <2>2 DEF Added
        <4>2. in[a] = out[a] + (IF a = w.to THEN 1 ELSE 0)
          <5> HIDE DEF out
          <5> QED BY <2>2, <2>4 DEF Added
        <4> HIDE DEF out, in
        <4> QED BY <2>1, <4>1, <4>2
      <3> HIDE DEF in
      <3> QED BY <2>3, <3>1, <3>2
    <2>6. SumFunction(in) = IF w.to = NoAgency THEN 0 ELSE 1
      <3> HIDE DEF out
      <3>1. CASE w.to = NoAgency
        BY <2>4, <3>1
      <3>2. CASE w.to # NoAgency
        <4>1. SumFunction(Added(out, w.to, 1)) = SumFunction(out) + 1
          BY <2>2, <2>4, <3>2, SumMoves, AgAssumption
        <4> QED BY <2>4, <3>2, <4>1
      <3> QED BY <3>1, <3>2
    <2>7. HostsAddUp'
      <3> HIDE DEF in
      <3> QED BY <2>1, <2>5, <2>6 DEF HostsAddUp
    <2> QED BY <1>2, <1>3, <2>1, <2>2, <2>3, <2>7, NoTaskFacts DEF HostsInv, TaskGoes
  <1> QED BY <1>1, <1>4, <1>5 DEF ExitWrite

\* Every step of requests, jobs and time.
LEMMA HostsStep == HostsInv /\ [AgNext]_agVars => HostsInv'
  <1> SUFFICES ASSUME HostsInv, [AgNext]_agVars PROVE HostsInv'
    OBVIOUS
  <1>0. leave \in [LeaveApps -> LeaveRow] /\ member \in Agencies \cup {NoAgency}
    BY DEF HostsInv
  <1>1. ASSUME NEW t \in AgRequests \cup AgWorkers, NEW l \in LeaveApps, LeaveCreate(t, l)
        PROVE  HostsInv'
    <2>1. CASE UNCHANGED leave /\ TaskEnds(t)
      BY <1>0, <1>1, <2>1, HostsQuiet, NoTaskFacts DEF LeaveCreate, TaskEnds
    <2>2. CASE /\ leave' = [leave EXCEPT ![l] = [agency |-> agTask[t].from,
                                                 status |-> "PENDING"]]
               /\ TaskGoes(t, [NoTask EXCEPT !.pc = "queue", !.app = l])
      <3>1. [agency |-> agTask[t].from, status |-> "PENDING"] \in LeaveRow
        BY DEF HostsInv, Task, LeaveRow, LeaveStatus
      <3>2. leave' \in [LeaveApps -> LeaveRow] /\ UNCHANGED agRows
        BY <1>0, <1>1, <2>2, <3>1 DEF LeaveCreate
      <3> QED BY <2>2, <3>2, HostsQuiet, NewTaskFacts
    <2> QED BY <1>1, <2>1, <2>2 DEF LeaveCreate
  <1>2. ASSUME NEW t \in AgRequests \cup AgWorkers, LeaveEnqueue(t) \/ AgCrash(t)
        PROVE  HostsInv'
    BY <1>0, <1>2, HostsQuiet, NoTaskFacts DEF LeaveEnqueue, AgCrash, TaskEnds
  <1>3. ASSUME NEW t \in AgRequests \cup AgWorkers, LeaveCheck(t)
        PROVE  HostsInv'
    <2>1. UNCHANGED <<agRows, leave>>
      BY <1>3 DEF LeaveCheck
    <2>2. CASE TaskEnds(t)
      BY <1>0, <2>1, <2>2, HostsQuiet, NoTaskFacts DEF TaskEnds
    <2>3. CASE ~TaskEnds(t)
      <3>1. PICK w \in Task : w = agTask[t] /\ w.app \in LeaveApps
        BY <1>3 DEF HostsInv, TaskInv, LeaveCheck
      <3>2. leave[w.app].agency \in Agencies \cup {NoAgency}
        BY <1>0, <3>1 DEF LeaveRow
      <3>3. \E next \in {"write", "member"} :
              TaskGoes(t, [w EXCEPT !.pc = next, !.from = leave[w.app].agency])
        BY <1>3, <2>3, <3>1 DEF LeaveCheck
      <3>4. \A next \in {"write", "member"} :
              TaskInv([w EXCEPT !.pc = next, !.from = leave[w.app].agency])
        BY <3>1, <3>2 DEF TaskInv, Task
      <3> QED BY <1>0, <2>1, <3>3, <3>4, HostsQuiet
    <2> QED BY <2>2, <2>3
  <1>4. ASSUME NEW t \in AgRequests \cup AgWorkers, ExitRead(t)
        PROVE  HostsInv'
    <2>1. PICK w \in Task : w = agTask[t]
      BY DEF HostsInv
    <2>2. \E a \in Agencies \cup {NoAgency} :
            TaskGoes(t, [w EXCEPT !.pc = "write", !.from = a])
      BY <1>4, <2>1 DEF ExitRead, Task
    <2>3. \A a \in Agencies \cup {NoAgency} : TaskInv([w EXCEPT !.pc = "write", !.from = a])
      BY DEF TaskInv, Task
    <2> QED BY <1>0, <1>4, <2>2, <2>3, HostsQuiet DEF ExitRead
  <1>5. CASE (\E l \in LeaveApps : Ripen(l)) \/ UNCHANGED agVars
    <2>1. UNCHANGED <<agRows, leave, agTask>>
      BY <1>5 DEF Ripen, agVars, agRows
    <2> QED BY <2>1 DEF HostsInv, HostsAddUp, agRows
  <1> QED BY <1>1, <1>2, <1>3, <1>4, <1>5, StartsHosts, JoinHosts, ExitHosts
          DEF AgNext, AgTaskStep

\* joinAgency, the exits, adminTransferHosts and the automatic approval, for any
\* number of agencies and of tasks that overlap on one host: the counts of all
\* agencies together are the host's memberships, and the user row agrees.
THEOREM HostsAddUpAlways == AgSpec => []HostsAddUp
  <1>1. AgInit => HostsInv
    <2> SUFFICES ASSUME AgInit PROVE HostsInv
      OBVIOUS
    <2>1. HostsAddUp
      BY SumOfZeros, AgAssumption DEF AgInit, HostsAddUp
    <2> QED BY <2>1, NoTaskFacts DEF AgInit, HostsInv, LeaveRow, LeaveStatus
  <1>2. HostsInv => HostsAddUp
    BY DEF HostsInv
  <1> QED BY <1>1, <1>2, HostsStep, PTL DEF AgSpec

=============================================================================
