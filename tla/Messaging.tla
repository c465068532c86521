------------------------------ MODULE Messaging ------------------------------
(***************************************************************************)
(* Sending a message and getting it to the subscribers of a conversation:  *)
(* sendMessage of src/services/messaging.service.ts,                       *)
(* sendMessageWithOutbox of src/repositories/message.repository.ts and     *)
(* src/services/messaging-outbox.service.ts with its queue.                *)
(*                                                                         *)
(* The message and its row of message_outbox commit together, under the    *)
(* lock of the conversation.  The request then publishes the row itself.   *)
(* When that fails a job does it, and when the process stops the sweep     *)
(* finds the row.  Publishing on Redis and marking the row are two steps.  *)
(***************************************************************************)
EXTENDS Integers, Sequences, FiniteSets

CONSTANTS
    ClientIds,    \* clientMessageIds that clients send, and send again
    Senders,      \* send requests in flight at once
    Publishers,   \* handlers of publish jobs running at once
    SweepBatch,   \* how many rows one sweep takes (200)
    MaxMsgFaults  \* bound on failures and crashes

ASSUME MsgAssumption == SweepBatch \in Nat \ {0} /\ MaxMsgFaults \in Nat

VARIABLES
    messages,   \* clientMessageId of each message; the index is its seq
    stale,      \* the rows older than 10 seconds
    delivered,  \* the seqs published on the channel of the conversation
    marked,     \* the rows whose publishedAt is set
    outJobs,    \* the rows that a publish job is queued for
    sender,     \* what each request is doing
    publisher,  \* what each handler is doing
    msgFaults

msgVars == <<messages, stale, delivered, marked, outJobs, sender, publisher,
             msgFaults>>

Seqs == 1..Cardinality(ClientIds)
PubState == [pc : {"idle", "publish", "mark", "enqueue"}, seq : {0} \cup Seqs]
IdlePub == [pc |-> "idle", seq |-> 0]

\* Messages, rows and jobs are of the kinds the schema allows.
MsgTypeOK ==
    /\ messages \in Seq(ClientIds)
    /\ stale \subseteq Seqs /\ delivered \subseteq Seqs /\ marked \subseteq Seqs
    /\ outJobs \subseteq Seqs
    /\ sender \in [Senders -> PubState]
    /\ publisher \in [Publishers -> PubState]
    /\ msgFaults \in 0..MaxMsgFaults

MsgInit ==
    /\ messages = <<>>
    /\ stale = {} /\ delivered = {} /\ marked = {}
    /\ outJobs = {}
    /\ sender = [s \in Senders |-> IdlePub]
    /\ publisher = [p \in Publishers |-> IdlePub]
    /\ msgFaults = 0

\* The message of a repeated clientMessageId is returned as it is.
Sent(c) == \E i \in 1..Len(messages) : messages[i] = c

\* sendMessageWithOutbox: lastSeq + 1, the message and the outbox row.
Send(s, c) ==
    /\ sender[s].pc = "idle"
    /\ ~Sent(c)
    /\ messages' = Append(messages, c)
    /\ sender' = [sender EXCEPT ![s] = [pc |-> "publish",
                                        seq |-> Len(messages) + 1]]
    /\ UNCHANGED <<stale, delivered, marked, outJobs, publisher, msgFaults>>

\* Variant: the row is marked first.
PublishMarks(seq) == marked' = marked \cup {seq} /\ UNCHANGED delivered

\* publishOutboxPayload, first part: the channel and the inboxes.
Publish(seq) == delivered' = delivered \cup {seq} /\ UNCHANGED marked

\* Second part: publishedAt.
Mark(seq) == marked' = marked \cup {seq} /\ UNCHANGED delivered

InlinePublish(s) ==
    /\ sender[s].pc = "publish"
    /\ Publish(sender[s].seq)
    /\ sender' = [sender EXCEPT ![s].pc = "mark"]
    /\ UNCHANGED <<messages, stale, outJobs, publisher, msgFaults>>

InlineMark(s) ==
    /\ sender[s].pc = "mark"
    /\ Mark(sender[s].seq)
    /\ sender' = [sender EXCEPT ![s] = IdlePub]
    /\ UNCHANGED <<messages, stale, outJobs, publisher, msgFaults>>

\* Either part fails: the request leaves the row to a job.
InlineFails(s) ==
    /\ sender[s].pc \in {"publish", "mark"}
    /\ msgFaults < MaxMsgFaults
    /\ msgFaults' = msgFaults + 1
    /\ sender' = [sender EXCEPT ![s].pc = "enqueue"]
    /\ UNCHANGED <<messages, stale, delivered, marked, outJobs, publisher>>

InlineEnqueue(s) ==
    /\ sender[s].pc = "enqueue"
    /\ outJobs' = outJobs \cup {sender[s].seq}
    /\ sender' = [sender EXCEPT ![s] = IdlePub]
    /\ UNCHANGED <<messages, stale, delivered, marked, publisher, msgFaults>>

\* The process of the request stops.
SenderCrash(s) ==
    /\ sender[s].pc # "idle"
    /\ msgFaults < MaxMsgFaults
    /\ msgFaults' = msgFaults + 1
    /\ sender' = [sender EXCEPT ![s] = IdlePub]
    /\ UNCHANGED <<messages, stale, delivered, marked, outJobs, publisher>>

\* publishMessageOutboxRow: a row that is marked is done.
JobTake(p, seq) ==
    /\ publisher[p].pc = "idle"
    /\ seq \in outJobs
    /\ outJobs' = outJobs \ {seq}
    /\ publisher' = IF seq \in marked THEN publisher
                    ELSE [publisher EXCEPT ![p] = [pc |-> "publish", seq |-> seq]]
    /\ UNCHANGED <<messages, stale, delivered, marked, sender, msgFaults>>

JobPublish(p) ==
    /\ publisher[p].pc = "publish"
    /\ Publish(publisher[p].seq)
    /\ publisher' = [publisher EXCEPT ![p].pc = "mark"]
    /\ UNCHANGED <<messages, stale, outJobs, sender, msgFaults>>

JobMark(p) ==
    /\ publisher[p].pc = "mark"
    /\ Mark(publisher[p].seq)
    /\ publisher' = [publisher EXCEPT ![p] = IdlePub]
    /\ UNCHANGED <<messages, stale, outJobs, sender, msgFaults>>

\* An attempt fails: the queue tries again, or gives up after 8.
JobFails(p) ==
    /\ publisher[p].pc # "idle"
    /\ msgFaults < MaxMsgFaults
    /\ msgFaults' = msgFaults + 1
    /\ outJobs' \in {outJobs, outJobs \cup {publisher[p].seq}}
    /\ publisher' = [publisher EXCEPT ![p] = IdlePub]
    /\ UNCHANGED <<messages, stale, delivered, marked, sender>>

\* Ten seconds pass.
RowsAge ==
    /\ stale # 1..Len(messages)
    /\ stale' = 1..Len(messages)
    /\ UNCHANGED <<messages, delivered, marked, outJobs, sender, publisher,
                   msgFaults>>

\* Variant: the sweep looks at the newest rows first.
SweptNewest ==
    {i \in stale \ marked :
        Cardinality({j \in stale : j > i}) < SweepBatch}

\* The oldest rows that are not marked, up to the batch.
Swept ==
    {i \in stale \ marked :
        Cardinality({j \in stale \ marked : j < i}) < SweepBatch}

\* sweepStaleMessageOutbox, every 5 seconds.
Sweep ==
    /\ Swept \ outJobs # {}
    /\ outJobs' = outJobs \cup Swept
    /\ UNCHANGED <<messages, stale, delivered, marked, sender, publisher,
                   msgFaults>>

MsgNext ==
    \/ \E s \in Senders, c \in ClientIds : Send(s, c)
    \/ \E s \in Senders : \/ InlinePublish(s) \/ InlineMark(s) \/ InlineFails(s)
                          \/ InlineEnqueue(s) \/ SenderCrash(s)
    \/ \E p \in Publishers, i \in Seqs : JobTake(p, i)
    \/ \E p \in Publishers : JobPublish(p) \/ JobMark(p) \/ JobFails(p)
    \/ RowsAge \/ Sweep

MsgSpec == MsgInit /\ [][MsgNext]_msgVars

\* A request and a handler that run go on; workers take queued jobs; the
\* repeatable job sweeps; time passes.
MsgSteps(s) == InlinePublish(s) \/ InlineMark(s) \/ InlineEnqueue(s)
JobSteps(p) == JobPublish(p) \/ JobMark(p) \/ \E i \in Seqs : JobTake(p, i)

-----------------------------------------------------------------------------

\* A row is marked only after its message has reached the channel: a crash
\* between the two steps repeats a delivery and never loses one.
MarkedWasPublished == marked \subseteq delivered

\* Every message that was committed is marked as published in the end,
\* whatever fails and wherever a process stops, since the sweep looks at the
\* rows and not at the queue.
OutboxDrains ==
    \A i \in Seqs : i <= Len(messages) ~> i \in marked

=============================================================================
