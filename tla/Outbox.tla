------------------------------- MODULE Outbox -------------------------------
(***************************************************************************)
(* AsyncWorkerService and NotificationService: worker processes claim      *)
(* OutboxEvent rows and hand each to a BullMQ queue as the job of that id; *)
(* consumers of the queue persist one Notification per event.              *)
(*                                                                         *)
(* Any worker may crash or be so slow that its claim is taken over while   *)
(* it goes on; any call to Redis or PostgreSQL may fail, a call to Redis   *)
(* also after it took effect.  Of BullMQ it is assumed that an add under   *)
(* an id that is in the queue does nothing, that a job runs again after a  *)
(* failed attempt or a stall, up to a limit, that only its last owner      *)
(* completes it, and that it is evicted at some time after it has ended,   *)
(* not before.  Redis keeps its data.                                      *)
(***************************************************************************)
EXTENDS Integers, FiniteSets

CONSTANTS
    Events,         \* ids of outbox events, numbered as they are created
    Workers,        \* processes that poll the outbox
    Consumers,      \* slots that run jobs
    BatchSize,      \* LIMIT of claimBatch
    MaxAttempts,    \* attempts of a job
    MaxStalls       \* stalls of a job that BullMQ puts up with

ASSUME OutboxAssumption ==
    /\ Events \subseteq Nat
    /\ BatchSize \in Nat \ {0}
    /\ MaxAttempts \in Nat \ {0}
    /\ MaxStalls \in Nat

VARIABLES
    row,            \* [Events -> OutboxEvent.status, "NONE" before the insert]
    ripe,           \* rows whose availableAt, or lockedAt + 5 minutes, is past
    batch,          \* [Workers -> claimed events still to be published]
    at,             \* [Workers -> the event in hand and the next statement]
    job,            \* [Events -> the job of that id in the queue]
    running,        \* [Consumers -> the event whose job it runs, and how far]
    notifications,  \* events that have a Notification row (outboxEventId is unique)
    exhausted       \* history: events whose job once used up its attempts or stalls

workerVars == <<batch, at>>
queueVars == <<job, running, exhausted>>
outboxVars == <<row, ripe, batch, at, job, running, notifications, exhausted>>

NoEvent == -1

Idle == [step |-> "idle", event |-> NoEvent]

NoJob == [state |-> "none", tries |-> 0, stalls |-> 0, owner |-> {}]

SetJob(e, state, tries, stalls, owner) ==
    job' = [job EXCEPT ![e] =
              [state |-> state, tries |-> tries, stalls |-> stalls, owner |-> owner]]

-----------------------------------------------------------------------------
(* The rows *)

\* A service commits an event, PENDING and available at once.
Emit(e) ==
    /\ row[e] = "NONE"
    /\ row' = [row EXCEPT ![e] = "PENDING"]
    /\ ripe' = ripe \cup {e}
    /\ UNCHANGED <<workerVars, queueVars, notifications>>

\* Mutant of Ripen: stale claims are not taken over.
RipenPending(e) ==
    /\ row[e] = "PENDING"
    /\ e \notin ripe
    /\ ripe' = ripe \cup {e}
    /\ UNCHANGED <<row, workerVars, queueVars, notifications>>

\* Time passes: a backoff is over, or a claim is five minutes old.
Ripen(e) ==
    /\ row[e] \in {"PENDING", "PROCESSING"}
    /\ e \notin ripe
    /\ ripe' = ripe \cup {e}
    /\ UNCHANGED <<row, workerVars, queueVars, notifications>>

-----------------------------------------------------------------------------
(* AsyncWorkerService: one dispatch at a time in each process *)

\* ORDER BY "createdAt" LIMIT: the oldest of the rows that may be claimed.
Candidates == {e \in ripe : Cardinality({d \in ripe : d < e}) < BatchSize}

\* claimBatch, one statement.  Rows that another statement has locked are
\* skipped: that one comes first, and then they are no longer candidates.
ClaimBatch(w) ==
    /\ at[w] = Idle
    /\ Candidates # {}
    /\ row' = [e \in Events |-> IF e \in Candidates THEN "PROCESSING" ELSE row[e]]
    /\ ripe' = ripe \ Candidates
    /\ batch' = [batch EXCEPT ![w] = Candidates]
    /\ at' = [at EXCEPT ![w] = [step |-> "add", event |-> NoEvent]]
    /\ UNCHANGED <<queueVars, notifications>>

\* The for loop ends with the batch.
Advance(w, left) ==
    /\ batch' = [batch EXCEPT ![w] = left]
    /\ at' = [at EXCEPT ![w] = IF left = {} THEN Idle ELSE [step |-> "add", event |-> NoEvent]]

Proceed(w, step, e) == at' = [at EXCEPT ![w] = [step |-> step, event |-> e]]

\* queue.add with jobId = event.id.
Added(e) ==
    IF job[e].state = "none" THEN SetJob(e, "waiting", 0, 0, {}) ELSE UNCHANGED job

\* Mutant of AddJob: queue.add is not awaited, and its failure goes unseen.
AddUnawaited(w, e) ==
    /\ at[w].step = "add" /\ e \in batch[w]
    /\ Added(e) \/ UNCHANGED job
    /\ Proceed(w, "mark", e)
    /\ UNCHANGED <<row, ripe, batch, running, notifications, exhausted>>

\* publish an event of the batch, which RETURNING lists in any order.  Of the
\* job's options, attempts is FailJob's limit and removeOnComplete and
\* removeOnFail are EvictJob.
AddJob(w, e) ==
    /\ at[w].step = "add" /\ e \in batch[w]
    /\ Added(e)
    /\ Proceed(w, "mark", e)
    /\ UNCHANGED <<row, ripe, batch, running, notifications, exhausted>>

\* Redis is down or times out after 2 s; the job may have been added.
AddFails(w, e) ==
    /\ at[w].step = "add" /\ e \in batch[w]
    /\ Added(e) \/ UNCHANGED job
    /\ Proceed(w, "retry", e)
    /\ UNCHANGED <<row, ripe, batch, running, notifications, exhausted>>

\* The update to PUBLISHED is by id only: it does not ask whether the claim
\* is still this worker's.
MarkPublished(w) ==
    LET e == at[w].event IN
    /\ at[w].step = "mark"
    /\ row' = [row EXCEPT ![e] = "PUBLISHED"]
    /\ ripe' = ripe \ {e}
    /\ Advance(w, batch[w] \ {e})
    /\ UNCHANGED <<queueVars, notifications>>

MarkFails(w) ==
    /\ at[w].step = "mark"
    /\ Proceed(w, "retry", at[w].event)
    /\ UNCHANGED <<row, ripe, batch, queueVars, notifications>>

\* Mutant of MayRetry: no CHECK on the row.
AlwaysRetry(e) == TRUE

\* OutboxEvent_state_check: publishedAt is set once the row is PUBLISHED and
\* the update to PENDING leaves it there.
MayRetry(e) == row[e] # "PUBLISHED"

\* The update in the catch block: PENDING, available after a backoff.
Retry(w) ==
    LET e == at[w].event IN
    /\ at[w].step = "retry"
    /\ MayRetry(e)
    /\ row' = [row EXCEPT ![e] = "PENDING"]
    /\ ripe' = ripe \ {e}
    /\ Advance(w, batch[w] \ {e})
    /\ UNCHANGED <<queueVars, notifications>>

\* The database refuses it, is down, or the process dies at any statement:
\* dispatchBatch ends, and the rest of the batch stays PROCESSING.
Abort(w) ==
    /\ at[w] # Idle
    /\ Advance(w, {})
    /\ UNCHANGED <<row, ripe, queueVars, notifications>>

-----------------------------------------------------------------------------
(* The queue and persistForEvent *)

NotRunning == [event |-> NoEvent, persisted |-> FALSE]

TakeJob(c, e) ==
    /\ running[c] = NotRunning
    /\ job[e].state = "waiting"
    /\ SetJob(e, "active", job[e].tries, job[e].stalls, {c})
    /\ running' = [running EXCEPT ![c] = [event |-> e, persisted |-> FALSE]]
    /\ UNCHANGED <<row, ripe, workerVars, notifications, exhausted>>

\* upsert on the unique outboxEventId; findUniqueOrThrow refuses an unknown event.
PersistForEvent(c) ==
    LET e == running[c].event IN
    /\ e # NoEvent /\ ~running[c].persisted
    /\ row[e] # "NONE"
    /\ notifications' = notifications \cup {e}
    /\ running' = [running EXCEPT ![c] = [event |-> e, persisted |-> TRUE]]
    /\ UNCHANGED <<row, ripe, workerVars, job, exhausted>>

Owns(c) == running[c].event # NoEvent /\ c \in job[running[c].event].owner

\* Mutant of CompleteJob: the job is acknowledged before the work is done.
CompleteEarly(c) ==
    LET e == running[c].event IN
    /\ e # NoEvent
    /\ IF Owns(c)
       THEN SetJob(e, "completed", job[e].tries, job[e].stalls, {})
       ELSE UNCHANGED job
    /\ running' = [running EXCEPT ![c] = NotRunning]
    /\ UNCHANGED <<row, ripe, workerVars, notifications, exhausted>>

\* The processor returned: the job is completed, unless it is no longer c's.
CompleteJob(c) ==
    LET e == running[c].event IN
    /\ running[c].persisted
    /\ IF Owns(c)
       THEN SetJob(e, "completed", job[e].tries, job[e].stalls, {})
       ELSE UNCHANGED job
    /\ running' = [running EXCEPT ![c] = NotRunning]
    /\ UNCHANGED <<row, ripe, workerVars, notifications, exhausted>>

\* A job that may run again waits; one that may not has failed for good.
Requeue(e, again, tries, stalls) ==
    /\ SetJob(e, IF again THEN "waiting" ELSE "failed", tries, stalls, {})
    /\ exhausted' = IF again THEN exhausted ELSE exhausted \cup {e}

\* The processor threw: one attempt fewer.
FailJob(c) ==
    LET e == running[c].event
        tries == job[e].tries + 1
    IN
    /\ e # NoEvent
    /\ ~running[c].persisted
    /\ IF Owns(c)
       THEN Requeue(e, tries < MaxAttempts, tries, job[e].stalls)
       ELSE UNCHANGED <<job, exhausted>>
    /\ running' = [running EXCEPT ![c] = NotRunning]
    /\ UNCHANGED <<row, ripe, workerVars, notifications>>

\* The lock of a running job expires: its owner crashed or is slow.
StallJob(e) ==
    /\ job[e].state = "active"
    /\ Requeue(e, job[e].stalls < MaxStalls, job[e].tries, job[e].stalls + 1)
    /\ UNCHANGED <<row, ripe, workerVars, running, notifications>>

CrashConsumer(c) ==
    /\ running[c] # NotRunning
    /\ running' = [running EXCEPT ![c] = NotRunning]
    /\ UNCHANGED <<row, ripe, workerVars, job, notifications, exhausted>>

\* removeOnComplete and removeOnFail: when enough other jobs have ended since,
\* a job that ended goes, and its id may be added again.
EvictJob(e) ==
    /\ job[e].state \in {"completed", "failed"}
    /\ SetJob(e, "none", 0, 0, {})
    /\ UNCHANGED <<row, ripe, workerVars, running, notifications, exhausted>>

-----------------------------------------------------------------------------

OutboxInit ==
    /\ row = [e \in Events |-> "NONE"]
    /\ ripe = {}
    /\ batch = [w \in Workers |-> {}]
    /\ at = [w \in Workers |-> Idle]
    /\ job = [e \in Events |-> NoJob]
    /\ running = [c \in Consumers |-> NotRunning]
    /\ notifications = {}
    /\ exhausted = {}

Dispatch(w) ==
    \/ ClaimBatch(w) \/ MarkPublished(w) \/ MarkFails(w) \/ Retry(w) \/ Abort(w)
    \/ \E e \in Events : AddJob(w, e) \/ AddFails(w, e)

Consume(c) ==
    \/ PersistForEvent(c) \/ CompleteJob(c) \/ FailJob(c) \/ CrashConsumer(c)
    \/ \E e \in Events : TakeJob(c, e)

OutboxNext ==
    \/ \E e \in Events : Emit(e) \/ Ripen(e) \/ StallJob(e) \/ EvictJob(e)
    \/ \E w \in Workers : Dispatch(w)
    \/ \E c \in Consumers : Consume(c)

OutboxSpec == OutboxInit /\ [][OutboxNext]_outboxVars

\* Time passes; the poll timer fires; a dispatch goes on or ends; and outages
\* end: a call that is tried again and again does not fail every time.  Idle
\* consumers take jobs, what they run returns or throws, and the lock of a job
\* whose consumer is gone expires.
OutboxFairness ==
    /\ \A e \in Events :
         /\ WF_outboxVars(Ripen(e))
         /\ WF_outboxVars(StallJob(e) /\ \A c \in Consumers : running[c].event # e)
    /\ \A w \in Workers :
         /\ WF_outboxVars(Dispatch(w))
         /\ WF_outboxVars(ClaimBatch(w))
         /\ SF_outboxVars(MarkPublished(w))
         /\ \A e \in Events : SF_outboxVars(AddJob(w, e))
    /\ \A c \in Consumers : WF_outboxVars(Consume(c))

FairOutboxSpec == OutboxSpec /\ OutboxFairness

-----------------------------------------------------------------------------
(* Properties *)

JobStates == {"none", "waiting", "active", "completed", "failed"}

Jobs == [state : JobStates, tries : 0..MaxAttempts, stalls : 0..MaxStalls + 1,
         owner : SUBSET Consumers]

\* Every variable has its type: a job never exceeds its limits, and only an
\* event that is not PUBLISHED can be claimed.
OutboxTypeOK ==
    /\ row \in [Events -> {"NONE", "PENDING", "PROCESSING", "PUBLISHED"}]
    /\ ripe \subseteq {e \in Events : row[e] \in {"PENDING", "PROCESSING"}}
    /\ batch \in [Workers -> SUBSET Events]
    /\ at \in [Workers -> [step : {"idle", "add", "mark", "retry"},
                          event : Events \cup {NoEvent}]]
    /\ job \in [Events -> Jobs]
    /\ running \in [Consumers -> [event : Events \cup {NoEvent}, persisted : BOOLEAN]]
    /\ notifications \subseteq Events
    /\ exhausted \subseteq Events

\* PUBLISHED is final, whichever worker writes last: one that lost its claim
\* long ago and then fails to publish cannot put the event back.
PublishedIsFinal ==
    [][\A e \in Events : row[e] = "PUBLISHED" => row'[e] = "PUBLISHED"]_outboxVars

Live(e) == job[e].state \in {"waiting", "active"}

HandedOver(e) == e \in notifications \/ Live(e) \/ e \in exhausted

\* An event marked PUBLISHED, which no worker will look at again, has its
\* notification, or a job that will still be run, or a job was run for it until
\* its attempts or stalls were used up: a crash or a failing call between the
\* queue and the row never leaves an event marked that no consumer is given.
\* (After the last attempt nothing tries again: removeOnFail may drop the failed
\* job too, and the event then has neither job nor notification.)
PublishedIsHandedOver == \A e \in Events : row[e] = "PUBLISHED" => HandedOver(e)

\* Inductive: what a worker is about to mark PUBLISHED is handed over, and a job
\* leaves the live states only behind a consumer that has persisted its
\* notification, or at the end of its attempts or stalls; so eviction, which
\* forgets how a job ended, forgets nothing that PublishedIsHandedOver needs.
OutboxInv ==
    /\ OutboxTypeOK
    /\ PublishedIsHandedOver
    /\ \A e \in Events :
         /\ job[e].state = "completed" => e \in notifications
         /\ job[e].state = "failed" => e \in exhausted
         /\ Live(e) => job[e].tries < MaxAttempts /\ job[e].stalls <= MaxStalls
         /\ job[e].owner # {} => job[e].state = "active"
    /\ \A c \in Consumers : running[c].persisted => running[c].event \in notifications
    /\ \A w \in Workers :
         /\ at[w].step \in {"mark", "retry"} => at[w].event \in Events
         /\ at[w].step = "mark" => HandedOver(at[w].event)

\* Every committed event is published in the end, although workers crash with
\* events claimed and calls fail half way.
EveryEventPublished == \A e \in Events : row[e] = "PENDING" ~> row[e] = "PUBLISHED"

\* Every committed event notifies its user in the end, unless its job has used
\* up its attempts or stalls.
EveryEventSettles ==
    \A e \in Events : row[e] = "PENDING" ~> e \in notifications \/ e \in exhausted

\* Once an event is PUBLISHED its job comes to rest for good: attempts, stalls
\* and slow consumers end, and so do the late workers whose add brings an evicted
\* job back, to be run a second time.
PublishedComesToRest ==
    \A e \in Events : row[e] = "PUBLISHED" ~> [](~Live(e))
==============================================================================
