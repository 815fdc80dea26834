---------------------------- MODULE OutboxProofs ----------------------------
(***************************************************************************)
(* The safety of the outbox for every number of events, workers and        *)
(* consumers.  OutboxInv is inductive: one lemma per group of actions.     *)
(***************************************************************************)
EXTENDS Outbox, TLAPS

\* The initial tables, with no event yet, satisfy the invariant.
LEMMA OutboxInitInv == OutboxInit => OutboxInv
  BY OutboxAssumption DEF OutboxInit, OutboxInv, OutboxTypeOK, PublishedIsHandedOver,
     HandedOver, Live, Idle, NoJob, NotRunning, NoEvent, Jobs, JobStates

\* Committing an event and the passing of time keep it.
LEMMA RowsInv ==
  ASSUME OutboxInv, NEW e \in Events, Emit(e) \/ Ripen(e)
  PROVE  OutboxInv'
  BY OutboxAssumption DEF Emit, Ripen, OutboxInv, OutboxTypeOK, PublishedIsHandedOver,
     HandedOver, Live, queueVars, workerVars

\* The invariant is kept when a worker claims the oldest ripe events.
LEMMA ClaimBatchInv ==
  ASSUME OutboxInv, NEW w \in Workers, ClaimBatch(w)
  PROVE  OutboxInv'
  BY OutboxAssumption DEF ClaimBatch, Candidates, Idle, OutboxInv, OutboxTypeOK, PublishedIsHandedOver,
     HandedOver, Live, queueVars, Jobs, JobStates, NoEvent, workerVars

\* The invariant is kept when a worker adds the job of an event, or fails to, with or without effect.
LEMMA AddJobInv ==
  ASSUME OutboxInv, NEW w \in Workers, NEW e \in Events, AddJob(w, e) \/ AddFails(w, e)
  PROVE  OutboxInv'
<1> USE OutboxAssumption
<1>1. UNCHANGED <<row, ripe, batch, running, notifications, exhausted>>
  BY DEF AddJob, AddFails
<1>2. Added(e) \/ UNCHANGED job
  BY DEF AddJob, AddFails
<1>3. OutboxTypeOK'
  <2>1. job' \in [Events -> Jobs]
    <3>1. [state |-> "waiting", tries |-> 0, stalls |-> 0, owner |-> {}] \in Jobs
      BY DEF Jobs, JobStates
    <3> QED BY <1>2, <3>1 DEF Added, SetJob, OutboxInv, OutboxTypeOK
  <2>2. at' \in [Workers -> [step : {"idle", "add", "mark", "retry"},
                           event : Events \cup {NoEvent}]]
    BY DEF AddJob, AddFails, Proceed, OutboxInv, OutboxTypeOK
  <2> QED BY <1>1, <2>1, <2>2 DEF OutboxInv, OutboxTypeOK
<1>4. \A d \in Events : HandedOver(d) => HandedOver(d)'
  BY <1>1, <1>2 DEF Added, SetJob, OutboxInv, OutboxTypeOK, HandedOver, Live
<1>5. AddJob(w, e) => HandedOver(e)'
  BY <1>1 DEF AddJob, Added, SetJob, OutboxInv, OutboxTypeOK, HandedOver, Live, Jobs, JobStates
<1>6. (\A v \in Workers :
         /\ at[v].step \in {"mark", "retry"} => at[v].event \in Events
         /\ at[v].step = "mark" => HandedOver(at[v].event))'
  <2> SUFFICES ASSUME NEW v \in Workers
               PROVE  (/\ at[v].step \in {"mark", "retry"} => at[v].event \in Events
                       /\ at[v].step = "mark" => HandedOver(at[v].event))'
    OBVIOUS
  <2>1. CASE v = w
    BY <1>5, <2>1 DEF AddJob, AddFails, Proceed, OutboxInv, OutboxTypeOK
  <2>2. CASE v # w
    BY <1>4, <2>2 DEF AddJob, AddFails, Proceed, OutboxInv, OutboxTypeOK
  <2> QED BY <2>1, <2>2
<1>7. \A d \in Events :
        /\ job'[d].state = "completed" => d \in notifications'
        /\ job'[d].state = "failed" => d \in exhausted'
        /\ job'[d].state \in {"waiting", "active"} =>
             job'[d].tries < MaxAttempts /\ job'[d].stalls <= MaxStalls
        /\ job'[d].owner # {} => job'[d].state = "active"
  BY <1>1, <1>2 DEF Added, SetJob, OutboxInv, OutboxTypeOK, Live
<1> QED
  BY <1>1, <1>3, <1>4, <1>6, <1>7 DEF OutboxInv, PublishedIsHandedOver, Live

\* The invariant is kept when a worker marks an event PUBLISHED whose job it has added.
LEMMA MarkPublishedInv ==
  ASSUME OutboxInv, NEW w \in Workers, MarkPublished(w)
  PROVE  OutboxInv'
  BY OutboxAssumption DEF MarkPublished, Advance, Idle, OutboxInv, OutboxTypeOK, PublishedIsHandedOver,
     HandedOver, Live, queueVars, Jobs, JobStates, NoEvent, workerVars

\* The invariant is kept when marking fails.
LEMMA MarkFailsInv ==
  ASSUME OutboxInv, NEW w \in Workers, MarkFails(w)
  PROVE  OutboxInv'
  BY OutboxAssumption DEF MarkFails, Proceed, OutboxInv, OutboxTypeOK, PublishedIsHandedOver,
     HandedOver, Live, queueVars, Jobs, JobStates, NoEvent, workerVars

\* The invariant is kept when a worker puts an event back that nobody has published.
LEMMA RetryInv ==
  ASSUME OutboxInv, NEW w \in Workers, Retry(w)
  PROVE  OutboxInv'
  BY OutboxAssumption DEF Retry, MayRetry, Advance, Idle, OutboxInv, OutboxTypeOK, PublishedIsHandedOver,
     HandedOver, Live, queueVars, Jobs, JobStates, NoEvent, workerVars

\* The invariant is kept when a dispatch is cut short.
LEMMA AbortInv ==
  ASSUME OutboxInv, NEW w \in Workers, Abort(w)
  PROVE  OutboxInv'
  BY OutboxAssumption DEF Abort, Advance, Idle, OutboxInv, OutboxTypeOK, PublishedIsHandedOver,
     HandedOver, Live, queueVars, Jobs, JobStates, NoEvent, workerVars

\* The invariant is kept when a consumer takes a job.
LEMMA TakeJobInv ==
  ASSUME OutboxInv, NEW c \in Consumers, NEW e \in Events, TakeJob(c, e)
  PROVE  OutboxInv'
<1> USE OutboxAssumption
<1>1. OutboxTypeOK'
  BY DEF TakeJob, NotRunning, SetJob, OutboxInv, OutboxTypeOK, Jobs, JobStates, NoEvent, workerVars
<1>2. \A d \in Events : HandedOver(d) => HandedOver(d)'
  BY DEF TakeJob, NotRunning, SetJob, OutboxInv, OutboxTypeOK, HandedOver, Live, workerVars
<1>3. \A d \in Events :
        /\ job'[d].state = "completed" => d \in notifications'
        /\ job'[d].state = "failed" => d \in exhausted'
        /\ job'[d].state \in {"waiting", "active"} =>
             job'[d].tries < MaxAttempts /\ job'[d].stalls <= MaxStalls
        /\ job'[d].owner # {} => job'[d].state = "active"
  BY DEF TakeJob, NotRunning, SetJob, OutboxInv, OutboxTypeOK, Live, workerVars
<1>4. \A b \in Consumers :
        running'[b].persisted => running'[b].event \in notifications'
  BY DEF TakeJob, NotRunning, SetJob, OutboxInv, OutboxTypeOK, NoEvent, workerVars
<1>5. UNCHANGED <<row, at>>
  BY DEF TakeJob, NotRunning, SetJob, workerVars
<1> QED
  BY <1>1, <1>2, <1>3, <1>4, <1>5 DEF OutboxInv, PublishedIsHandedOver, Live

\* The invariant is kept when a consumer persists a notification, once.
LEMMA PersistInv ==
  ASSUME OutboxInv, NEW c \in Consumers, PersistForEvent(c)
  PROVE  OutboxInv'
<1> USE OutboxAssumption
<1>1. OutboxTypeOK'
  BY DEF PersistForEvent, OutboxInv, OutboxTypeOK, Jobs, JobStates, NoEvent, workerVars
<1>2. \A d \in Events : HandedOver(d) => HandedOver(d)'
  BY DEF PersistForEvent, OutboxInv, OutboxTypeOK, HandedOver, Live, workerVars
<1>3. \A d \in Events :
        /\ job'[d].state = "completed" => d \in notifications'
        /\ job'[d].state = "failed" => d \in exhausted'
        /\ job'[d].state \in {"waiting", "active"} =>
             job'[d].tries < MaxAttempts /\ job'[d].stalls <= MaxStalls
        /\ job'[d].owner # {} => job'[d].state = "active"
  BY DEF PersistForEvent, OutboxInv, OutboxTypeOK, Live, workerVars
<1>4. \A b \in Consumers :
        running'[b].persisted => running'[b].event \in notifications'
  <2> TAKE b \in Consumers
  <2>1. CASE b = c
    <3>0. running \in [Consumers -> [event : Events \cup {NoEvent}, persisted : BOOLEAN]]
      BY DEF OutboxInv, OutboxTypeOK
    <3>1. running[c].event \in Events
      BY <3>0 DEF PersistForEvent
    <3>2. running[c].event \in notifications'
      BY DEF PersistForEvent
    <3>3. running'[c].event = running[c].event
      BY <3>0 DEF PersistForEvent
    <3> QED BY <2>1, <3>1, <3>2, <3>3
  <2>2. CASE b # c
    BY <2>2 DEF PersistForEvent, OutboxInv, OutboxTypeOK, NoEvent
  <2> QED BY <2>1, <2>2
<1>5. UNCHANGED <<row, at>>
  BY DEF PersistForEvent, workerVars
<1> QED
  BY <1>1, <1>2, <1>3, <1>4, <1>5 DEF OutboxInv, PublishedIsHandedOver, Live

\* The invariant is kept when a consumer that has persisted completes its job.
LEMMA CompleteJobInv ==
  ASSUME OutboxInv, NEW c \in Consumers, CompleteJob(c)
  PROVE  OutboxInv'
<1> USE OutboxAssumption
<1>1. OutboxTypeOK'
  <2>1. running[c].event \in Events
    BY DEF CompleteJob, OutboxInv, OutboxTypeOK
  <2> DEFINE j == job[running[c].event]
  <2>2. [state |-> "completed", tries |-> j.tries, stalls |-> j.stalls, owner |-> {}] \in Jobs
    BY <2>1 DEF Jobs, JobStates, OutboxInv, OutboxTypeOK
  <2>3. job' \in [Events -> Jobs]
    BY <2>1, <2>2 DEF CompleteJob, SetJob, OutboxInv, OutboxTypeOK
  <2> QED BY <2>3 DEF CompleteJob, NotRunning, OutboxInv, OutboxTypeOK, Live, workerVars
<1>2. \A d \in Events : HandedOver(d) => HandedOver(d)'
  BY DEF CompleteJob, Owns, NotRunning, SetJob, OutboxInv, OutboxTypeOK, HandedOver, Live, workerVars
<1>3. \A d \in Events :
        /\ job'[d].state = "completed" => d \in notifications'
        /\ job'[d].state = "failed" => d \in exhausted'
        /\ job'[d].state \in {"waiting", "active"} =>
             job'[d].tries < MaxAttempts /\ job'[d].stalls <= MaxStalls
        /\ job'[d].owner # {} => job'[d].state = "active"
  BY DEF CompleteJob, Owns, NotRunning, SetJob, OutboxInv, OutboxTypeOK, Live, workerVars
<1>4. \A b \in Consumers :
        running'[b].persisted => running'[b].event \in notifications'
  BY DEF CompleteJob, Owns, NotRunning, SetJob, OutboxInv, OutboxTypeOK, NoEvent, workerVars
<1>5. UNCHANGED <<row, at>>
  BY DEF CompleteJob, Owns, NotRunning, SetJob, workerVars
<1> QED
  BY <1>1, <1>2, <1>3, <1>4, <1>5 DEF OutboxInv, PublishedIsHandedOver, Live

\* The invariant is kept when an attempt fails.
LEMMA FailJobInv ==
  ASSUME OutboxInv, NEW c \in Consumers, FailJob(c)
  PROVE  OutboxInv'
<1> USE OutboxAssumption
<1>1. OutboxTypeOK'
  <2> DEFINE e == running[c].event
             again == job[e].tries + 1 < MaxAttempts
  <2>1. e \in Events
    BY DEF FailJob, OutboxInv, OutboxTypeOK
  <2>2. CASE Owns(c)
    <3>1. job[e] \in Jobs /\ job[e].tries < MaxAttempts
      BY <2>1, <2>2 DEF Owns, OutboxInv, OutboxTypeOK, Live
    <3>2. [state |-> IF again THEN "waiting" ELSE "failed", tries |-> job[e].tries + 1,
           stalls |-> job[e].stalls, owner |-> {}] \in Jobs
      BY <3>1 DEF Jobs, JobStates
    <3>3. job' \in [Events -> Jobs]
      BY <2>2, <3>2 DEF FailJob, Requeue, SetJob, OutboxInv, OutboxTypeOK
    <3>4. exhausted' \subseteq Events
      BY <2>1, <2>2 DEF FailJob, Requeue, OutboxInv, OutboxTypeOK
    <3> QED BY <3>3, <3>4 DEF FailJob, NotRunning, OutboxInv, OutboxTypeOK, workerVars
  <2>3. CASE ~Owns(c)
    BY <2>3 DEF FailJob, NotRunning, OutboxInv, OutboxTypeOK, workerVars
  <2> QED BY <2>2, <2>3
<1>2. \A d \in Events : HandedOver(d) => HandedOver(d)'
  BY DEF FailJob, Owns, NotRunning, Requeue, SetJob, OutboxInv, OutboxTypeOK, HandedOver, Live, workerVars
<1>3. \A d \in Events :
        /\ job'[d].state = "completed" => d \in notifications'
        /\ job'[d].state = "failed" => d \in exhausted'
        /\ job'[d].state \in {"waiting", "active"} =>
             job'[d].tries < MaxAttempts /\ job'[d].stalls <= MaxStalls
        /\ job'[d].owner # {} => job'[d].state = "active"
  BY DEF FailJob, Owns, NotRunning, Requeue, SetJob, OutboxInv, OutboxTypeOK, Live, workerVars
<1>4. \A b \in Consumers :
        running'[b].persisted => running'[b].event \in notifications'
  BY DEF FailJob, Owns, NotRunning, Requeue, SetJob, OutboxInv, OutboxTypeOK, NoEvent, workerVars
<1>5. UNCHANGED <<row, at>>
  BY DEF FailJob, Owns, NotRunning, Requeue, SetJob, workerVars
<1> QED
  BY <1>1, <1>2, <1>3, <1>4, <1>5 DEF OutboxInv, PublishedIsHandedOver, Live

\* The invariant is kept when a job stalls, or an old one is evicted.
LEMMA StallJobInv ==
  ASSUME OutboxInv, NEW e \in Events, StallJob(e) \/ EvictJob(e)
  PROVE  OutboxInv'
<1> USE OutboxAssumption
<1>1. OutboxTypeOK'
  <2>1. job[e] \in Jobs /\ (StallJob(e) => job[e].stalls <= MaxStalls)
    BY DEF StallJob, OutboxInv, OutboxTypeOK, Live
  <2>2. CASE StallJob(e)
    <3> DEFINE st == IF job[e].stalls < MaxStalls THEN "waiting" ELSE "failed"
    <3>1. [state |-> st, tries |-> job[e].tries, stalls |-> job[e].stalls + 1, owner |-> {}] \in Jobs
      BY <2>1, <2>2 DEF Jobs, JobStates
    <3> QED BY <2>2, <3>1 DEF StallJob, Requeue, SetJob, OutboxInv, OutboxTypeOK, Live, workerVars
  <2>3. CASE EvictJob(e)
    <3>1. [state |-> "none", tries |-> 0, stalls |-> 0, owner |-> {}] \in Jobs
      BY DEF Jobs, JobStates
    <3> QED BY <2>3, <3>1 DEF EvictJob, SetJob, OutboxInv, OutboxTypeOK, Live, workerVars
  <2> QED BY <2>2, <2>3
<1>2. \A d \in Events : HandedOver(d) => HandedOver(d)'
  BY DEF StallJob, EvictJob, Requeue, SetJob, OutboxInv, OutboxTypeOK, HandedOver, Live, workerVars
<1>3. (\A d \in Events :
         /\ job[d].state = "completed" => d \in notifications
         /\ job[d].state = "failed" => d \in exhausted
         /\ job[d].state \in {"waiting", "active"} =>
              job[d].tries < MaxAttempts /\ job[d].stalls <= MaxStalls
         /\ job[d].owner # {} => job[d].state = "active")'
  <2>1. CASE StallJob(e)
    <3>1. job[e] \in Jobs /\ job[e].tries < MaxAttempts
      BY <2>1 DEF StallJob, OutboxInv, OutboxTypeOK, Live
    <3> QED BY <2>1, <3>1 DEF StallJob, Requeue, SetJob, Jobs, OutboxInv, OutboxTypeOK, Live
  <2>2. CASE EvictJob(e)
    BY <2>2 DEF EvictJob, SetJob, OutboxInv, OutboxTypeOK, Live
  <2> QED BY <2>1, <2>2
<1>4. \A b \in Consumers :
        running'[b].persisted => running'[b].event \in notifications'
  BY DEF StallJob, EvictJob, Requeue, SetJob, OutboxInv, OutboxTypeOK, NoEvent, workerVars
<1>5. UNCHANGED <<row, at>>
  BY DEF StallJob, EvictJob, Requeue, SetJob, workerVars
<1> QED
  BY <1>1, <1>2, <1>3, <1>4, <1>5 DEF OutboxInv, PublishedIsHandedOver, Live

\* The invariant is kept when a consumer crashes.
LEMMA CrashConsumerInv ==
  ASSUME OutboxInv, NEW c \in Consumers, CrashConsumer(c)
  PROVE  OutboxInv'
  BY OutboxAssumption DEF CrashConsumer, NotRunning, OutboxInv, OutboxTypeOK, PublishedIsHandedOver,
     HandedOver, Live, Jobs, JobStates, NoEvent, workerVars

\* Every step keeps the invariant.
LEMMA OutboxStepInv ==
  ASSUME OutboxInv, [OutboxNext]_outboxVars
  PROVE  OutboxInv'
<1>1. CASE UNCHANGED outboxVars
  BY <1>1 DEF outboxVars, OutboxInv, OutboxTypeOK, PublishedIsHandedOver, HandedOver, Live
<1>2. CASE \E e \in Events : Emit(e) \/ Ripen(e) \/ StallJob(e) \/ EvictJob(e)
  BY <1>2, RowsInv, StallJobInv
<1>3. CASE \E w \in Workers : Dispatch(w)
  BY <1>3, ClaimBatchInv, AddJobInv, MarkPublishedInv, MarkFailsInv, RetryInv, AbortInv
     DEF Dispatch
<1>4. CASE \E c \in Consumers : Consume(c)
  BY <1>4, TakeJobInv, PersistInv, CompleteJobInv, FailJobInv, CrashConsumerInv DEF Consume
<1> QED
  BY <1>1, <1>2, <1>3, <1>4 DEF OutboxNext

\* The inductive invariant holds throughout.
THEOREM OutboxInductive == OutboxSpec => []OutboxInv
<1>1. OutboxInit => OutboxInv
  BY OutboxInitInv
<1>2. OutboxInv /\ [OutboxNext]_outboxVars => OutboxInv'
  BY OutboxStepInv
<1> QED BY <1>1, <1>2, PTL DEF OutboxSpec

\* However workers and consumers interleave, crash and fail, an event marked
\* PUBLISHED has its notification or a job that will still be run, or its job was
\* run until its attempts or stalls were used up (publish adds the job before it
\* marks the row; what eviction forgets, of completed and of failed jobs, is not
\* what this rests on).
THEOREM NoEventLost == OutboxSpec => []PublishedIsHandedOver
<1>1. OutboxInv => PublishedIsHandedOver
  BY DEF OutboxInv
<1> QED BY <1>1, OutboxInductive, PTL

\* PUBLISHED is never undone, by whichever worker and however late
\* (OutboxEvent_state_check refuses the update of the catch block).
THEOREM PublishedForGood == OutboxSpec => PublishedIsFinal
<1>1. OutboxInv /\ [OutboxNext]_outboxVars =>
        [\A e \in Events : row[e] = "PUBLISHED" => row'[e] = "PUBLISHED"]_outboxVars
  <2> SUFFICES ASSUME OutboxInv, OutboxNext, NEW e \in Events, row[e] = "PUBLISHED"
               PROVE  row'[e] = "PUBLISHED"
    OBVIOUS
  <2>0. e \notin ripe /\ row \in [Events -> {"NONE", "PENDING", "PROCESSING", "PUBLISHED"}]
    BY DEF OutboxInv, OutboxTypeOK
  <2>1. CASE \E d \in Events : Emit(d) \/ Ripen(d) \/ StallJob(d) \/ EvictJob(d)
    BY <2>0, <2>1 DEF Emit, Ripen, StallJob, EvictJob
  <2>2. CASE \E w \in Workers : Dispatch(w)
    BY <2>0, <2>2 DEF Dispatch, ClaimBatch, Candidates, AddJob, AddFails, MarkPublished,
       MarkFails, Retry, MayRetry, Abort
  <2>3. CASE \E c \in Consumers : Consume(c)
    BY <2>3 DEF Consume, TakeJob, PersistForEvent, CompleteJob, FailJob, CrashConsumer
  <2> QED BY <2>1, <2>2, <2>3 DEF OutboxNext
<1> QED BY <1>1, OutboxInductive, PTL DEF OutboxSpec, PublishedIsFinal
==============================================================================
