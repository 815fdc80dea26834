------------------------------ MODULE Webhooks ------------------------------
(***************************************************************************)
(* Signed outbound webhooks: WebhooksService, WebhookDeliveryService and   *)
(* WebhookWorkerService over PostgreSQL (READ COMMITTED) and BullMQ.       *)
(*                                                                         *)
(* An event fans out to a delivery per enabled subscription.  A dispatcher *)
(* claims deliveries that are due, for a lease, and adds a job for each; a *)
(* consumer runs a job: it starts the attempt, sends the request, and      *)
(* finishes the attempt.  Every transaction locks the delivery's row until *)
(* it ends, and none locks the subscription it reads.  A transaction is a  *)
(* step that takes the row and reads, and a step that commits its writes:  *)
(* whatever would wait for it in between comes after it.                   *)
(*                                                                         *)
(* Time is one bit per delivery: its availableAt or its leaseUntil is past *)
(* (due).  A lease token is drawn afresh by each claim and is there while  *)
(* the delivery is PROCESSING, so the number of the claim stands for it.   *)
(* BullMQ may run a job any number of times, late, or never; a receiver    *)
(* may accept a request whose answer is lost; workers crash at any step.   *)
(***************************************************************************)
EXTENDS Naturals

CONSTANTS
    Subscriptions,  \* of one user
    Events,         \* outbox events of that user
    Dispatchers,    \* worker processes ...
    Consumers,      \* ... and the jobs they can run at once
    MaxAttempts

ASSUME WebhooksAssumption ==
    /\ MaxAttempts \in Nat \ {0}
    /\ Dispatchers \cap Consumers = {}

Deliveries == Subscriptions \X Events

Numbers == 1..MaxAttempts

Workers == Dispatchers \cup Consumers

VARIABLES
    subscription,   \* [Subscriptions -> WebhookSubscription], committed
    fanout,         \* [Events -> the transaction that inserts the event]
    delivery,       \* [Deliveries -> WebhookDelivery row], committed
    attempt,        \* [Deliveries -> [Numbers -> WebhookAttempt.status]], committed
    due,            \* deliveries whose availableAt or leaseUntil is past
    queue,          \* the jobs BullMQ holds: <<delivery, number of the claim>>
    at,             \* [Workers -> where it is and what it holds]
    disabling,      \* [Subscriptions -> the transaction of disable]
    sent,           \* history: [Deliveries -> [Numbers -> requests made]]
    accepted        \* history: <<delivery, number>> of requests a receiver took

rows == <<delivery, attempt, due>>
network == <<sent, accepted>>
webhookVars == <<subscription, fanout, rows, queue, at, disabling, network>>

NoDelivery == [status |-> "NONE", count |-> 0]

NoJob == <<<<>>, 0>>

\* locked: the rows it has locked; enabled, disabled: those of them whose
\* subscription it has read, with what it read; jobs: those it is to add.
Idle == [pc |-> "idle", job |-> NoJob, locked |-> {}, enabled |-> {}, disabled |-> {},
         jobs |-> {}, outcome |-> ""]

NoDisable == [pc |-> "idle", seen |-> {}, held |-> {}, attempts |-> {}]

OpenStatus == {"PENDING", "PROCESSING"}

OpenAttempt == {"QUEUED", "SENDING"}

Terminal(d) == delivery[d].status \in {"DELIVERED", "FAILED", "CANCELLED"}

Last(d) == delivery[d].count

Enabled(d) == subscription[d[1]] = "enabled"

\* Nobody has the row of the delivery locked.
Free(d) ==
    /\ \A x \in Workers : d \notin at[x].locked
    /\ \A s \in Subscriptions : d \notin disabling[s].held

Become(x, state) == at' = [at EXCEPT ![x] = state]

-----------------------------------------------------------------------------
(* WebhooksService *)

\* create: the endpoint was found to be public.
Subscribe(s) ==
    /\ subscription[s] = "none"
    /\ subscription' = [subscription EXCEPT ![s] = "enabled"]
    /\ UNCHANGED <<fanout, rows, queue, at, disabling, network>>

\* disable: the subscription is updated, which nobody sees before the commit,
\* and the deliveries that are open now are the ones it is about to lock.
DisableFind(s) ==
    /\ disabling[s].pc = "idle"
    /\ subscription[s] # "none"
    /\ disabling' = [disabling EXCEPT ![s] =
                       [NoDisable EXCEPT !.pc = "found",
                                         !.seen = {d \in {s} \X Events :
                                                     delivery[d].status \in OpenStatus}]]
    /\ UNCHANGED <<subscription, fanout, rows, queue, at, network>>

\* Mutant of DisableDeliveries: whatever was not delivered is cancelled.
DisableUndelivered(s) ==
    /\ disabling[s].pc = "found"
    /\ \A d \in disabling[s].seen : Free(d)
    /\ disabling' = [disabling EXCEPT ![s].pc = "deliveries",
                                      ![s].held = {d \in disabling[s].seen :
                                                     delivery[d].status # "DELIVERED"}]
    /\ UNCHANGED <<subscription, fanout, rows, queue, at, network>>

\* It waits for their rows, and looks again at what it waited for.
DisableDeliveries(s) ==
    /\ disabling[s].pc = "found"
    /\ \A d \in disabling[s].seen : Free(d)
    /\ disabling' = [disabling EXCEPT ![s].pc = "deliveries",
                                      ![s].held = {d \in disabling[s].seen :
                                                     delivery[d].status \in OpenStatus}]
    /\ UNCHANGED <<subscription, fanout, rows, queue, at, network>>

\* The attempts of the subscription that are open now, of whichever delivery.
DisableAttempts(s) ==
    /\ disabling[s].pc = "deliveries"
    /\ disabling' = [disabling EXCEPT ![s].pc = "attempts",
                                      ![s].attempts = {o \in ({s} \X Events) \X Numbers :
                                                         attempt[o[1]][o[2]] \in OpenAttempt}]
    /\ UNCHANGED <<subscription, fanout, rows, queue, at, network>>

\* A claim has abandoned the attempts of a row it has got to, uncommitted.
Abandoned(d) ==
    \E w \in Dispatchers : at[w].pc = "claim" /\ d \in at[w].enabled \cup at[w].disabled

DisableCommit(s) ==
    LET held == disabling[s].held
        open == {o \in disabling[s].attempts : attempt[o[1]][o[2]] \in OpenAttempt}
    IN  /\ disabling[s].pc = "attempts"
        /\ \A o \in disabling[s].attempts : ~Abandoned(o[1])
        /\ subscription' = [subscription EXCEPT ![s] = "disabled"]
        /\ delivery' = [d \in Deliveries |->
                          IF d \in held THEN [delivery[d] EXCEPT !.status = "CANCELLED"]
                          ELSE delivery[d]]
        /\ attempt' = [d \in Deliveries |-> [n \in Numbers |->
                          IF <<d, n>> \in open THEN "CANCELLED" ELSE attempt[d][n]]]
        /\ due' = due \ held
        /\ disabling' = [disabling EXCEPT ![s] = NoDisable]
        /\ UNCHANGED <<fanout, queue, at, network>>

\* The transaction times out or its process dies.
DisableAbort(s) ==
    /\ disabling[s].pc # "idle"
    /\ disabling' = [disabling EXCEPT ![s] = NoDisable]
    /\ UNCHANGED <<subscription, fanout, rows, queue, at, network>>

-----------------------------------------------------------------------------
(* fan_out_webhook_event *)

\* The trigger inserts a delivery for each subscription its transaction sees ...
FanOut(e) ==
    /\ fanout[e].pc = "none"
    /\ fanout' = [fanout EXCEPT ![e] = [pc |-> "open",
                    to |-> {s \in Subscriptions : subscription[s] = "enabled"}]]
    /\ UNCHANGED <<subscription, rows, queue, at, disabling, network>>

\* ... and they appear with the event when the transfer or payment commits.
FanOutCommit(e) ==
    LET new == fanout[e].to \X {e} IN
    /\ fanout[e].pc = "open"
    /\ fanout' = [fanout EXCEPT ![e].pc = "committed"]
    /\ delivery' = [d \in Deliveries |->
                      IF d \in new THEN [NoDelivery EXCEPT !.status = "PENDING"] ELSE delivery[d]]
    /\ due' = due \cup new
    /\ UNCHANGED <<subscription, attempt, queue, at, disabling, network>>

-----------------------------------------------------------------------------
(* Dispatchers: publishBatch and claimBatch *)

\* Mutant of Claimable: leases are not recovered.
ClaimablePending == {d \in due : delivery[d].status = "PENDING" /\ Free(d)}

\* FOR UPDATE SKIP LOCKED; ten at a time, which is more than there are here.
Claimable == {d \in due : delivery[d].status \in OpenStatus /\ Free(d)}

ClaimSelect(w) ==
    /\ at[w].pc = "idle"
    /\ Claimable # {}
    /\ Become(w, [Idle EXCEPT !.pc = "claim", !.locked = Claimable])
    /\ UNCHANGED <<subscription, fanout, rows, queue, disabling, network>>

\* For each row in turn: abandon what is open, and read the subscription.
ClaimRow(w, d) ==
    /\ at[w].pc = "claim"
    /\ d \in at[w].locked \ (at[w].enabled \cup at[w].disabled)
    /\ at' = IF Enabled(d) THEN [at EXCEPT ![w].enabled = @ \cup {d}]
                           ELSE [at EXCEPT ![w].disabled = @ \cup {d}]
    /\ UNCHANGED <<subscription, fanout, rows, queue, disabling, network>>

\* Mutant of Claimed: the limit is off by one.
ClaimedOnceMore(w) == {d \in at[w].enabled : Last(d) <= MaxAttempts}

\* The rows that get another attempt.
Claimed(w) == {d \in at[w].enabled : Last(d) < MaxAttempts}

\* Mutant of Recovered: only where another attempt follows.
RecoveredForRetry(w) == Claimed(w)

\* The rows whose open attempts are abandoned.
Recovered(w) == at[w].locked

ClaimCommit(w) ==
    LET again == Claimed(w) IN
    /\ at[w].pc = "claim"
    /\ at[w].locked = at[w].enabled \cup at[w].disabled
    /\ delivery' = [d \in Deliveries |->
         CASE d \in again -> [status |-> "PROCESSING", count |-> Last(d) + 1]
           [] d \in at[w].enabled \ again -> [delivery[d] EXCEPT !.status = "FAILED"]
           [] d \in at[w].disabled -> [delivery[d] EXCEPT !.status = "CANCELLED"]
           [] OTHER -> delivery[d]]
    /\ attempt' = [d \in Deliveries |-> [n \in Numbers |->
         CASE d \in again /\ n = Last(d) + 1 -> "QUEUED"
           [] d \in Recovered(w) /\ attempt[d][n] \in OpenAttempt -> "ABANDONED"
           [] OTHER -> attempt[d][n]]]
    /\ due' = due \ at[w].locked
    /\ Become(w, [Idle EXCEPT !.pc = "add", !.jobs = {<<d, Last(d) + 1>> : d \in again}])
    /\ UNCHANGED <<subscription, fanout, queue, disabling, network>>

\* queue.add, for each job in turn ...
AddJob(w, j) ==
    /\ at[w].pc = "add"
    /\ j \in at[w].jobs
    /\ queue' = queue \cup {j}
    /\ at' = [at EXCEPT ![w].jobs = @ \ {j}]
    /\ UNCHANGED <<subscription, fanout, rows, disabling, network>>

\* ... or it fails, though the job may be there, and publicationFailed is called.
AddFails(w, j) ==
    /\ at[w].pc = "add"
    /\ j \in at[w].jobs
    /\ queue' \in {queue, queue \cup {j}}
    /\ Become(w, [at[w] EXCEPT !.pc = "done", !.job = j, !.jobs = @ \ {j},
                               !.outcome = "unqueued"])
    /\ UNCHANGED <<subscription, fanout, rows, disabling, network>>

DispatchEnds(w) ==
    /\ at[w].pc = "add"
    /\ at[w].jobs = {}
    /\ Become(w, Idle)
    /\ UNCHANGED <<subscription, fanout, rows, queue, disabling, network>>

-----------------------------------------------------------------------------
(* Consumers: execute *)

\* Mutant of Leased: any lease on the delivery will do.
LeasedByAnyone(j) == delivery[j[1]].status = "PROCESSING" /\ j[1] \notin due

\* The WHERE clause of locked, and the second look at the clock.
Leased(j) ==
    /\ delivery[j[1]].status = "PROCESSING"
    /\ Last(j[1]) = j[2]
    /\ j[1] \notin due

\* locked, and the subscription read after it.
LockFor(x, j, pc) ==
    at' = [at EXCEPT ![x].pc = pc, ![x].job = j, ![x].locked = {j[1]},
                     ![x].enabled = IF Enabled(j[1]) THEN {j[1]} ELSE {}]

StartLock(x, j) ==
    /\ at[x].pc = "idle"
    /\ j \in queue
    /\ Free(j[1])
    /\ Leased(j)
    /\ LockFor(x, j, "start")
    /\ UNCHANGED <<subscription, fanout, rows, queue, disabling, network>>

\* Mutant of StartCommit: whoever has the lease sends.
StartAgain(x) ==
    LET d == at[x].job[1]
        go == d \in at[x].enabled
    IN  /\ at[x].pc = "start"
        /\ delivery' = IF go THEN delivery ELSE [delivery EXCEPT ![d].status = "CANCELLED"]
        /\ attempt' = [attempt EXCEPT ![d][Last(d)] = IF go THEN "SENDING" ELSE "CANCELLED"]
        /\ due' = IF go THEN due ELSE due \ {d}
        /\ Become(x, IF go THEN [Idle EXCEPT !.pc = "send", !.job = at[x].job] ELSE Idle)
        /\ UNCHANGED <<subscription, fanout, queue, disabling, network>>

\* Of a disabled subscription the delivery is cancelled; else the attempt is
\* sent, unless it was started before.
StartCommit(x) ==
    LET d == at[x].job[1]
        go == d \in at[x].enabled
        queued == attempt[d][Last(d)] = "QUEUED"
    IN  /\ at[x].pc = "start"
        /\ delivery' = IF go THEN delivery ELSE [delivery EXCEPT ![d].status = "CANCELLED"]
        /\ attempt' = [attempt EXCEPT ![d][Last(d)] =
                         IF ~queued THEN @ ELSE IF go THEN "SENDING" ELSE "CANCELLED"]
        /\ due' = IF go THEN due ELSE due \ {d}
        /\ Become(x, IF go /\ queued THEN [Idle EXCEPT !.pc = "send", !.job = at[x].job] ELSE Idle)
        /\ UNCHANGED <<subscription, fanout, queue, disabling, network>>

\* What send and its answer come to: 2xx; 408, 429, 5xx, a timeout or a lost
\* connection, with or without effect at the receiver; another status.
Send(x) ==
    LET j == at[x].job IN
    /\ at[x].pc = "send"
    /\ sent' = [sent EXCEPT ![j[1]][j[2]] = @ + 1]
    /\ \E outcome \in {"ok", "retry", "refused"} :
         /\ at' = [at EXCEPT ![x].pc = "done", ![x].outcome = outcome]
         /\ \/ outcome \in {"ok", "retry"} /\ accepted' = accepted \cup {j}
            \/ outcome \in {"retry", "refused"} /\ UNCHANGED accepted
    /\ UNCHANGED <<subscription, fanout, rows, queue, disabling>>

\* No request is made: the secret cannot be decrypted or the endpoint has
\* become unsafe (refused), or its name does not resolve in time (retry).
SendNothing(x) ==
    /\ at[x].pc = "send"
    /\ \E outcome \in {"retry", "refused"} :
         at' = [at EXCEPT ![x].pc = "done", ![x].outcome = outcome]
    /\ UNCHANGED <<subscription, fanout, rows, queue, disabling, network>>

\* A consumer is done with its job, a dispatcher goes on with the next one.
After(x) == IF x \in Consumers THEN Idle ELSE [Idle EXCEPT !.pc = "add", !.jobs = at[x].jobs]

FinishLock(x) ==
    LET j == at[x].job IN
    /\ at[x].pc = "done"
    /\ Free(j[1])
    /\ IF Leased(j) THEN LockFor(x, j, "finish") ELSE Become(x, After(x))
    /\ UNCHANGED <<subscription, fanout, rows, queue, disabling, network>>

Expected(x) == IF at[x].outcome = "unqueued" THEN "QUEUED" ELSE "SENDING"

Retry(x, d) == at[x].outcome \in {"retry", "unqueued"} /\ Last(d) < MaxAttempts

\* The attempt and the delivery, if the attempt is as this worker left it.
FinishCommit(x) ==
    LET d == at[x].job[1]
        ok == at[x].outcome = "ok"
        ended == CASE d \notin at[x].enabled -> <<"CANCELLED", "CANCELLED">>
                   [] d \in at[x].enabled /\ ok -> <<"SUCCEEDED", "DELIVERED">>
                   [] OTHER -> <<"FAILED", IF Retry(x, d) THEN "PENDING" ELSE "FAILED">>
    IN  /\ at[x].pc = "finish"
        /\ IF attempt[d][Last(d)] = Expected(x)
           THEN /\ attempt' = [attempt EXCEPT ![d][Last(d)] = ended[1]]
                /\ delivery' = [delivery EXCEPT ![d].status = ended[2]]
                /\ due' = due \ {d}
           ELSE UNCHANGED rows
        /\ Become(x, After(x))
        /\ UNCHANGED <<subscription, fanout, queue, disabling, network>>

-----------------------------------------------------------------------------
(* The environment *)

\* A backoff ends, or a lease.
Expire(d) ==
    /\ delivery[d].status \in OpenStatus /\ d \notin due
    /\ due' = due \cup {d}
    /\ UNCHANGED <<subscription, fanout, delivery, attempt, queue, at, disabling, network>>

\* A crash, or an error of the database: the transaction is rolled back.
Crash(x) ==
    /\ at[x].pc # "idle"
    /\ Become(x, Idle)
    /\ UNCHANGED <<subscription, fanout, rows, queue, disabling, network>>

-----------------------------------------------------------------------------

WebhookInit ==
    /\ subscription = [s \in Subscriptions |-> "none"]
    /\ fanout = [e \in Events |-> [pc |-> "none", to |-> {}]]
    /\ delivery = [d \in Deliveries |-> NoDelivery]
    /\ attempt = [d \in Deliveries |-> [n \in Numbers |-> "NONE"]]
    /\ due = {} /\ queue = {} /\ accepted = {}
    /\ at = [x \in Workers |-> Idle]
    /\ disabling = [s \in Subscriptions |-> NoDisable]
    /\ sent = [d \in Deliveries |-> [n \in Numbers |-> 0]]

DisableStep(s) == DisableDeliveries(s) \/ DisableAttempts(s) \/ DisableCommit(s)

\* What a worker goes on with by itself.
WorkerStep(x) ==
    \/ \E d \in Deliveries : ClaimRow(x, d)
    \/ ClaimCommit(x) \/ DispatchEnds(x)
    \/ \E j \in at[x].jobs : AddJob(x, j) \/ AddFails(x, j)
    \/ StartCommit(x) \/ Send(x) \/ SendNothing(x) \/ FinishLock(x) \/ FinishCommit(x)

WebhookNext ==
    \/ \E s \in Subscriptions :
         Subscribe(s) \/ DisableFind(s) \/ DisableStep(s) \/ DisableAbort(s)
    \/ \E e \in Events : FanOut(e) \/ FanOutCommit(e)
    \/ \E w \in Dispatchers : ClaimSelect(w)
    \/ \E c \in Consumers, j \in queue : StartLock(c, j)
    \/ \E x \in Workers : WorkerStep(x) \/ Crash(x)
    \/ \E d \in Deliveries : Expire(d)

WebhookSpec == WebhookInit /\ [][WebhookNext]_webhookVars

\* Time passes; a transaction that has begun ends, and gets a row it waits for
\* in its turn; dispatchers poll, and get to a delivery between two locks of it.
WebhookFairness ==
    /\ \A d \in Deliveries : WF_webhookVars(Expire(d))
    /\ \A x \in Workers : SF_webhookVars(WorkerStep(x))
    /\ \A s \in Subscriptions : SF_webhookVars(DisableStep(s))
    /\ \A w \in Dispatchers, d \in Deliveries : SF_webhookVars(ClaimSelect(w) /\ d \in Claimable)

WebhookFairSpec == WebhookSpec /\ WebhookFairness

-----------------------------------------------------------------------------
(* Properties *)

\* The statuses are those of the schema, a delivery has one attempt for each
\* claim and no more than MaxAttempts (the CHECKs of the migration), and no two
\* transactions have the same row locked.
WebhookTypeOK ==
    /\ subscription \in [Subscriptions -> {"none", "enabled", "disabled"}]
    /\ \A d \in Deliveries :
         /\ delivery[d].status \in {"NONE", "DELIVERED", "FAILED", "CANCELLED"} \cup OpenStatus
         /\ delivery[d].count \in 0..MaxAttempts
         /\ \A n \in Numbers :
              attempt[d][n] \in IF n > Last(d) THEN {"NONE"}
                                ELSE OpenAttempt \cup {"SUCCEEDED", "FAILED", "ABANDONED", "CANCELLED"}
    /\ due \subseteq Deliveries /\ queue \subseteq Deliveries \X Numbers
    /\ \A x, y \in Workers : x # y => at[x].locked \cap at[y].locked = {}
    /\ \A x \in Workers, s \in Subscriptions : at[x].locked \cap disabling[s].held = {}

\* The history of attempts and the delivery tell the same story, whatever late
\* finish, duplicate job, expired lease or disable got between them: only the
\* last attempt may be open, and not when the delivery has succeeded, failed or
\* waits for a retry.
AttemptsAgree ==
    \A d \in Deliveries :
        LET last == IF Last(d) = 0 THEN "NONE" ELSE attempt[d][Last(d)] IN
        /\ \A n \in Numbers : n # Last(d) => attempt[d][n] \in {"NONE", "FAILED", "ABANDONED", "CANCELLED"}
        /\ delivery[d].status = "PENDING" => last \in {"NONE", "FAILED"}
        /\ delivery[d].status = "PROCESSING" => last \in {"QUEUED", "SENDING", "CANCELLED"}
        /\ delivery[d].status = "FAILED" => last \in {"FAILED", "ABANDONED"}
        /\ delivery[d].status = "DELIVERED" <=> last = "SUCCEEDED"

\* What is recorded as delivered was accepted by the receiver, in answer to
\* the request of that very attempt: an answer that comes when the lease has
\* been lost is not put down to the attempt that follows.
ResultsAreGenuine ==
    \A d \in Deliveries, n \in Numbers : attempt[d][n] = "SUCCEEDED" => <<d, n>> \in accepted

\* An attempt makes one request at most, although its job may be run twice and
\* may have been added by a call that failed.
OneRequestPerAttempt == \A d \in Deliveries, n \in Numbers : sent[d][n] <= 1

\* A delivery that has ended stays as it is and starts no attempt, whatever
\* workers and disables that read it before still do.
TerminalIsFinal ==
    [][\A d \in Deliveries : Terminal(d) =>
          /\ delivery'[d] = delivery[d]
          /\ \A n \in Numbers : attempt'[d][n] = "SENDING" => attempt[d][n] = "SENDING"]_webhookVars

\* Every delivery ends, over crashes, lost jobs and expired leases, also when
\* its subscription is disabled in the meantime and the disable misses it,
\* provided that dispatchers are not killed in the midst of a claim for ever.
EveryDeliverySettles ==
    <>[][\A w \in Dispatchers : at[w].pc = "claim" => ~Crash(w)]_webhookVars
    => \A d \in Deliveries : delivery[d].status # "NONE" ~> Terminal(d)

\* README: a row that a disable has missed is cancelled by the checks of claim
\* and send, so nothing is started for a subscription once it is disabled.
NothingStartsOnceDisabled ==
    [][\A d \in Deliveries, n \in Numbers :
          subscription[d[1]] = "disabled" /\ attempt'[d][n] = "SENDING" => attempt[d][n] = "SENDING"]_webhookVars
==============================================================================
