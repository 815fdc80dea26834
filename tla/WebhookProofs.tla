---------------------------- MODULE WebhookProofs ----------------------------
(***************************************************************************)
(* Webhook delivery, for every set of subscriptions, events and workers    *)
(* and every limit of attempts.  The invariant says what a transaction     *)
(* knows of the rows it has locked (Own, DisableOK) and what each row says *)
(* of itself (RowOK); a step of a worker changes only rows it has locked,  *)
(* so what the others know stays true.                                     *)
(***************************************************************************)
EXTENDS Webhooks, TLAPS

Jobs == Deliveries \X Numbers

DeliveryRows ==
    [status : {"NONE", "PENDING", "PROCESSING", "DELIVERED", "FAILED", "CANCELLED"},
     count  : 0..MaxAttempts]

AttemptStatuses == {"NONE", "QUEUED", "SENDING", "SUCCEEDED", "FAILED", "ABANDONED", "CANCELLED"}

WorkerStates ==
    [pc       : {"idle", "claim", "add", "start", "send", "done", "finish"},
     job      : Jobs \cup {NoJob},
     locked   : SUBSET Deliveries,
     enabled  : SUBSET Deliveries,
     disabled : SUBSET Deliveries,
     jobs     : SUBSET Jobs,
     outcome  : {"", "ok", "retry", "refused", "unqueued"}]

DisableStates ==
    [pc       : {"idle", "found", "deliveries", "attempts"},
     seen     : SUBSET Deliveries,
     held     : SUBSET Deliveries,
     attempts : SUBSET Jobs]

TypesOK ==
    /\ subscription \in [Subscriptions -> {"none", "enabled", "disabled"}]
    /\ fanout \in [Events -> [pc : {"none", "open", "committed"}, to : SUBSET Subscriptions]]
    /\ delivery \in [Deliveries -> DeliveryRows]
    /\ attempt \in [Deliveries -> [Numbers -> AttemptStatuses]]
    /\ due \subseteq Deliveries
    /\ queue \subseteq Jobs
    /\ at \in [Workers -> WorkerStates]
    /\ disabling \in [Subscriptions -> DisableStates]
    /\ sent \in [Deliveries -> [Numbers -> Nat]]

\* The status of the last attempt of a delivery.
LastAttempt(d) == IF Last(d) = 0 THEN "NONE" ELSE attempt[d][Last(d)]

\* What worker x in state a knows of the rows it has locked and of its job.
Own(x, a) ==
    /\ a.pc \in {"idle", "add", "send", "done"} => a.locked = {}
    /\ a.pc = "claim" =>
         /\ x \in Dispatchers
         /\ a.enabled \cup a.disabled \subseteq a.locked
         /\ a.enabled \cap a.disabled = {}
         /\ \A d \in a.locked : delivery[d].status \in OpenStatus
         /\ \A d \in a.enabled : LastAttempt(d) # "CANCELLED"
    /\ a.pc \in {"start", "send", "done", "finish"} => a.job \in Jobs
    /\ a.pc \in {"start", "finish"} =>
         /\ a.locked = {a.job[1]}
         /\ delivery[a.job[1]].status = "PROCESSING"
         /\ Last(a.job[1]) = a.job[2]
    /\ a.pc \in {"done", "finish"} /\ a.outcome = "ok" => a.job \in accepted

\* A disable has locked deliveries of its subscription that are open.
DisableOK(s) ==
    /\ \A d \in disabling[s].seen : d[1] = s
    /\ \A d \in disabling[s].held : d[1] = s /\ delivery[d].status \in OpenStatus
    /\ \A o \in disabling[s].attempts : o[1][1] = s

RowLocks ==
    /\ \A x, y \in Workers : x # y => at[x].locked \cap at[y].locked = {}
    /\ \A x \in Workers, s \in Subscriptions : at[x].locked \cap disabling[s].held = {}

\* A delivery and its attempts, each of which has been numbered by a claim.
RowOK(d) ==
    /\ \A n \in Numbers : attempt[d][n] = "NONE" <=> n > Last(d)
    /\ \A n \in Numbers : n # Last(d) => attempt[d][n] \in {"NONE", "FAILED", "ABANDONED", "CANCELLED"}
    /\ delivery[d].status = "PENDING" => LastAttempt(d) \in {"NONE", "FAILED"}
    /\ delivery[d].status = "PROCESSING" => LastAttempt(d) \in {"QUEUED", "SENDING", "CANCELLED"}
    /\ delivery[d].status = "FAILED" => LastAttempt(d) \in {"FAILED", "ABANDONED"}
    /\ delivery[d].status = "DELIVERED" <=> LastAttempt(d) = "SUCCEEDED"
    /\ delivery[d].status \in OpenStatus /\ LastAttempt(d) = "CANCELLED" =>
         subscription[d[1]] = "disabled"
    /\ \A n \in Numbers : attempt[d][n] = "SUCCEEDED" => <<d, n>> \in accepted
    /\ fanout[d[2]].pc # "committed" => delivery[d] = NoDelivery

\* A request is made by who has started the attempt, and nobody else.
SentOK ==
    /\ \A d \in Deliveries, n \in Numbers : sent[d][n] <= 1
    /\ \A d \in Deliveries, n \in Numbers :
         attempt[d][n] \in {"NONE", "QUEUED"} =>
            sent[d][n] = 0 /\ \A x \in Workers : at[x].pc = "send" => at[x].job # <<d, n>>
    /\ \A x \in Workers : at[x].pc = "send" => sent[at[x].job[1]][at[x].job[2]] = 0
    /\ \A x, y \in Workers : x # y /\ at[x].pc = "send" /\ at[y].pc = "send" => at[x].job # at[y].job

\* Inductive.
WebhookInv ==
    /\ TypesOK
    /\ \A x \in Workers : Own(x, at[x])
    /\ \A s \in Subscriptions : DisableOK(s)
    /\ RowLocks
    /\ \A d \in Deliveries : RowOK(d)
    /\ SentOK

-----------------------------------------------------------------------------

\* An idle worker and an idle disable are well typed.
LEMMA IdleTypes == Idle \in WorkerStates /\ NoDisable \in DisableStates
BY DEF Idle, NoJob, WorkerStates, NoDisable, DisableStates

\* Nothing is delivered, locked or sent at first.
LEMMA WebhookInitInv == WebhookInit => WebhookInv
<1> SUFFICES ASSUME WebhookInit PROVE WebhookInv
  OBVIOUS
<1>1. TypesOK
  <2>1. NoDelivery \in DeliveryRows
    BY WebhooksAssumption DEF NoDelivery, DeliveryRows
  <2> QED BY <2>1, IdleTypes DEF WebhookInit, TypesOK, AttemptStatuses
<1>2. ASSUME NEW x \in Workers PROVE Own(x, at[x])
  BY DEF WebhookInit, Own, Idle
<1>3. ASSUME NEW s \in Subscriptions PROVE DisableOK(s)
  BY DEF WebhookInit, DisableOK, NoDisable
<1>4. RowLocks
  BY DEF WebhookInit, RowLocks, Idle, NoDisable
<1>5. ASSUME NEW d \in Deliveries PROVE RowOK(d)
  <2>1. /\ delivery[d] = NoDelivery /\ Last(d) = 0 /\ delivery[d].status = "NONE"
        /\ \A n \in Numbers : attempt[d][n] = "NONE" /\ n > Last(d)
    BY WebhooksAssumption DEF WebhookInit, Last, NoDelivery, Numbers
  <2>2. LastAttempt(d) = "NONE"
    BY <2>1 DEF LastAttempt
  <2> QED BY <2>1, <2>2 DEF RowOK, OpenStatus
<1>6. SentOK
  <2>1. /\ \A x \in Workers : at[x].pc = "idle"
        /\ \A d \in Deliveries, n \in Numbers : sent[d][n] = 0
    BY DEF WebhookInit, Idle
  <2> QED BY <2>1 DEF SentOK
<1> QED BY <1>1, <1>2, <1>3, <1>4, <1>5, <1>6 DEF WebhookInv

\* A worker moves on without writing a row: it may lock rows that are free, and
\* must know of them what Own says.
LEMMA MoveInv ==
    ASSUME WebhookInv, NEW x \in Workers, NEW a \in WorkerStates,
           at' = [at EXCEPT ![x] = a], Own(x, a), a.pc # "send",
           \A d \in a.locked : d \in at[x].locked \/ Free(d),
           queue' \subseteq Jobs,
           UNCHANGED <<subscription, fanout, rows, disabling, network>>
    PROVE  WebhookInv'
<1> USE DEF rows, network
<1>1. at \in [Workers -> WorkerStates]
  BY DEF WebhookInv, TypesOK
<1>2. at'[x] = a /\ \A y \in Workers \ {x} : at'[y] = at[y]
  BY <1>1
<1>3. TypesOK'
  BY <1>1 DEF WebhookInv, TypesOK
<1>4. ASSUME NEW y \in Workers PROVE Own(y, at[y])'
  <2>1. ASSUME NEW b, Own(y, b) PROVE Own(y, b)'
    BY <2>1 DEF Own, LastAttempt, Last
  <2>2. Own(y, at'[y])
    BY <1>2 DEF WebhookInv
  <2> QED BY <2>1, <2>2 DEF Own, LastAttempt, Last
<1>5. ASSUME NEW s \in Subscriptions PROVE DisableOK(s)'
  BY DEF WebhookInv, DisableOK
<1>6. RowLocks'
  BY <1>2 DEF WebhookInv, RowLocks, Free
<1>7. ASSUME NEW d \in Deliveries PROVE RowOK(d)'
  BY DEF WebhookInv, RowOK, LastAttempt, Last
<1>8. SentOK'
  BY <1>2 DEF WebhookInv, SentOK
<1> QED BY <1>3, <1>4, <1>5, <1>6, <1>7, <1>8 DEF WebhookInv

\* FOR UPDATE SKIP LOCKED takes rows that are free and open.
LEMMA ClaimSelectInv ==
    ASSUME WebhookInv, NEW w \in Dispatchers, ClaimSelect(w)
    PROVE  WebhookInv'
<1> DEFINE a == [Idle EXCEPT !.pc = "claim", !.locked = Claimable]
<1>1. w \in Workers /\ Claimable \subseteq Deliveries
  BY DEF Workers, Claimable, WebhookInv, TypesOK
<1>2. a \in WorkerStates
  BY <1>1, IdleTypes DEF WorkerStates, Idle
<1>3. Own(w, a)
  BY DEF Own, Idle, Claimable
<1>4. \A d \in a.locked : Free(d)
  BY DEF Idle, Claimable
<1>5. /\ at' = [at EXCEPT ![w] = a] /\ a.pc # "send" /\ queue' \subseteq Jobs
      /\ UNCHANGED <<subscription, fanout, rows, disabling, network>>
  BY DEF ClaimSelect, Become, Idle, WebhookInv, TypesOK
<1> HIDE DEF a
<1> QED BY <1>1, <1>2, <1>3, <1>4, <1>5, MoveInv

\* The claim reads the subscription of a row it has locked: if it is enabled,
\* no disable has cancelled the last attempt.
LEMMA ClaimRowInv ==
    ASSUME WebhookInv, NEW w \in Workers, NEW d \in Deliveries, ClaimRow(w, d)
    PROVE  WebhookInv'
<1> DEFINE a == IF Enabled(d) THEN [at[w] EXCEPT !.enabled = @ \cup {d}]
                              ELSE [at[w] EXCEPT !.disabled = @ \cup {d}]
<1>1. at[w] \in WorkerStates /\ Own(w, at[w]) /\ RowOK(d) /\ at \in [Workers -> WorkerStates]
  BY DEF WebhookInv, TypesOK
<1>2. a \in WorkerStates /\ a.pc = at[w].pc /\ a.locked = at[w].locked
  BY <1>1 DEF WorkerStates
<1>3. at' = [at EXCEPT ![w] = a]
  BY <1>1 DEF ClaimRow
<1>4. /\ at[w].pc = "claim" /\ d \in at[w].locked
      /\ d \notin at[w].enabled /\ d \notin at[w].disabled
  BY DEF ClaimRow
<1>5. Enabled(d) => LastAttempt(d) # "CANCELLED"
  <2>1. delivery[d].status \in OpenStatus
    BY <1>1, <1>4 DEF Own
  <2> QED BY <1>1, <2>1 DEF RowOK, Enabled
<1>6. Own(w, a)
  <2>1. CASE Enabled(d)
    <3>1. a.enabled = at[w].enabled \cup {d} /\ a.disabled = at[w].disabled
      BY <1>1, <2>1 DEF WorkerStates
    <3> HIDE DEF a
    <3> QED BY <3>1, <2>1, <1>1, <1>2, <1>4, <1>5 DEF Own
  <2>2. CASE ~Enabled(d)
    <3>1. a.disabled = at[w].disabled \cup {d} /\ a.enabled = at[w].enabled
      BY <1>1, <2>2 DEF WorkerStates
    <3> HIDE DEF a
    <3> QED BY <3>1, <1>1, <1>2, <1>4 DEF Own
  <2> QED BY <2>1, <2>2
<1>7. UNCHANGED <<subscription, fanout, rows, disabling, network>> /\ queue' \subseteq Jobs
  BY DEF ClaimRow, WebhookInv, TypesOK
<1> HIDE DEF a
<1> QED BY <1>2, <1>3, <1>4, <1>6, <1>7, MoveInv

\* publishBatch between its calls of queue.add, and the end of a crash.
LEMMA DispatchInv ==
    ASSUME WebhookInv, NEW w \in Workers,
           (\E j \in at[w].jobs : AddJob(w, j) \/ AddFails(w, j)) \/ DispatchEnds(w) \/ Crash(w)
    PROVE  WebhookInv'
<1>1. /\ at[w] \in WorkerStates /\ Own(w, at[w]) /\ at \in [Workers -> WorkerStates]
      /\ queue \subseteq Jobs
  BY DEF WebhookInv, TypesOK
<1>2. at[w].jobs \subseteq Jobs
  BY <1>1 DEF WorkerStates
<1>3. ASSUME NEW j \in at[w].jobs, AddJob(w, j) PROVE WebhookInv'
  <2> DEFINE a == [at[w] EXCEPT !.jobs = @ \ {j}]
  <2>1. at' = [at EXCEPT ![w] = a] /\ at[w].pc = "add"
    BY <1>3 DEF AddJob
  <2>2. a \in WorkerStates /\ a.pc = "add" /\ a.locked = at[w].locked
    BY <1>1, <2>1 DEF WorkerStates
  <2>3. Own(w, a)
    BY <1>1, <2>1, <2>2 DEF Own
  <2>4. UNCHANGED <<subscription, fanout, rows, disabling, network>> /\ queue' \subseteq Jobs
    BY <1>1, <1>2, <1>3 DEF AddJob
  <2> HIDE DEF a
  <2> QED BY <2>1, <2>2, <2>3, <2>4, MoveInv
<1>4. ASSUME NEW j \in at[w].jobs, AddFails(w, j) PROVE WebhookInv'
  <2> DEFINE a == [at[w] EXCEPT !.pc = "done", !.job = j, !.jobs = @ \ {j}, !.outcome = "unqueued"]
  <2>1. at' = [at EXCEPT ![w] = a] /\ at[w].pc = "add"
    BY <1>4 DEF AddFails, Become
  <2>2. /\ a \in WorkerStates /\ a.pc = "done" /\ a.locked = at[w].locked
        /\ a.job \in Jobs /\ a.outcome = "unqueued"
    BY <1>1, <1>2, <2>1 DEF WorkerStates
  <2>3. Own(w, a)
    BY <1>1, <2>1, <2>2 DEF Own
  <2>4. UNCHANGED <<subscription, fanout, rows, disabling, network>> /\ queue' \subseteq Jobs
    BY <1>1, <1>2, <1>4 DEF AddFails
  <2> HIDE DEF a
  <2> QED BY <2>1, <2>2, <2>3, <2>4, MoveInv
<1>5. ASSUME DispatchEnds(w) \/ Crash(w) PROVE WebhookInv'
  <2>1. /\ at' = [at EXCEPT ![w] = Idle] /\ queue' \subseteq Jobs
        /\ UNCHANGED <<subscription, fanout, rows, disabling, network>>
    BY <1>1, <1>5 DEF DispatchEnds, Crash, Become
  <2>2. Own(w, Idle) /\ Idle.pc # "send" /\ Idle.locked = {}
    BY DEF Own, Idle
  <2> QED BY <2>1, <2>2, IdleTypes, MoveInv
<1> QED BY <1>3, <1>4, <1>5

\* locked finds the lease of this very claim, on a row nobody has locked.
LEMMA LockForInv ==
    ASSUME WebhookInv, NEW x \in Workers, NEW j \in Jobs, NEW to \in {"start", "finish"},
           LockFor(x, j, to), Free(j[1]), Leased(j),
           to = "finish" /\ at[x].outcome = "ok" => j \in accepted,
           UNCHANGED <<subscription, fanout, rows, queue, disabling, network>>
    PROVE  WebhookInv'
<1> DEFINE e == IF Enabled(j[1]) THEN {j[1]} ELSE {}
           a == [at[x] EXCEPT !.pc = to, !.job = j, !.locked = {j[1]}, !.enabled = e]
<1>1. at[x] \in WorkerStates /\ at \in [Workers -> WorkerStates] /\ queue \subseteq Jobs
  BY DEF WebhookInv, TypesOK
<1>2. at' = [at EXCEPT ![x] = a]
  BY <1>1 DEF LockFor
<1>3. j[1] \in Deliveries /\ e \in SUBSET Deliveries
  BY DEF Jobs
<1>4. /\ a.pc = to /\ a.job = j /\ a.locked = {j[1]} /\ a.outcome = at[x].outcome
      /\ a \in WorkerStates
  <2> HIDE DEF e
  <2> QED BY <1>1, <1>3 DEF WorkerStates
<1> HIDE DEF a
<1>5. Own(x, a)
  BY <1>4 DEF Own, Leased
<1> QED BY <1>1, <1>2, <1>4, <1>5, MoveInv

\* execute begins, unless the lease is gone.
LEMMA StartLockInv ==
    ASSUME WebhookInv, NEW c \in Consumers, NEW j \in queue, StartLock(c, j)
    PROVE  WebhookInv'
<1>1. c \in Workers /\ j \in Jobs
  BY DEF Workers, WebhookInv, TypesOK
<1>2. /\ LockFor(c, j, "start") /\ Free(j[1]) /\ Leased(j)
      /\ UNCHANGED <<subscription, fanout, rows, queue, disabling, network>>
  BY DEF StartLock
<1> QED BY <1>1, <1>2, LockForInv

\* After an attempt, a worker holds nothing.
LEMMA AfterIsIdle ==
    ASSUME WebhookInv, NEW x \in Workers
    PROVE  /\ After(x) \in WorkerStates /\ Own(x, After(x))
           /\ After(x).pc \in {"idle", "add"} /\ After(x).locked = {}
<1>1. at[x].jobs \in SUBSET Jobs
  BY DEF WebhookInv, TypesOK, WorkerStates
<1> QED BY <1>1, IdleTypes DEF After, Own, Idle, WorkerStates

\* finish and publicationFailed: an answer that comes too late is dropped.
LEMMA FinishLockInv ==
    ASSUME WebhookInv, NEW x \in Workers, FinishLock(x)
    PROVE  WebhookInv'
<1> DEFINE j == at[x].job
<1>1. /\ at[x].pc = "done" /\ Free(j[1])
      /\ UNCHANGED <<subscription, fanout, rows, queue, disabling, network>>
      /\ IF Leased(j) THEN LockFor(x, j, "finish") ELSE at' = [at EXCEPT ![x] = After(x)]
  BY DEF FinishLock, Become
<1>2. j \in Jobs /\ (at[x].outcome = "ok" => j \in accepted) /\ queue \subseteq Jobs
  BY <1>1 DEF WebhookInv, TypesOK, Own
<1> HIDE DEF j
<1>3. CASE Leased(j)
  BY <1>1, <1>2, <1>3, LockForInv
<1>4. CASE ~Leased(j)
  BY <1>1, <1>2, <1>4, AfterIsIdle, MoveInv
<1> QED BY <1>3, <1>4

\* A request that cannot be made has an outcome too.
LEMMA SendNothingInv ==
    ASSUME WebhookInv, NEW x \in Workers, SendNothing(x)
    PROVE  WebhookInv'
<1>1. at[x].pc = "send" /\ UNCHANGED <<subscription, fanout, rows, queue, disabling, network>>
  BY DEF SendNothing
<1>2. PICK o \in {"retry", "refused"} : at' = [at EXCEPT ![x].pc = "done", ![x].outcome = o]
  BY DEF SendNothing
<1> DEFINE a == [at[x] EXCEPT !.pc = "done", !.outcome = o]
<1>3. /\ at[x] \in WorkerStates /\ at \in [Workers -> WorkerStates] /\ queue \subseteq Jobs
      /\ at[x].job \in Jobs /\ at[x].locked = {}
  BY <1>1 DEF WebhookInv, TypesOK, Own
<1>4. at' = [at EXCEPT ![x] = a]
  BY <1>2, <1>3
<1>5. /\ a.pc = "done" /\ a.job = at[x].job /\ a.locked = {} /\ a.outcome = o
      /\ a \in WorkerStates
  BY <1>3 DEF WorkerStates
<1> HIDE DEF a
<1>6. Own(x, a)
  BY <1>3, <1>5 DEF Own
<1> QED BY <1>1, <1>3, <1>4, <1>5, <1>6, MoveInv

\* A request: nobody else is about to make one for this attempt, and none has
\* been made.
LEMMA SendInv ==
    ASSUME WebhookInv, NEW x \in Workers, Send(x)
    PROVE  WebhookInv'
<1> DEFINE j == at[x].job
<1>1. /\ at[x].pc = "send" /\ UNCHANGED <<subscription, fanout, rows, queue, disabling>>
      /\ sent' = [sent EXCEPT ![j[1]][j[2]] = @ + 1]
  BY DEF Send
<1>2. PICK o \in {"ok", "retry", "refused"} :
         /\ at' = [at EXCEPT ![x].pc = "done", ![x].outcome = o]
         /\ \/ o \in {"ok", "retry"} /\ accepted' = accepted \cup {j}
            \/ o \in {"retry", "refused"} /\ UNCHANGED accepted
  BY DEF Send
<1> USE DEF rows
<1>3. /\ at[x] \in WorkerStates /\ at \in [Workers -> WorkerStates]
      /\ j \in Jobs /\ j[1] \in Deliveries /\ j[2] \in Numbers /\ j = <<j[1], j[2]>>
      /\ at[x].locked = {}
      /\ sent \in [Deliveries -> [Numbers -> Nat]]
  BY <1>1 DEF WebhookInv, TypesOK, Own, Jobs
<1>4. /\ at'[x].pc = "done" /\ at'[x].job = j /\ at'[x].locked = {} /\ at'[x].outcome = o
      /\ at' \in [Workers -> WorkerStates]
      /\ \A y \in Workers \ {x} : at'[y] = at[y]
  BY <1>2, <1>3 DEF WorkerStates
<1>5. accepted \subseteq accepted' /\ (o = "ok" => j \in accepted')
  BY <1>2
<1>6. /\ sent' \in [Deliveries -> [Numbers -> Nat]]
      /\ sent'[j[1]][j[2]] = sent[j[1]][j[2]] + 1
      /\ \A d \in Deliveries, n \in Numbers : <<d, n>> # j => sent'[d][n] = sent[d][n]
  BY <1>1, <1>3
<1> HIDE DEF j
<1>7. TypesOK'
  BY <1>1, <1>4, <1>6 DEF WebhookInv, TypesOK
<1>8. ASSUME NEW y \in Workers PROVE Own(y, at[y])'
  <2>1. CASE y = x
    BY <2>1, <1>3, <1>4, <1>5 DEF Own
  <2>2. CASE y # x
    BY <2>2, <1>1, <1>4, <1>5 DEF WebhookInv, Own, LastAttempt, Last
  <2> QED BY <2>1, <2>2
<1>9. ASSUME NEW s \in Subscriptions PROVE DisableOK(s)'
  BY <1>1 DEF WebhookInv, DisableOK
<1>10. RowLocks'
  BY <1>1, <1>3, <1>4 DEF WebhookInv, RowLocks
<1>11. ASSUME NEW d \in Deliveries PROVE RowOK(d)'
  BY <1>1, <1>5 DEF WebhookInv, RowOK, LastAttempt, Last
<1>12. SentOK'
  <2>1. /\ sent[j[1]][j[2]] = 0 /\ attempt[j[1]][j[2]] \notin {"NONE", "QUEUED"}
        /\ \A y \in Workers \ {x} : at[y].pc = "send" => at[y].job # j
    BY <1>1, <1>3 DEF WebhookInv, SentOK, j
  <2>2. \A d \in Deliveries, n \in Numbers : sent'[d][n] <= 1
    BY <1>3, <1>6, <2>1 DEF WebhookInv, SentOK
  <2>3. ASSUME NEW d \in Deliveries, NEW n \in Numbers, attempt[d][n] \in {"NONE", "QUEUED"}
        PROVE  sent'[d][n] = 0 /\ \A y \in Workers : at'[y].pc = "send" => at'[y].job # <<d, n>>
    <3>1. <<d, n>> # j
      BY <2>1, <2>3, <1>3
    <3>2. sent[d][n] = 0 /\ \A y \in Workers : at[y].pc = "send" => at[y].job # <<d, n>>
      BY <2>3 DEF WebhookInv, SentOK
    <3>3. sent'[d][n] = 0
      BY <3>1, <3>2, <1>6
    <3> QED BY <3>2, <3>3, <1>4
  <2>4. ASSUME NEW y \in Workers, at'[y].pc = "send"
        PROVE  sent'[at'[y].job[1]][at'[y].job[2]] = 0
    <3>1. y # x /\ at'[y] = at[y] /\ at[y].pc = "send"
      BY <2>4, <1>4
    <3>2. at[y].job \in Jobs /\ at[y].job # j
      BY <3>1, <2>1 DEF WebhookInv, Own
    <3>3. at[y].job = <<at[y].job[1], at[y].job[2]>> /\ at[y].job[1] \in Deliveries /\ at[y].job[2] \in Numbers
      BY <3>2 DEF Jobs
    <3> QED BY <3>1, <3>2, <3>3, <1>6 DEF WebhookInv, SentOK
  <2>5. ASSUME NEW y \in Workers, NEW z \in Workers, y # z, at'[y].pc = "send", at'[z].pc = "send"
        PROVE  at'[y].job # at'[z].job
    <3>1. at'[y] = at[y] /\ at'[z] = at[z]
      BY <2>5, <1>4
    <3> QED BY <2>5, <3>1 DEF WebhookInv, SentOK
  <2>6. attempt' = attempt
    BY <1>1
  <2> QED BY <2>2, <2>3, <2>4, <2>5, <2>6 DEF SentOK
<1> QED BY <1>7, <1>8, <1>9, <1>10, <1>11, <1>12 DEF WebhookInv

-----------------------------------------------------------------------------
(* Commits of workers *)

\* A worker writes rows it has locked, lets go of all of them, and leaves each
\* in order: nobody else knew anything of them.
LEMMA CommitRowsInv ==
    ASSUME WebhookInv, NEW x \in Workers, NEW a \in WorkerStates,
           at' = [at EXCEPT ![x] = a], a.locked = {},
           a.pc \in {"idle", "add"} \/ (a.pc = "send" /\ a.job \in Jobs),
           delivery' \in [Deliveries -> DeliveryRows],
           attempt' \in [Deliveries -> [Numbers -> AttemptStatuses]],
           due' \subseteq Deliveries,
           \A d \in Deliveries \ at[x].locked : delivery'[d] = delivery[d] /\ attempt'[d] = attempt[d],
           \A d \in at[x].locked : RowOK(d)',
           SentOK',
           UNCHANGED <<subscription, fanout, queue, disabling, network>>
    PROVE  WebhookInv'
<1> USE DEF network
<1>1. at \in [Workers -> WorkerStates]
  BY DEF WebhookInv, TypesOK
<1>2. at'[x] = a /\ \A y \in Workers \ {x} : at'[y] = at[y]
  BY <1>1
<1>3. TypesOK'
  BY <1>1 DEF WebhookInv, TypesOK
<1>4. \A d \in Deliveries \ at[x].locked :
         LastAttempt(d)' = LastAttempt(d) /\ Last(d)' = Last(d) /\ delivery'[d] = delivery[d]
  BY DEF LastAttempt, Last
<1>5. ASSUME NEW y \in Workers PROVE Own(y, at[y])'
  <2>1. CASE y = x
    BY <2>1, <1>2 DEF Own
  <2>2. CASE y # x
    <3>1. Own(y, at[y]) /\ at'[y] = at[y] /\ at[y].locked \cap at[x].locked = {}
      BY <1>2, <2>2 DEF WebhookInv, RowLocks
    <3>2. at[y].locked \subseteq Deliveries /\ accepted' = accepted
      BY <1>1 DEF WorkerStates
    <3>3. at[y].locked \subseteq Deliveries \ at[x].locked
      BY <3>1, <3>2
    <3>4. at[y].pc = "claim" =>
            /\ \A d \in at[y].locked : delivery'[d].status \in OpenStatus
            /\ \A d \in at[y].enabled : LastAttempt(d)' # "CANCELLED"
      BY <3>1, <3>3, <1>4 DEF Own
    <3>5. at[y].pc \in {"start", "finish"} =>
            /\ delivery'[at[y].job[1]].status = "PROCESSING"
            /\ Last(at[y].job[1])' = at[y].job[2]
      BY <3>1, <3>3, <1>4 DEF Own
    <3> QED BY <3>1, <3>2, <3>4, <3>5 DEF Own
  <2> QED BY <2>1, <2>2
<1>6. ASSUME NEW s \in Subscriptions PROVE DisableOK(s)'
  <2>1. disabling[s].held \subseteq Deliveries /\ disabling[s].held \cap at[x].locked = {}
    BY DEF WebhookInv, TypesOK, DisableStates, RowLocks
  <2>2. \A d \in disabling[s].held : delivery'[d] = delivery[d]
    BY <2>1
  <2> QED BY <2>2 DEF WebhookInv, DisableOK
<1>7. RowLocks'
  BY <1>2 DEF WebhookInv, RowLocks
<1>8. ASSUME NEW d \in Deliveries PROVE RowOK(d)'
  <2>1. CASE d \notin at[x].locked
    <3>1. /\ delivery'[d] = delivery[d] /\ attempt'[d] = attempt[d] /\ RowOK(d)
          /\ LastAttempt(d)' = LastAttempt(d) /\ Last(d)' = Last(d)
      BY <2>1, <1>4 DEF WebhookInv
    <3>2. subscription' = subscription /\ fanout' = fanout /\ accepted' = accepted
      OBVIOUS
    <3> QED BY <3>1, <3>2 DEF RowOK
  <2> QED BY <2>1
<1> QED BY <1>3, <1>5, <1>6, <1>7, <1>8 DEF WebhookInv

\* The start of an attempt: a job that runs twice finds it started.
LEMMA StartCommitInv ==
    ASSUME WebhookInv, NEW x \in Workers, StartCommit(x)
    PROVE  WebhookInv'
<1>0. at[x].pc = "start"
  BY DEF StartCommit
<1>d. PICK d \in Deliveries, n \in Numbers : at[x].job = <<d, n>>
  BY <1>0 DEF WebhookInv, Own, Jobs
<1> DEFINE go == d \in at[x].enabled
           queued == attempt[d][n] = "QUEUED"
           a == IF go /\ queued THEN [Idle EXCEPT !.pc = "send", !.job = at[x].job] ELSE Idle
<1>1. /\ at[x].job \in Jobs /\ at[x].job = <<d, n>>
      /\ at[x].locked = {d} /\ delivery[d].status = "PROCESSING" /\ Last(d) = n
  BY <1>0, <1>d DEF WebhookInv, Own, Jobs
<1>2. /\ delivery' = IF go THEN delivery ELSE [delivery EXCEPT ![d].status = "CANCELLED"]
      /\ attempt' = [attempt EXCEPT ![d][n] = IF ~queued THEN @ ELSE IF go THEN "SENDING" ELSE "CANCELLED"]
      /\ due' = IF go THEN due ELSE due \ {d}
      /\ at' = [at EXCEPT ![x] = a]
      /\ UNCHANGED <<subscription, fanout, queue, disabling, network>>
  BY <1>1 DEF StartCommit, Become
<1>3. /\ delivery \in [Deliveries -> DeliveryRows] /\ due \subseteq Deliveries
      /\ attempt \in [Deliveries -> [Numbers -> AttemptStatuses]]
      /\ at \in [Workers -> WorkerStates]
  BY DEF WebhookInv, TypesOK
<1>4. /\ a \in WorkerStates /\ a.locked = {}
      /\ a.pc = "idle" \/ (a.pc = "send" /\ a.job = <<d, n>> /\ queued)
  BY <1>1, IdleTypes DEF Idle, WorkerStates
<1>4a. at'[x] = a /\ \A y \in Workers \ {x} : at'[y] = at[y]
  BY <1>2, <1>3
<1> HIDE DEF a
<1>5. /\ delivery' \in [Deliveries -> DeliveryRows] /\ due' \subseteq Deliveries
      /\ delivery'[d].count = delivery[d].count
      /\ delivery'[d].status = IF go THEN "PROCESSING" ELSE "CANCELLED"
      /\ \A c \in Deliveries \ {d} : delivery'[c] = delivery[c]
  <2>1. delivery[d] \in DeliveryRows
    BY <1>1, <1>3
  <2> QED BY <1>1, <1>2, <1>3, <2>1 DEF DeliveryRows
<1>6. /\ attempt' \in [Deliveries -> [Numbers -> AttemptStatuses]]
      /\ attempt'[d][n] = IF ~queued THEN attempt[d][n] ELSE IF go THEN "SENDING" ELSE "CANCELLED"
      /\ \A m \in Numbers \ {n} : attempt'[d][m] = attempt[d][m]
      /\ \A c \in Deliveries \ {d} : attempt'[c] = attempt[c]
  BY <1>1, <1>2, <1>3 DEF AttemptStatuses
<1>7. RowOK(d) /\ SentOK
  BY <1>1 DEF WebhookInv
<1>8. n # 0
  BY <1>1, WebhooksAssumption DEF Numbers
<1>9. RowOK(d)'
  <2>1. LastAttempt(d) = attempt[d][n] /\ Last(d)' = n
    BY <1>1, <1>5, <1>8 DEF LastAttempt, Last
  <2>2. LastAttempt(d)' = attempt'[d][n]
    BY <2>1, <1>8 DEF LastAttempt
  <2>3. attempt[d][n] \in {"QUEUED", "SENDING", "CANCELLED"} /\ attempt'[d][n] \in {"QUEUED", "SENDING", "CANCELLED"}
    BY <1>1, <1>6, <1>7, <2>1 DEF RowOK
  <2>4. fanout[d[2]].pc = "committed"
    BY <1>1, <1>7 DEF RowOK, NoDelivery
  <2>5. attempt'[d][n] = "CANCELLED" /\ go => subscription[d[1]] = "disabled"
    BY <1>1, <1>6, <1>7, <2>1 DEF RowOK, OpenStatus
  <2>6. UNCHANGED <<subscription, fanout, accepted>>
    BY <1>2 DEF network
  <2>7. \A m \in Numbers : attempt'[d][m] = "NONE" <=> m > n
    BY <1>1, <1>6, <1>7, <2>3 DEF RowOK
  <2>8. \A m \in Numbers : attempt'[d][m] = "SUCCEEDED" => <<d, m>> \in accepted
    BY <1>6, <1>7, <2>3 DEF RowOK
  <2>9. \A m \in Numbers : m # n => attempt'[d][m] \in {"NONE", "FAILED", "ABANDONED", "CANCELLED"}
    BY <1>1, <1>6, <1>7 DEF RowOK
  <2> HIDE DEF go, queued
  <2> QED BY <1>5, <2>1, <2>2, <2>3, <2>4, <2>5, <2>6, <2>7, <2>8, <2>9 DEF RowOK, OpenStatus
<1>10. SentOK'
  <2>1. sent' = sent
    BY <1>2 DEF network
  <2>2. \A c \in Deliveries, m \in Numbers :
           attempt'[c][m] \in {"NONE", "QUEUED"} => attempt[c][m] \in {"NONE", "QUEUED"} /\ (<<c, m>> = <<d, n>> => ~queued)
    BY <1>1, <1>6
  <2>3. queued => sent[d][n] = 0 /\ \A y \in Workers : at[y].pc = "send" => at[y].job # <<d, n>>
    BY <1>1, <1>7 DEF SentOK
  <2> HIDE DEF go, queued
  <2>4. \A y \in Workers : at'[y].pc = "send" =>
           \/ y # x /\ at'[y] = at[y]
           \/ y = x /\ at'[y].job = <<d, n>> /\ queued
    BY <1>4, <1>4a
  <2>5. ASSUME NEW c \in Deliveries, NEW m \in Numbers, attempt'[c][m] \in {"NONE", "QUEUED"}
        PROVE  sent[c][m] = 0 /\ \A y \in Workers : at'[y].pc = "send" => at'[y].job # <<c, m>>
    <3>1. sent[c][m] = 0 /\ \A y \in Workers : at[y].pc = "send" => at[y].job # <<c, m>>
      BY <2>2, <2>5, <1>7 DEF SentOK
    <3> QED BY <3>1, <2>2, <2>4, <2>5
  <2>6. \A y \in Workers : at'[y].pc = "send" => sent[at'[y].job[1]][at'[y].job[2]] = 0
    BY <2>3, <2>4, <1>7 DEF SentOK
  <2>7. \A y, z \in Workers : y # z /\ at'[y].pc = "send" /\ at'[z].pc = "send" => at'[y].job # at'[z].job
    BY <2>3, <2>4, <1>7 DEF SentOK
  <2>8. \A c \in Deliveries, m \in Numbers : sent[c][m] <= 1
    BY <1>7 DEF SentOK
  <2> QED BY <2>1, <2>5, <2>6, <2>7, <2>8 DEF SentOK
<1>11. /\ \A c \in Deliveries \ at[x].locked : delivery'[c] = delivery[c] /\ attempt'[c] = attempt[c]
       /\ \A c \in at[x].locked : RowOK(c)'
  BY <1>1, <1>5, <1>6, <1>9
<1>12. /\ a.pc \in {"idle", "add"} \/ (a.pc = "send" /\ a.job \in Jobs)
       /\ at' = [at EXCEPT ![x] = a]
       /\ UNCHANGED <<subscription, fanout, queue, disabling, network>>
  BY <1>1, <1>2, <1>4
<1> HIDE DEF go, queued
<1> QED BY <1>4, <1>5, <1>6, <1>10, <1>11, <1>12, CommitRowsInv

\* The end of an attempt is put down to the attempt that was made: the lease is
\* still that of the job.
LEMMA FinishCommitInv ==
    ASSUME WebhookInv, NEW x \in Workers, FinishCommit(x)
    PROVE  WebhookInv'
<1>0. at[x].pc = "finish"
  BY DEF FinishCommit
<1>d. PICK d \in Deliveries, n \in Numbers : at[x].job = <<d, n>>
  BY <1>0 DEF WebhookInv, Own, Jobs
<1>1. /\ at[x].locked = {d} /\ delivery[d].status = "PROCESSING" /\ Last(d) = n
      /\ at[x].outcome = "ok" => <<d, n>> \in accepted
  BY <1>0, <1>d DEF WebhookInv, Own
<1>2. PICK e \in {"CANCELLED", "SUCCEEDED", "FAILED"}, st \in {"CANCELLED", "DELIVERED", "PENDING", "FAILED"} :
        /\ \/ e = "CANCELLED" /\ st = "CANCELLED"
           \/ e = "SUCCEEDED" /\ st = "DELIVERED" /\ at[x].outcome = "ok"
           \/ e = "FAILED" /\ st \in {"PENDING", "FAILED"}
        /\ IF attempt[d][n] = Expected(x)
           THEN /\ attempt' = [attempt EXCEPT ![d][n] = e]
                /\ delivery' = [delivery EXCEPT ![d].status = st]
                /\ due' = due \ {d}
           ELSE UNCHANGED rows
  <2>1. CASE d \notin at[x].enabled
    BY <1>d, <1>1, <2>1 DEF FinishCommit
  <2>2. CASE d \in at[x].enabled /\ at[x].outcome = "ok"
    BY <1>d, <1>1, <2>2 DEF FinishCommit
  <2>3. CASE d \in at[x].enabled /\ at[x].outcome # "ok"
    BY <1>d, <1>1, <2>3 DEF FinishCommit
  <2> QED BY <2>1, <2>2, <2>3
<1>3. /\ at' = [at EXCEPT ![x] = After(x)]
      /\ UNCHANGED <<subscription, fanout, queue, disabling, network>>
  BY DEF FinishCommit, Become
<1>4. /\ delivery \in [Deliveries -> DeliveryRows] /\ due \subseteq Deliveries
      /\ attempt \in [Deliveries -> [Numbers -> AttemptStatuses]]
      /\ at \in [Workers -> WorkerStates]
      /\ RowOK(d) /\ SentOK
  BY DEF WebhookInv, TypesOK
<1>5. PICK a \in WorkerStates : a = After(x) /\ a.pc \in {"idle", "add"} /\ a.locked = {}
  BY AfterIsIdle
<1>6. at'[x] = a /\ \A y \in Workers \ {x} : at'[y] = at[y]
  BY <1>3, <1>4, <1>5
<1>7. CASE attempt[d][n] # Expected(x)
  <2>1. UNCHANGED rows
    BY <1>2, <1>7
  <2>2. SentOK'
    BY <2>1, <1>3, <1>4, <1>5, <1>6 DEF SentOK, rows, network
  <2>3. RowOK(d)'
    BY <2>1, <1>3, <1>4 DEF RowOK, LastAttempt, Last, rows, network
  <2>4. /\ delivery' = delivery /\ attempt' = attempt /\ due' = due
    BY <2>1 DEF rows
  <2> QED BY <1>1, <1>3, <1>4, <1>5, <2>2, <2>3, <2>4, CommitRowsInv
<1>8. CASE attempt[d][n] = Expected(x)
  <2>1. attempt[d][n] \in {"QUEUED", "SENDING"}
    BY <1>8 DEF Expected
  <2>2. /\ delivery' \in [Deliveries -> DeliveryRows] /\ due' \subseteq Deliveries
        /\ delivery'[d].count = delivery[d].count
        /\ delivery'[d].status = st
        /\ \A c \in Deliveries \ {d} : delivery'[c] = delivery[c]
    <3>1. delivery[d] \in DeliveryRows
      BY <1>4
    <3>2. delivery' = [delivery EXCEPT ![d].status = st] /\ due' = due \ {d}
      BY <1>2, <1>8
    <3> QED BY <1>4, <3>1, <3>2 DEF DeliveryRows
  <2>3. /\ attempt' \in [Deliveries -> [Numbers -> AttemptStatuses]]
        /\ attempt'[d][n] = e
        /\ \A m \in Numbers \ {n} : attempt'[d][m] = attempt[d][m]
        /\ \A c \in Deliveries \ {d} : attempt'[c] = attempt[c]
    BY <1>2, <1>4, <1>8 DEF AttemptStatuses
  <2>4. n # 0
    BY WebhooksAssumption DEF Numbers
  <2>5. RowOK(d)'
    <3>1. Last(d)' = n /\ LastAttempt(d)' = e
      BY <1>1, <2>2, <2>3, <2>4 DEF LastAttempt, Last
    <3>2. fanout[d[2]].pc = "committed"
      BY <1>1, <1>4 DEF RowOK, NoDelivery
    <3>3. UNCHANGED <<subscription, fanout, accepted>>
      BY <1>3 DEF network
    <3>4. \A m \in Numbers : attempt'[d][m] = "NONE" <=> m > n
      BY <1>1, <1>4, <2>1, <2>3 DEF RowOK
    <3>5. \A m \in Numbers : attempt'[d][m] = "SUCCEEDED" => <<d, m>> \in accepted
      BY <1>1, <1>2, <1>4, <2>3 DEF RowOK
    <3>6. \A m \in Numbers : m # n => attempt'[d][m] \in {"NONE", "FAILED", "ABANDONED", "CANCELLED"}
      BY <1>1, <1>4, <2>3 DEF RowOK
    <3> QED BY <1>2, <2>2, <3>1, <3>2, <3>3, <3>4, <3>5, <3>6 DEF RowOK, OpenStatus
  <2>6. SentOK'
    <3>1. sent' = sent
      BY <1>3 DEF network
    <3>2. \A c \in Deliveries, m \in Numbers :
             attempt'[c][m] \in {"NONE", "QUEUED"} => attempt[c][m] \in {"NONE", "QUEUED"}
      BY <2>3
    <3>3. \A y \in Workers : at'[y].pc = "send" => at'[y] = at[y]
      BY <1>5, <1>6
    <3> QED BY <1>4, <3>1, <3>2, <3>3 DEF SentOK
  <2>7. /\ \A c \in Deliveries \ at[x].locked : delivery'[c] = delivery[c] /\ attempt'[c] = attempt[c]
        /\ \A c \in at[x].locked : RowOK(c)'
    BY <1>1, <2>2, <2>3, <2>5
  <2> QED BY <1>3, <1>5, <2>2, <2>3, <2>6, <2>7, CommitRowsInv
<1> QED BY <1>7, <1>8

\* A claim abandons what is open, and numbers the next attempt or ends the
\* delivery.
LEMMA ClaimCommitInv ==
    ASSUME WebhookInv, NEW w \in Workers, ClaimCommit(w)
    PROVE  WebhookInv'
<1> DEFINE again == Claimed(w)
           L == at[w].locked
<1>1. /\ at[w].pc = "claim" /\ L = at[w].enabled \cup at[w].disabled
      /\ due' = due \ L
      /\ UNCHANGED <<subscription, fanout, queue, disabling, network>>
  BY DEF ClaimCommit
<1>2. /\ L \subseteq Deliveries /\ at[w].enabled \cap at[w].disabled = {}
      /\ \A d \in L : delivery[d].status \in OpenStatus
      /\ \A d \in at[w].enabled : LastAttempt(d) # "CANCELLED"
      /\ again \subseteq at[w].enabled
      /\ \A d \in at[w].enabled : d \in again <=> Last(d) < MaxAttempts
  BY <1>1 DEF WebhookInv, TypesOK, WorkerStates, Own, Claimed
<1>3. /\ delivery \in [Deliveries -> DeliveryRows] /\ due \subseteq Deliveries
      /\ attempt \in [Deliveries -> [Numbers -> AttemptStatuses]]
      /\ at \in [Workers -> WorkerStates]
      /\ SentOK
  BY DEF WebhookInv, TypesOK
<1>4. MaxAttempts \in Nat /\ MaxAttempts > 0
  BY WebhooksAssumption
<1>5. \A d \in Deliveries : Last(d) \in 0..MaxAttempts
  BY <1>3 DEF Last, DeliveryRows
<1>6. \A d \in Deliveries : delivery'[d] =
         CASE d \in again -> [status |-> "PROCESSING", count |-> Last(d) + 1]
           [] d \in at[w].enabled \ again -> [delivery[d] EXCEPT !.status = "FAILED"]
           [] d \in at[w].disabled -> [delivery[d] EXCEPT !.status = "CANCELLED"]
           [] OTHER -> delivery[d]
  BY DEF ClaimCommit
<1>7. \A d \in Deliveries, n \in Numbers : attempt'[d][n] =
         CASE d \in again /\ n = Last(d) + 1 -> "QUEUED"
           [] d \in L /\ attempt[d][n] \in OpenAttempt -> "ABANDONED"
           [] OTHER -> attempt[d][n]
  BY DEF ClaimCommit, Recovered
<1>8. \A d \in Deliveries \ L : delivery'[d] = delivery[d] /\ \A n \in Numbers : attempt'[d][n] = attempt[d][n]
  BY <1>1, <1>2, <1>6, <1>7
<1>9. \A d \in again : delivery'[d] = [status |-> "PROCESSING", count |-> Last(d) + 1]
  BY <1>1, <1>2, <1>6
<1>10. \A d \in at[w].enabled \ again : delivery'[d] = [delivery[d] EXCEPT !.status = "FAILED"]
  BY <1>2, <1>1, <1>6
<1>11. \A d \in at[w].disabled : delivery'[d] = [delivery[d] EXCEPT !.status = "CANCELLED"]
  BY <1>2, <1>1, <1>6
<1> HIDE DEF again, L
<1>12. delivery' \in [Deliveries -> DeliveryRows]
  <2>1. delivery' = [d \in Deliveries |-> delivery'[d]]
    BY DEF ClaimCommit
  <2>2. ASSUME NEW d \in Deliveries PROVE delivery'[d] \in DeliveryRows
    <3>0. delivery[d] \in DeliveryRows
      BY <1>3
    <3>1. CASE d \in again
      <4>1. Last(d) + 1 \in 0..MaxAttempts
        BY <1>2, <1>4, <1>5, <3>1
      <4>2. delivery'[d] = [status |-> "PROCESSING", count |-> Last(d) + 1]
        BY <1>9, <3>1
      <4> QED BY <4>1, <4>2 DEF DeliveryRows
    <3>2. CASE d \in at[w].enabled \ again
      BY <3>0, <3>2, <1>10 DEF DeliveryRows
    <3>3. CASE d \in at[w].disabled
      BY <3>0, <3>3, <1>11 DEF DeliveryRows
    <3>4. CASE d \notin L
      BY <3>0, <3>4, <1>8
    <3> QED BY <3>1, <3>2, <3>3, <3>4, <1>1
  <2> QED BY <2>1, <2>2
<1>13. attempt' \in [Deliveries -> [Numbers -> AttemptStatuses]]
  <2>1. attempt' = [d \in Deliveries |-> [n \in Numbers |-> attempt'[d][n]]]
    BY DEF ClaimCommit
  <2>2. \A d \in Deliveries, n \in Numbers : attempt'[d][n] \in AttemptStatuses
    BY <1>3, <1>7 DEF AttemptStatuses
  <2> QED BY <2>1, <2>2
<1>14. ASSUME NEW d \in L PROVE RowOK(d)'
  <2>0. /\ d \in Deliveries /\ RowOK(d) /\ delivery[d].status \in OpenStatus
        /\ delivery[d] \in DeliveryRows
    BY <1>2, <1>3 DEF WebhookInv
  <2>1. LastAttempt(d) \in {"NONE", "FAILED", "QUEUED", "SENDING", "CANCELLED"}
    BY <2>0 DEF RowOK, OpenStatus
  <2>2. \A n \in Numbers : n \in Nat /\ n > 0 /\ n <= MaxAttempts
    BY <1>4 DEF Numbers
  <2>3. \A n \in Numbers : n = Last(d) => attempt[d][n] = LastAttempt(d)
    BY <2>2 DEF LastAttempt
  <2>4. \A n \in Numbers : attempt[d][n] \in {"NONE", "FAILED", "ABANDONED", "CANCELLED", "QUEUED", "SENDING"}
    BY <2>0, <2>1, <2>3 DEF RowOK
  <2>5. /\ fanout[d[2]].pc = "committed"
        /\ UNCHANGED <<subscription, fanout, accepted>>
    BY <1>1, <2>0 DEF RowOK, NoDelivery, OpenStatus, network
  <2>6. Last(d) \in Nat /\ Last(d) <= MaxAttempts
    BY <1>4, <1>5, <2>0
  <2>7. CASE d \in again
    <3>1. delivery'[d].status = "PROCESSING" /\ Last(d)' = Last(d) + 1
      <4>1. delivery'[d] = [status |-> "PROCESSING", count |-> Last(d) + 1]
        BY <1>9, <2>7
      <4> QED BY <4>1 DEF Last
    <3>2. Last(d) + 1 \in Numbers /\ Last(d) + 1 # 0
      BY <1>2, <1>4, <2>6, <2>7 DEF Numbers
    <3>3. attempt'[d][Last(d) + 1] = "QUEUED"
      <4>1. PICK m \in Numbers : m = Last(d) + 1
        BY <3>2
      <4>2. attempt'[d][m] = "QUEUED"
        <5>1. attempt'[d][m] = CASE d \in again /\ m = Last(d) + 1 -> "QUEUED"
                               [] d \in L /\ attempt[d][m] \in OpenAttempt -> "ABANDONED"
                               [] OTHER -> attempt[d][m]
          BY <1>7, <2>0
        <5>2. attempt[d][m] \notin OpenAttempt
          BY <2>0, <2>6, <4>1 DEF RowOK, OpenAttempt
        <5> QED BY <5>1, <5>2, <2>7, <4>1
      <4> QED BY <4>1, <4>2
    <3>4. \A n \in Numbers : n # Last(d) + 1 =>
             /\ attempt'[d][n] = "NONE" <=> attempt[d][n] = "NONE"
             /\ attempt'[d][n] \in {"NONE", "FAILED", "ABANDONED", "CANCELLED"}
      BY <1>7, <2>0, <2>4 DEF OpenAttempt
    <3>5. \A n \in Numbers : n # Last(d) + 1 => (n > Last(d) <=> n > Last(d) + 1)
      BY <2>2, <2>6
    <3>6. LastAttempt(d)' = "QUEUED"
      BY <3>1, <3>2, <3>3 DEF LastAttempt
    <3>7. \A n \in Numbers : attempt'[d][n] = "NONE" <=> n > Last(d) + 1
      BY <2>0, <2>6, <3>3, <3>4, <3>5 DEF RowOK
    <3>8. \A n \in Numbers : attempt'[d][n] # "SUCCEEDED"
      BY <3>3, <3>4
    <3> QED BY <2>5, <3>1, <3>4, <3>6, <3>7, <3>8 DEF RowOK, OpenStatus
  <2>8. CASE d \notin again
    <3>1. \A n \in Numbers :
             /\ attempt'[d][n] = IF attempt[d][n] \in OpenAttempt THEN "ABANDONED" ELSE attempt[d][n]
             /\ attempt'[d][n] = "NONE" <=> attempt[d][n] = "NONE"
             /\ attempt'[d][n] \in {"NONE", "FAILED", "ABANDONED", "CANCELLED"}
      BY <1>7, <2>0, <2>4, <2>8 DEF OpenAttempt
    <3>2. /\ delivery'[d].status = IF d \in at[w].enabled THEN "FAILED" ELSE "CANCELLED"
          /\ delivery'[d].count = delivery[d].count
      <4>1. CASE d \in at[w].enabled
        <5>1. delivery'[d] = [delivery[d] EXCEPT !.status = "FAILED"]
          BY <1>10, <2>8, <4>1
        <5> QED BY <2>0, <4>1, <5>1 DEF DeliveryRows
      <4>2. CASE d \notin at[w].enabled
        <5>1. delivery'[d] = [delivery[d] EXCEPT !.status = "CANCELLED"]
          BY <1>1, <1>11, <4>2
        <5> QED BY <2>0, <4>2, <5>1 DEF DeliveryRows
      <4> QED BY <4>1, <4>2
    <3>3. Last(d)' = Last(d)
      BY <3>2 DEF Last
    <3>4. LastAttempt(d)' # "SUCCEEDED"
      <4>1. Last(d) = 0 => LastAttempt(d)' = "NONE"
        BY <3>3 DEF LastAttempt
      <4>2. Last(d) # 0 => Last(d) \in Numbers /\ LastAttempt(d)' = attempt'[d][Last(d)]
        BY <3>3, <2>6, <1>4 DEF LastAttempt, Numbers
      <4> QED BY <4>1, <4>2, <3>1
    <3>5. d \in at[w].enabled => LastAttempt(d)' \in {"FAILED", "ABANDONED"}
      <4> SUFFICES ASSUME d \in at[w].enabled PROVE LastAttempt(d)' \in {"FAILED", "ABANDONED"}
        OBVIOUS
      <4>1. Last(d) = MaxAttempts /\ LastAttempt(d) # "CANCELLED"
        BY <1>2, <1>4, <2>6, <2>8
      <4>2. Last(d) \in Numbers /\ Last(d) # 0
        BY <4>1, <1>4 DEF Numbers
      <4>3. LastAttempt(d)' = attempt'[d][Last(d)] /\ LastAttempt(d) = attempt[d][Last(d)]
        BY <4>2, <3>3 DEF LastAttempt
      <4>4. attempt[d][Last(d)] # "NONE"
        BY <4>2, <2>0, <2>6 DEF RowOK
      <4> QED BY <2>1, <3>1, <4>1, <4>2, <4>3, <4>4 DEF OpenAttempt
    <3>6. \A n \in Numbers : attempt'[d][n] = "NONE" <=> n > Last(d)
      BY <2>0, <3>1 DEF RowOK
    <3>7. \A n \in Numbers : attempt'[d][n] # "SUCCEEDED"
      BY <3>1
    <3> QED BY <2>5, <3>1, <3>2, <3>3, <3>4, <3>5, <3>6, <3>7 DEF RowOK, OpenStatus
  <2> QED BY <2>7, <2>8
<1>15. PICK a \in WorkerStates :
         at' = [at EXCEPT ![w] = a] /\ a.pc = "add" /\ a.locked = {}
  <2> DEFINE a == [Idle EXCEPT !.pc = "add", !.jobs = {<<d, Last(d) + 1>> : d \in again}]
  <2>1. {<<d, Last(d) + 1>> : d \in again} \in SUBSET Jobs
    <3> SUFFICES ASSUME NEW d \in again PROVE <<d, Last(d) + 1>> \in Jobs
      OBVIOUS
    <3>1. d \in Deliveries /\ Last(d) \in 0..MaxAttempts /\ Last(d) < MaxAttempts
      BY <1>1, <1>2, <1>5
    <3> QED BY <3>1, <1>4 DEF Jobs, Numbers
  <2>2. a \in WorkerStates /\ a.pc = "add" /\ a.locked = {}
    BY <2>1, IdleTypes DEF Idle, WorkerStates
  <2>3. at' = [at EXCEPT ![w] = a]
    BY DEF ClaimCommit, Become, again
  <2> QED BY <2>2, <2>3
<1>16. SentOK'
  <2>1. sent' = sent
    BY <1>1 DEF network
  <2>2. \A d \in Deliveries, n \in Numbers :
           attempt'[d][n] \in {"NONE", "QUEUED"} => attempt[d][n] \in {"NONE", "QUEUED"}
    <3> SUFFICES ASSUME NEW d \in Deliveries, NEW n \in Numbers, d \in again, n = Last(d) + 1
                 PROVE  attempt[d][n] = "NONE"
      BY <1>7
    <3>1. n > Last(d)
      BY <1>5
    <3>2. RowOK(d)
      BY DEF WebhookInv
    <3> QED BY <3>1, <3>2 DEF RowOK
  <2>3. \A y \in Workers : at'[y].pc = "send" => at'[y] = at[y]
    BY <1>3, <1>15
  <2>4. SentOK
    BY <1>3
  <2> QED BY <2>1, <2>2, <2>3, <2>4 DEF SentOK
<1>17. \A d \in Deliveries \ L : attempt'[d] = attempt[d]
  BY <1>3, <1>8, <1>13
<1>18. /\ \A d \in Deliveries \ at[w].locked : delivery'[d] = delivery[d] /\ attempt'[d] = attempt[d]
       /\ \A d \in at[w].locked : RowOK(d)'
       /\ due' \subseteq Deliveries
  BY <1>1, <1>3, <1>8, <1>14, <1>17 DEF L
<1> QED BY <1>1, <1>12, <1>13, <1>15, <1>16, <1>18, CommitRowsInv

-----------------------------------------------------------------------------
(* Disables, fan-out and time *)

\* A disable moves on without writing a row: it may lock free rows of its
\* subscription that are open.
LEMMA DisableMoveInv ==
    ASSUME WebhookInv, NEW s \in Subscriptions, NEW b \in DisableStates,
           disabling' = [disabling EXCEPT ![s] = b],
           \A d \in b.seen : d[1] = s,
           \A d \in b.held : /\ d[1] = s /\ delivery[d].status \in OpenStatus
                             /\ d \in disabling[s].held \/ Free(d),
           \A o \in b.attempts : o[1][1] = s,
           UNCHANGED <<subscription, fanout, rows, queue, at, network>>
    PROVE  WebhookInv'
<1> USE DEF rows, network
<1>1. disabling \in [Subscriptions -> DisableStates]
  BY DEF WebhookInv, TypesOK
<1>2. disabling'[s] = b /\ \A r \in Subscriptions \ {s} : disabling'[r] = disabling[r]
  BY <1>1
<1>3. TypesOK'
  BY <1>1 DEF WebhookInv, TypesOK
<1>4. ASSUME NEW x \in Workers PROVE Own(x, at[x])'
  BY DEF WebhookInv, Own, LastAttempt, Last
<1>5. ASSUME NEW r \in Subscriptions PROVE DisableOK(r)'
  <2>1. CASE r = s
    BY <1>2, <2>1 DEF DisableOK
  <2>2. CASE r # s
    BY <1>2, <2>2 DEF DisableOK, WebhookInv
  <2> QED BY <2>1, <2>2
<1>6. RowLocks'
  BY <1>2 DEF WebhookInv, RowLocks, Free
<1>7. ASSUME NEW d \in Deliveries PROVE RowOK(d)'
  BY DEF WebhookInv, RowOK, LastAttempt, Last
<1>8. SentOK'
  BY DEF WebhookInv, SentOK
<1> QED BY <1>3, <1>4, <1>5, <1>6, <1>7, <1>8 DEF WebhookInv

\* disable up to its commit, and its end without one.
LEMMA DisableInv ==
    ASSUME WebhookInv, NEW s \in Subscriptions,
           DisableFind(s) \/ DisableDeliveries(s) \/ DisableAttempts(s) \/ DisableAbort(s)
    PROVE  WebhookInv'
<1>1. /\ disabling \in [Subscriptions -> DisableStates] /\ disabling[s] \in DisableStates
      /\ DisableOK(s) /\ UNCHANGED <<subscription, fanout, rows, queue, at, network>>
  BY DEF WebhookInv, TypesOK, DisableFind, DisableDeliveries, DisableAttempts, DisableAbort
<1>2. CASE DisableFind(s)
  <2> DEFINE seen == {d \in {s} \X Events : delivery[d].status \in OpenStatus}
             b == [NoDisable EXCEPT !.pc = "found", !.seen = seen]
  <2>1. seen \in SUBSET Deliveries /\ \A d \in seen : d[1] = s
    BY DEF Deliveries
  <2>2. disabling' = [disabling EXCEPT ![s] = b]
    BY <1>2 DEF DisableFind
  <2> HIDE DEF seen
  <2>3. b \in DisableStates /\ b.seen = seen /\ b.held = {} /\ b.attempts = {}
    BY <2>1 DEF NoDisable, DisableStates
  <2> HIDE DEF b
  <2> QED BY <1>1, <2>1, <2>2, <2>3, DisableMoveInv
<1>3. CASE DisableDeliveries(s)
  <2> DEFINE held == {d \in disabling[s].seen : delivery[d].status \in OpenStatus}
             b == [disabling[s] EXCEPT !.pc = "deliveries", !.held = held]
  <2>1. /\ held \in SUBSET Deliveries
        /\ \A d \in held : d[1] = s /\ delivery[d].status \in OpenStatus /\ Free(d)
    BY <1>1, <1>3 DEF DisableStates, DisableOK, DisableDeliveries
  <2>2. disabling' = [disabling EXCEPT ![s] = b]
    BY <1>1, <1>3 DEF DisableDeliveries
  <2> HIDE DEF held
  <2>3. /\ b \in DisableStates /\ b.seen = disabling[s].seen /\ b.held = held
        /\ b.attempts = disabling[s].attempts
    BY <1>1, <2>1 DEF DisableStates
  <2> HIDE DEF b
  <2>4. (\A d \in b.seen : d[1] = s) /\ (\A o \in b.attempts : o[1][1] = s)
    BY <1>1, <2>3 DEF DisableOK
  <2> QED BY <1>1, <2>1, <2>2, <2>3, <2>4, DisableMoveInv
<1>4. CASE DisableAttempts(s)
  <2> DEFINE open == {o \in ({s} \X Events) \X Numbers : attempt[o[1]][o[2]] \in OpenAttempt}
             b == [disabling[s] EXCEPT !.pc = "attempts", !.attempts = open]
  <2>1. open \in SUBSET Jobs /\ \A o \in open : o[1][1] = s
    BY DEF Jobs, Deliveries
  <2>2. disabling' = [disabling EXCEPT ![s] = b]
    BY <1>1, <1>4 DEF DisableAttempts
  <2> HIDE DEF open
  <2>3. /\ b \in DisableStates /\ b.seen = disabling[s].seen /\ b.held = disabling[s].held
        /\ b.attempts = open
    BY <1>1, <2>1 DEF DisableStates
  <2> HIDE DEF b
  <2>4. /\ \A d \in b.seen : d[1] = s
        /\ \A d \in b.held : d[1] = s /\ delivery[d].status \in OpenStatus /\ d \in disabling[s].held
    BY <1>1, <2>3 DEF DisableOK
  <2> QED BY <1>1, <2>1, <2>2, <2>3, <2>4, DisableMoveInv
<1>5. CASE DisableAbort(s)
  <2>1. disabling' = [disabling EXCEPT ![s] = NoDisable]
    BY <1>5 DEF DisableAbort
  <2>2. NoDisable.seen = {} /\ NoDisable.held = {} /\ NoDisable.attempts = {}
    BY DEF NoDisable
  <2> QED BY <1>1, <2>1, <2>2, IdleTypes, DisableMoveInv
<1> QED BY <1>2, <1>3, <1>4, <1>5

\* A new subscription, the transaction of an event begins, or a backoff or a
\* lease ends: no row is written.
LEMMA QuietInv ==
    ASSUME WebhookInv,
           \/ \E s \in Subscriptions : Subscribe(s)
           \/ \E e \in Events : FanOut(e)
           \/ \E d \in Deliveries : Expire(d)
    PROVE  WebhookInv'
<1> USE DEF rows, network
<1>1. /\ delivery' = delivery /\ attempt' = attempt /\ at' = at /\ disabling' = disabling
      /\ sent' = sent /\ accepted' = accepted /\ queue' = queue
  BY DEF Subscribe, FanOut, Expire
<1>2. TypesOK'
  <2>1. CASE \E s \in Subscriptions : Subscribe(s)
    BY <1>1, <2>1 DEF WebhookInv, TypesOK, Subscribe
  <2>2. CASE \E e \in Events : FanOut(e)
    <3>1. PICK e \in Events : fanout' = [fanout EXCEPT ![e] = [pc |-> "open",
                                to |-> {s \in Subscriptions : subscription[s] = "enabled"}]]
      BY <2>2 DEF FanOut
    <3>2. subscription' = subscription /\ due' = due
      BY <2>2 DEF FanOut
    <3> QED BY <1>1, <3>1, <3>2 DEF WebhookInv, TypesOK
  <2>3. CASE \E d \in Deliveries : Expire(d)
    BY <1>1, <2>3 DEF WebhookInv, TypesOK, Expire
  <2> QED BY <2>1, <2>2, <2>3
<1>3. ASSUME NEW x \in Workers PROVE Own(x, at[x])'
  BY <1>1 DEF WebhookInv, Own, LastAttempt, Last
<1>4. ASSUME NEW s \in Subscriptions PROVE DisableOK(s)'
  BY <1>1 DEF WebhookInv, DisableOK
<1>5. RowLocks' /\ SentOK'
  BY <1>1 DEF WebhookInv, RowLocks, SentOK
<1>6. ASSUME NEW d \in Deliveries PROVE RowOK(d)'
  <2>1. /\ RowOK(d) /\ LastAttempt(d)' = LastAttempt(d) /\ Last(d)' = Last(d)
        /\ d[1] \in Subscriptions /\ d[2] \in Events
    BY <1>1 DEF WebhookInv, LastAttempt, Last, Deliveries
  <2>2. subscription[d[1]] = "disabled" => subscription'[d[1]] = "disabled"
    BY <2>1 DEF WebhookInv, TypesOK, Subscribe, FanOut, Expire
  <2>3. fanout'[d[2]].pc # "committed" => fanout[d[2]].pc # "committed"
    BY <2>1 DEF WebhookInv, TypesOK, Subscribe, FanOut, Expire
  <2> QED BY <1>1, <2>1, <2>2, <2>3 DEF RowOK
<1> QED BY <1>2, <1>3, <1>4, <1>5, <1>6 DEF WebhookInv

\* The deliveries of an event appear: until then there is nothing under these
\* keys, so nobody has locked one of them or been given a job for it.
LEMMA FanOutCommitInv ==
    ASSUME WebhookInv, NEW e \in Events, FanOutCommit(e)
    PROVE  WebhookInv'
<1> DEFINE new == fanout[e].to \X {e}
<1>1. /\ fanout[e].pc = "open" /\ fanout' = [fanout EXCEPT ![e].pc = "committed"]
      /\ delivery' = [d \in Deliveries |->
                        IF d \in new THEN [NoDelivery EXCEPT !.status = "PENDING"] ELSE delivery[d]]
      /\ due' = due \cup new
      /\ UNCHANGED <<subscription, attempt, queue, at, disabling, network>>
  BY DEF FanOutCommit
<1>2. TypesOK
  BY DEF WebhookInv
<1>3. new \subseteq Deliveries
  BY <1>2 DEF TypesOK, Deliveries
<1>4. \A d \in new : delivery[d] = NoDelivery /\ RowOK(d) /\ Last(d) = 0 /\ delivery[d].status = "NONE"
  <2> SUFFICES ASSUME NEW d \in new
               PROVE  delivery[d] = NoDelivery /\ RowOK(d) /\ Last(d) = 0 /\ delivery[d].status = "NONE"
    OBVIOUS
  <2>1. RowOK(d) /\ d[2] = e
    BY <1>3 DEF WebhookInv
  <2>2. delivery[d] = NoDelivery
    BY <1>1, <2>1 DEF RowOK
  <2> QED BY <2>1, <2>2 DEF NoDelivery, Last
<1>5. /\ \A d \in new : delivery'[d].status = "PENDING" /\ delivery'[d].count = 0
      /\ \A d \in Deliveries \ new : delivery'[d] = delivery[d]
      /\ delivery' \in [Deliveries -> DeliveryRows]
  <2>1. [NoDelivery EXCEPT !.status = "PENDING"] = [status |-> "PENDING", count |-> 0]
    BY DEF NoDelivery
  <2>2. [status |-> "PENDING", count |-> 0] \in DeliveryRows
    BY WebhooksAssumption DEF DeliveryRows
  <2> QED BY <1>1, <1>2, <1>3, <2>1, <2>2 DEF TypesOK
<1>6. \A d \in Deliveries : Last(d)' = Last(d) /\ LastAttempt(d)' = LastAttempt(d)
  <2>1. \A d \in Deliveries : Last(d)' = Last(d)
    BY <1>4, <1>5 DEF Last
  <2> QED BY <1>1, <2>1 DEF LastAttempt
<1>7. /\ fanout' \in [Events -> [pc : {"none", "open", "committed"}, to : SUBSET Subscriptions]]
      /\ fanout'[e].pc = "committed"
      /\ \A f \in Events \ {e} : fanout'[f] = fanout[f]
  BY <1>1, <1>2 DEF TypesOK
<1>8. UNCHANGED <<subscription, attempt, queue, at, disabling, sent, accepted>>
  BY <1>1 DEF network
<1>9. due' \subseteq Deliveries
  BY <1>1, <1>2, <1>3 DEF TypesOK
<1> HIDE DEF new
<1>10. TypesOK'
  BY <1>2, <1>5, <1>7, <1>8, <1>9 DEF TypesOK
<1>11. ASSUME NEW d \in Deliveries, delivery[d].status # "NONE" PROVE delivery'[d] = delivery[d]
  BY <1>4, <1>5, <1>11
<1>12. ASSUME NEW x \in Workers PROVE Own(x, at[x])'
  <2>1. Own(x, at[x]) /\ at[x] \in WorkerStates
    BY <1>2 DEF WebhookInv, TypesOK
  <2>2. at[x].locked \subseteq Deliveries
    BY <2>1 DEF WorkerStates
  <2>3. at[x].pc = "claim" =>
          /\ \A d \in at[x].locked : delivery'[d].status \in OpenStatus
          /\ \A d \in at[x].enabled : LastAttempt(d)' # "CANCELLED"
    <3> SUFFICES ASSUME at[x].pc = "claim"
                 PROVE  /\ \A d \in at[x].locked : delivery'[d].status \in OpenStatus
                        /\ \A d \in at[x].enabled : LastAttempt(d)' # "CANCELLED"
      OBVIOUS
    <3>1. /\ \A d \in at[x].locked : delivery[d].status \in OpenStatus
          /\ \A d \in at[x].enabled : LastAttempt(d) # "CANCELLED"
          /\ at[x].enabled \subseteq at[x].locked
      BY <2>1 DEF Own
    <3> QED BY <2>2, <3>1, <1>6, <1>11 DEF OpenStatus
  <2>4. at[x].pc \in {"start", "finish"} =>
          /\ delivery'[at[x].job[1]].status = "PROCESSING"
          /\ Last(at[x].job[1])' = at[x].job[2]
    <3> SUFFICES ASSUME at[x].pc \in {"start", "finish"}
                 PROVE  /\ delivery'[at[x].job[1]].status = "PROCESSING"
                        /\ Last(at[x].job[1])' = at[x].job[2]
      BY <1>8
    <3>1. /\ at[x].job[1] \in Deliveries /\ delivery[at[x].job[1]].status = "PROCESSING"
          /\ Last(at[x].job[1]) = at[x].job[2]
      BY <2>1 DEF Own, Jobs
    <3>2. delivery'[at[x].job[1]] = delivery[at[x].job[1]]
      BY <3>1, <1>11
    <3> QED BY <1>8, <3>1, <3>2 DEF Last
  <2> QED BY <1>8, <2>1, <2>3, <2>4 DEF Own
<1>13. ASSUME NEW s \in Subscriptions PROVE DisableOK(s)'
  <2>1. DisableOK(s) /\ disabling[s].held \subseteq Deliveries
    BY <1>2 DEF WebhookInv, TypesOK, DisableStates
  <2>2. \A d \in disabling[s].held : delivery'[d].status \in OpenStatus
    BY <2>1, <1>11 DEF DisableOK, OpenStatus
  <2> QED BY <1>8, <2>1, <2>2 DEF DisableOK
<1>14. RowLocks' /\ SentOK'
  BY <1>8 DEF WebhookInv, RowLocks, SentOK
<1>15. ASSUME NEW d \in Deliveries PROVE RowOK(d)'
  <2>0. RowOK(d) /\ d[2] \in Events
    BY DEF WebhookInv, Deliveries
  <2>1. CASE d \in new
    <3>1. LastAttempt(d) = "NONE" /\ d[2] = e
      BY <1>4, <2>1 DEF LastAttempt, new
    <3> QED BY <2>0, <2>1, <3>1, <1>5, <1>6, <1>7, <1>8 DEF RowOK, OpenStatus
  <2>2. CASE d \notin new
    <3>1. delivery'[d] = delivery[d]
      BY <1>5, <2>2
    <3>2. fanout'[d[2]].pc # "committed" => fanout[d[2]].pc # "committed"
      BY <1>7, <2>0
    <3> QED BY <2>0, <3>1, <3>2, <1>6, <1>8 DEF RowOK
  <2> QED BY <2>1, <2>2
<1> QED BY <1>10, <1>12, <1>13, <1>14, <1>15 DEF WebhookInv

\* The commit of a disable cancels the rows it has locked, and attempts of other
\* rows too: those of a row that a claim has got to it waits for, and the others
\* belong to a subscription that is disabled from now on.
LEMMA DisableCommitInv ==
    ASSUME WebhookInv, NEW s \in Subscriptions, DisableCommit(s)
    PROVE  WebhookInv'
<1> DEFINE held == disabling[s].held
           open == {o \in disabling[s].attempts : attempt[o[1]][o[2]] \in OpenAttempt}
<1>1. /\ \A o \in disabling[s].attempts : ~Abandoned(o[1])
      /\ subscription' = [subscription EXCEPT ![s] = "disabled"]
      /\ delivery' = [d \in Deliveries |->
                        IF d \in held THEN [delivery[d] EXCEPT !.status = "CANCELLED"]
                        ELSE delivery[d]]
      /\ attempt' = [d \in Deliveries |-> [n \in Numbers |->
                        IF <<d, n>> \in open THEN "CANCELLED" ELSE attempt[d][n]]]
      /\ due' = due \ held
      /\ disabling' = [disabling EXCEPT ![s] = NoDisable]
      /\ fanout' = fanout /\ queue' = queue /\ at' = at /\ sent' = sent /\ accepted' = accepted
  BY DEF DisableCommit, network
<1>2. TypesOK /\ DisableOK(s) /\ RowLocks /\ SentOK
  BY DEF WebhookInv
<1>3. /\ held \subseteq Deliveries
      /\ \A d \in held : d[1] = s /\ delivery[d].status \in OpenStatus
  BY <1>2 DEF TypesOK, DisableStates, DisableOK
<1>4. \A d \in Deliveries, n \in Numbers : <<d, n>> \in open =>
         d[1] = s /\ ~Abandoned(d) /\ attempt[d][n] \in OpenAttempt
  <2> SUFFICES ASSUME NEW d \in Deliveries, NEW n \in Numbers, <<d, n>> \in open
               PROVE  d[1] = s /\ ~Abandoned(d) /\ attempt[d][n] \in OpenAttempt
    OBVIOUS
  <2>1. <<d, n>> \in disabling[s].attempts /\ attempt[d][n] \in OpenAttempt
    OBVIOUS
  <2>2. <<d, n>>[1] = d
    OBVIOUS
  <2> QED BY <1>1, <1>2, <2>1, <2>2 DEF DisableOK
<1>5. \A d \in Deliveries, n \in Numbers :
         attempt'[d][n] = IF <<d, n>> \in open THEN "CANCELLED" ELSE attempt[d][n]
  BY <1>1
<1>6. attempt' \in [Deliveries -> [Numbers -> AttemptStatuses]]
  BY <1>1, <1>2 DEF TypesOK, AttemptStatuses
<1> HIDE DEF open
<1>7. /\ delivery' \in [Deliveries -> DeliveryRows]
      /\ \A d \in held : delivery'[d].status = "CANCELLED" /\ delivery'[d].count = delivery[d].count
      /\ \A d \in Deliveries \ held : delivery'[d] = delivery[d]
  BY <1>1, <1>2, <1>3 DEF TypesOK, DeliveryRows
<1>8. /\ subscription' \in [Subscriptions -> {"none", "enabled", "disabled"}]
      /\ subscription'[s] = "disabled"
      /\ \A r \in Subscriptions \ {s} : subscription'[r] = subscription[r]
  BY <1>1, <1>2 DEF TypesOK
<1>9. /\ disabling' \in [Subscriptions -> DisableStates]
      /\ disabling'[s] = NoDisable
      /\ \A r \in Subscriptions \ {s} : disabling'[r] = disabling[r]
  BY <1>1, <1>2, IdleTypes DEF TypesOK
<1>10. NoDisable.seen = {} /\ NoDisable.held = {} /\ NoDisable.attempts = {}
  BY DEF NoDisable
<1>11. due' \subseteq Deliveries
  BY <1>1, <1>2 DEF TypesOK
<1> HIDE DEF held
<1>12. TypesOK'
  BY <1>1, <1>2, <1>6, <1>7, <1>8, <1>9, <1>11 DEF TypesOK
<1>13. \A d \in Deliveries : Last(d)' = Last(d)
  BY <1>3, <1>7 DEF Last
<1>14. \A d \in Deliveries : Last(d) \in 0..MaxAttempts
  BY <1>2 DEF TypesOK, DeliveryRows, Last
<1>15. ASSUME NEW d \in Deliveries
       PROVE  \/ LastAttempt(d)' = LastAttempt(d)
              \/ /\ LastAttempt(d) \in OpenAttempt /\ LastAttempt(d)' = "CANCELLED"
                 /\ d[1] = s /\ ~Abandoned(d)
  <2>1. CASE Last(d) = 0
    BY <2>1, <1>13 DEF LastAttempt
  <2>2. CASE Last(d) # 0
    <3>1. PICK n \in Numbers : n = Last(d)
      BY <1>14, <2>2, WebhooksAssumption DEF Numbers
    <3>2. LastAttempt(d) = attempt[d][n] /\ LastAttempt(d)' = attempt'[d][n]
      BY <3>1, <2>2, <1>13 DEF LastAttempt
    <3> QED BY <3>2, <1>4, <1>5
  <2> QED BY <2>1, <2>2
<1>16. ASSUME NEW x \in Workers PROVE Own(x, at[x])'
  <2>1. /\ Own(x, at[x]) /\ at[x].locked \subseteq Deliveries /\ at[x].locked \cap held = {}
    BY <1>2 DEF WebhookInv, TypesOK, WorkerStates, RowLocks, held
  <2>2. \A d \in at[x].locked : d \in Deliveries /\ delivery'[d] = delivery[d]
    BY <2>1, <1>7
  <2>3. at[x].pc = "claim" => \A d \in at[x].enabled : LastAttempt(d)' # "CANCELLED"
    <3> SUFFICES ASSUME at[x].pc = "claim", NEW d \in at[x].enabled
                 PROVE  LastAttempt(d)' # "CANCELLED"
      BY <1>1
    <3>1. x \in Dispatchers /\ d \in at[x].locked /\ LastAttempt(d) # "CANCELLED"
      BY <2>1 DEF Own
    <3>2. Abandoned(d)
      BY <3>1 DEF Abandoned
    <3> QED BY <2>1, <3>1, <3>2, <1>15
  <2>4. at[x].pc \in {"start", "finish"} =>
          /\ delivery'[at[x].job[1]].status = "PROCESSING"
          /\ Last(at[x].job[1])' = at[x].job[2]
    <3> SUFFICES ASSUME at[x].pc \in {"start", "finish"}
                 PROVE  /\ delivery'[at[x].job[1]].status = "PROCESSING"
                        /\ Last(at[x].job[1])' = at[x].job[2]
      BY <1>1
    <3>1. /\ at[x].job[1] \in at[x].locked /\ delivery[at[x].job[1]].status = "PROCESSING"
          /\ Last(at[x].job[1]) = at[x].job[2]
      BY <2>1 DEF Own
    <3>2. delivery'[at[x].job[1]] = delivery[at[x].job[1]]
      BY <3>1, <2>2
    <3> QED BY <1>1, <3>1, <3>2 DEF Last
  <2>5. at[x].pc = "claim" => \A d \in at[x].locked : delivery'[d].status \in OpenStatus
    BY <2>1, <2>2 DEF Own
  <2> QED BY <1>1, <2>1, <2>3, <2>4, <2>5 DEF Own
<1>17. ASSUME NEW r \in Subscriptions PROVE DisableOK(r)'
  <2>1. CASE r = s
    BY <2>1, <1>9, <1>10 DEF DisableOK
  <2>2. CASE r # s
    <3>1. DisableOK(r) /\ disabling'[r] = disabling[r] /\ disabling[r].held \subseteq Deliveries
      BY <2>2, <1>2, <1>9 DEF WebhookInv, TypesOK, DisableStates
    <3>2. \A d \in disabling[r].held : delivery'[d] = delivery[d]
      BY <3>1, <2>2, <1>3, <1>7 DEF DisableOK
    <3> QED BY <3>1, <3>2 DEF DisableOK
  <2> QED BY <2>1, <2>2
<1>18. RowLocks'
  BY <1>1, <1>2, <1>9, <1>10 DEF RowLocks
<1>19. ASSUME NEW d \in Deliveries PROVE RowOK(d)'
  <2>1. RowOK(d) /\ d[1] \in Subscriptions
    BY DEF WebhookInv, Deliveries
  <2>2. \A n \in Numbers : /\ attempt'[d][n] = "NONE" <=> attempt[d][n] = "NONE"
                           /\ attempt'[d][n] = "SUCCEEDED" <=> attempt[d][n] = "SUCCEEDED"
                           /\ attempt'[d][n] \in {attempt[d][n], "CANCELLED"}
    BY <1>4, <1>5 DEF OpenAttempt
  <2>3. \A n \in Numbers : attempt'[d][n] = "NONE" <=> n > Last(d)'
    BY <2>1, <2>2, <1>13 DEF RowOK
  <2>4. \A n \in Numbers : n # Last(d)' => attempt'[d][n] \in {"NONE", "FAILED", "ABANDONED", "CANCELLED"}
    BY <2>1, <2>2, <1>13 DEF RowOK
  <2>5. \A n \in Numbers : attempt'[d][n] = "SUCCEEDED" => <<d, n>> \in accepted'
    BY <2>1, <2>2, <1>1 DEF RowOK
  <2>6. fanout'[d[2]].pc # "committed" => delivery'[d] = NoDelivery
    <3>1. fanout[d[2]].pc # "committed" => d \notin held
      BY <1>3, <2>1 DEF RowOK, NoDelivery, OpenStatus
    <3> QED BY <3>1, <2>1, <1>1, <1>7 DEF RowOK
  <2>7. /\ delivery'[d].status = "PENDING" => LastAttempt(d)' \in {"NONE", "FAILED"}
        /\ delivery'[d].status = "PROCESSING" => LastAttempt(d)' \in {"QUEUED", "SENDING", "CANCELLED"}
        /\ delivery'[d].status = "FAILED" => LastAttempt(d)' \in {"FAILED", "ABANDONED"}
        /\ delivery'[d].status = "DELIVERED" <=> LastAttempt(d)' = "SUCCEEDED"
    <3>1. CASE d \in held
      BY <3>1, <2>1, <1>3, <1>7, <1>15 DEF RowOK, OpenStatus, OpenAttempt
    <3>2. CASE d \notin held
      BY <3>2, <2>1, <1>7, <1>15 DEF RowOK, OpenStatus, OpenAttempt
    <3> QED BY <3>1, <3>2
  <2>8. delivery'[d].status \in OpenStatus /\ LastAttempt(d)' = "CANCELLED" =>
           subscription'[d[1]] = "disabled"
    <3> SUFFICES ASSUME delivery'[d].status \in OpenStatus, LastAttempt(d)' = "CANCELLED", d[1] # s
                 PROVE  subscription'[d[1]] = "disabled"
      BY <1>8
    <3>1. d \notin held /\ delivery'[d] = delivery[d] /\ LastAttempt(d) = "CANCELLED"
      BY <1>3, <1>7, <1>15
    <3> QED BY <3>1, <2>1, <1>8 DEF RowOK
  <2> QED BY <2>3, <2>4, <2>5, <2>6, <2>7, <2>8 DEF RowOK
<1>20. SentOK'
  <2>1. \A d \in Deliveries, n \in Numbers :
           attempt'[d][n] \in {"NONE", "QUEUED"} => attempt[d][n] \in {"NONE", "QUEUED"}
    BY <1>5
  <2> QED BY <1>1, <1>2, <2>1 DEF SentOK
<1> QED BY <1>12, <1>16, <1>17, <1>18, <1>19, <1>20 DEF WebhookInv

-----------------------------------------------------------------------------

\* Every step keeps the invariant.
LEMMA WebhookNextInv == WebhookInv /\ [WebhookNext]_webhookVars => WebhookInv'
<1> SUFFICES ASSUME WebhookInv, [WebhookNext]_webhookVars PROVE WebhookInv'
  OBVIOUS
<1>1. CASE \E s \in Subscriptions : Subscribe(s) \/ DisableFind(s) \/ DisableStep(s) \/ DisableAbort(s)
  BY <1>1, QuietInv, DisableInv, DisableCommitInv DEF DisableStep
<1>2. CASE \E e \in Events : FanOut(e) \/ FanOutCommit(e)
  BY <1>2, QuietInv, FanOutCommitInv
<1>3. CASE \E w \in Dispatchers : ClaimSelect(w)
  BY <1>3, ClaimSelectInv
<1>4. CASE \E c \in Consumers, j \in queue : StartLock(c, j)
  BY <1>4, StartLockInv
<1>5. CASE \E x \in Workers : WorkerStep(x) \/ Crash(x)
  BY <1>5, ClaimRowInv, ClaimCommitInv, DispatchInv, StartCommitInv, SendInv, SendNothingInv,
     FinishLockInv, FinishCommitInv DEF WorkerStep
<1>6. CASE \E d \in Deliveries : Expire(d)
  BY <1>6, QuietInv
<1>7. CASE UNCHANGED webhookVars
  <2>1. /\ subscription' = subscription /\ fanout' = fanout /\ delivery' = delivery
        /\ attempt' = attempt /\ due' = due /\ queue' = queue /\ at' = at
        /\ disabling' = disabling /\ sent' = sent /\ accepted' = accepted
    BY <1>7 DEF webhookVars, rows, network
  <2>2. TypesOK' /\ RowLocks' /\ SentOK'
    BY <2>1 DEF WebhookInv, TypesOK, RowLocks, SentOK
  <2>3. ASSUME NEW x \in Workers PROVE Own(x, at[x])'
    BY <2>1 DEF WebhookInv, Own, LastAttempt, Last
  <2>4. ASSUME NEW s \in Subscriptions PROVE DisableOK(s)'
    BY <2>1 DEF WebhookInv, DisableOK
  <2>5. ASSUME NEW d \in Deliveries PROVE RowOK(d)'
    BY <2>1 DEF WebhookInv, RowOK, LastAttempt, Last
  <2> QED BY <2>2, <2>3, <2>4, <2>5 DEF WebhookInv
<1> QED BY <1>1, <1>2, <1>3, <1>4, <1>5, <1>6, <1>7 DEF WebhookNext

\* What every reachable state satisfies, whatever workers, disables and the
\* queue do: claims, jobs run late or twice, crashes and expired leases included.
THEOREM WebhookInductive == WebhookSpec => []WebhookInv
BY WebhookInitInv, WebhookNextInv, PTL DEF WebhookSpec

\* The CHECKs of the migration hold, and FOR UPDATE keeps rows apart.
THEOREM WebhookTypeCorrect == WebhookSpec => []WebhookTypeOK
<1>1. WebhookInv => WebhookTypeOK
  <2> SUFFICES ASSUME WebhookInv PROVE WebhookTypeOK
    OBVIOUS
  <2>1. TypesOK /\ RowLocks /\ \A d \in Deliveries : RowOK(d)
    BY DEF WebhookInv
  <2>2. ASSUME NEW d \in Deliveries
        PROVE  /\ delivery[d].status \in {"NONE", "DELIVERED", "FAILED", "CANCELLED"} \cup OpenStatus
               /\ delivery[d].count \in 0..MaxAttempts
    BY <2>1 DEF TypesOK, DeliveryRows, OpenStatus
  <2>3. ASSUME NEW d \in Deliveries, NEW n \in Numbers
        PROVE  attempt[d][n] \in IF n > Last(d) THEN {"NONE"}
                                 ELSE OpenAttempt \cup {"SUCCEEDED", "FAILED", "ABANDONED", "CANCELLED"}
    <3>1. attempt[d][n] \in AttemptStatuses /\ (attempt[d][n] = "NONE" <=> n > Last(d))
      BY <2>1 DEF TypesOK, RowOK
    <3> QED BY <3>1 DEF AttemptStatuses, OpenAttempt
  <2> QED BY <2>1, <2>2, <2>3 DEF WebhookTypeOK, TypesOK, RowLocks, Jobs
<1> QED BY <1>1, WebhookInductive, PTL

\* A delivery and the history of its attempts tell the same story.
THEOREM AttemptsAlwaysAgree == WebhookSpec => []AttemptsAgree
<1>1. WebhookInv => AttemptsAgree
  BY DEF WebhookInv, RowOK, LastAttempt, AttemptsAgree
<1> QED BY <1>1, WebhookInductive, PTL

\* What is recorded as delivered was accepted in answer to that attempt.
THEOREM SuccessIsGenuine == WebhookSpec => []ResultsAreGenuine
<1>1. WebhookInv => ResultsAreGenuine
  BY DEF WebhookInv, RowOK, ResultsAreGenuine
<1> QED BY <1>1, WebhookInductive, PTL

\* An attempt makes one request at most.
THEOREM AtMostOneRequest == WebhookSpec => []OneRequestPerAttempt
<1>1. WebhookInv => OneRequestPerAttempt
  BY DEF WebhookInv, SentOK, OneRequestPerAttempt
<1> QED BY <1>1, WebhookInductive, PTL

\* A worker that commits writes only rows it has locked, and those are open.
LEMMA WorkersWriteOpenRows ==
    ASSUME WebhookInv, NEW x \in Workers, ClaimCommit(x) \/ StartCommit(x) \/ FinishCommit(x),
           NEW d \in Deliveries, Terminal(d)
    PROVE  delivery'[d] = delivery[d] /\ \A n \in Numbers : attempt'[d][n] = attempt[d][n]
<1>1. /\ Own(x, at[x]) /\ delivery \in [Deliveries -> DeliveryRows]
      /\ attempt \in [Deliveries -> [Numbers -> AttemptStatuses]]
  BY DEF WebhookInv, TypesOK
<1>2. CASE ClaimCommit(x)
  <2>1. /\ at[x].pc = "claim" /\ at[x].locked = at[x].enabled \cup at[x].disabled
        /\ delivery'[d] =
             CASE d \in Claimed(x) -> [status |-> "PROCESSING", count |-> Last(d) + 1]
               [] d \in at[x].enabled \ Claimed(x) -> [delivery[d] EXCEPT !.status = "FAILED"]
               [] d \in at[x].disabled -> [delivery[d] EXCEPT !.status = "CANCELLED"]
               [] OTHER -> delivery[d]
        /\ \A n \in Numbers : attempt'[d][n] =
             CASE d \in Claimed(x) /\ n = Last(d) + 1 -> "QUEUED"
               [] d \in Recovered(x) /\ attempt[d][n] \in OpenAttempt -> "ABANDONED"
               [] OTHER -> attempt[d][n]
    BY <1>2 DEF ClaimCommit
  <2>2. d \notin at[x].locked
    BY <1>1, <2>1 DEF Own, Terminal, OpenStatus
  <2>3. /\ d \notin Claimed(x) /\ d \notin Recovered(x)
        /\ d \notin at[x].enabled /\ d \notin at[x].disabled
    BY <2>1, <2>2 DEF Claimed, Recovered
  <2> QED BY <2>1, <2>3
<1>3. CASE StartCommit(x) \/ FinishCommit(x)
  <2>1. at[x].pc \in {"start", "finish"}
    BY <1>3 DEF StartCommit, FinishCommit
  <2>2. PICK c \in Deliveries, k \in Numbers : at[x].job = <<c, k>>
    BY <1>1, <2>1 DEF Own, Jobs
  <2>3. c # d /\ Last(c) = k
    BY <1>1, <2>1, <2>2 DEF Own, Terminal
  <2>4. CASE StartCommit(x)
    <3>1. /\ delivery' = delivery \/ delivery' = [delivery EXCEPT ![c].status = "CANCELLED"]
          /\ attempt' = [attempt EXCEPT ![c][k] =
                           IF attempt[c][k] # "QUEUED" THEN @
                           ELSE IF c \in at[x].enabled THEN "SENDING" ELSE "CANCELLED"]
      BY <2>2, <2>3, <2>4 DEF StartCommit
    <3> QED BY <1>1, <2>3, <3>1
  <2>5. CASE FinishCommit(x)
    <3>1. \/ UNCHANGED rows
          \/ \E u, v : /\ delivery' = [delivery EXCEPT ![c].status = u]
                       /\ attempt' = [attempt EXCEPT ![c][k] = v]
      BY <2>2, <2>3, <2>5 DEF FinishCommit
    <3> QED BY <1>1, <2>3, <3>1 DEF rows
  <2> QED BY <1>3, <2>4, <2>5
<1> QED BY <1>2, <1>3

\* A disable leaves deliveries that have ended, and starts nothing.
LEMMA DisableStartsNothing ==
    ASSUME WebhookInv, NEW s \in Subscriptions, DisableCommit(s),
           NEW d \in Deliveries, Terminal(d)
    PROVE  /\ delivery'[d] = delivery[d]
           /\ \A n \in Numbers : attempt'[d][n] = "SENDING" => attempt[d][n] = "SENDING"
<1>1. /\ delivery'[d] = IF d \in disabling[s].held THEN [delivery[d] EXCEPT !.status = "CANCELLED"]
                        ELSE delivery[d]
      /\ \A n \in Numbers : attempt'[d][n] \in {"CANCELLED", attempt[d][n]}
  BY DEF DisableCommit
<1>2. d \notin disabling[s].held
  BY DEF WebhookInv, DisableOK, Terminal, OpenStatus
<1> QED BY <1>1, <1>2

\* A delivery that has ended stays as it is, and starts no attempt.
THEOREM TerminalStaysFinal == WebhookSpec => TerminalIsFinal
<1> DEFINE Final == \A d \in Deliveries : Terminal(d) =>
                       /\ delivery'[d] = delivery[d]
                       /\ \A n \in Numbers : attempt'[d][n] = "SENDING" => attempt[d][n] = "SENDING"
<1>1. WebhookInv /\ [WebhookNext]_webhookVars => [Final]_webhookVars
  <2> SUFFICES ASSUME WebhookInv, WebhookNext, NEW d \in Deliveries, Terminal(d)
               PROVE  /\ delivery'[d] = delivery[d]
                      /\ \A n \in Numbers : attempt'[d][n] = "SENDING" => attempt[d][n] = "SENDING"
    OBVIOUS
  <2>1. CASE delivery' = delivery /\ attempt' = attempt
    BY <2>1
  <2>2. CASE \E s \in Subscriptions : Subscribe(s) \/ DisableFind(s) \/ DisableStep(s) \/ DisableAbort(s)
    <3>1. CASE \E s \in Subscriptions : DisableCommit(s)
      BY <3>1, DisableStartsNothing
    <3>2. CASE \E s \in Subscriptions : Subscribe(s) \/ DisableFind(s) \/ DisableDeliveries(s)
                                        \/ DisableAttempts(s) \/ DisableAbort(s)
      BY <2>1, <3>2 DEF Subscribe, DisableFind, DisableDeliveries, DisableAttempts, DisableAbort, rows
    <3> QED BY <2>2, <3>1, <3>2 DEF DisableStep
  <2>3. CASE \E e \in Events : FanOut(e)
    BY <2>1, <2>3 DEF FanOut, rows
  <2>4. CASE \E e \in Events : FanOutCommit(e)
    <3>1. PICK e \in Events : FanOutCommit(e)
      BY <2>4
    <3>2. /\ fanout[e].pc = "open" /\ attempt' = attempt
          /\ delivery'[d] = IF d \in fanout[e].to \X {e} THEN [NoDelivery EXCEPT !.status = "PENDING"]
                            ELSE delivery[d]
      BY <3>1 DEF FanOutCommit
    <3>3. d \notin fanout[e].to \X {e}
      <4> SUFFICES ASSUME d \in fanout[e].to \X {e} PROVE FALSE
        OBVIOUS
      <4>1. d[2] = e /\ RowOK(d)
        BY DEF WebhookInv
      <4> QED BY <3>2, <4>1 DEF RowOK, NoDelivery, Terminal
    <3> QED BY <3>2, <3>3
  <2>5. CASE \E w \in Dispatchers : ClaimSelect(w)
    BY <2>1, <2>5 DEF ClaimSelect, rows
  <2>6. CASE \E c \in Consumers, j \in queue : StartLock(c, j)
    BY <2>1, <2>6 DEF StartLock, rows
  <2>7. CASE \E x \in Workers : WorkerStep(x) \/ Crash(x)
    <3>1. PICK x \in Workers : WorkerStep(x) \/ Crash(x)
      BY <2>7
    <3>2. CASE ClaimCommit(x) \/ StartCommit(x) \/ FinishCommit(x)
      <4>1. delivery'[d] = delivery[d] /\ \A n \in Numbers : attempt'[d][n] = attempt[d][n]
        BY <3>2, WorkersWriteOpenRows
      <4> QED BY <4>1
    <3>3. CASE \/ \E c \in Deliveries : ClaimRow(x, c)
               \/ DispatchEnds(x) \/ (\E j \in at[x].jobs : AddJob(x, j) \/ AddFails(x, j))
               \/ Send(x) \/ SendNothing(x) \/ FinishLock(x) \/ Crash(x)
      <4>1. UNCHANGED rows
        BY <3>3 DEF ClaimRow, DispatchEnds, AddJob, AddFails, Send, SendNothing, FinishLock, Crash
      <4> QED BY <4>1, <2>1 DEF rows
    <3> QED BY <3>1, <3>2, <3>3 DEF WorkerStep
  <2>8. CASE \E c \in Deliveries : Expire(c)
    BY <2>1, <2>8 DEF Expire
  <2> QED BY <2>2, <2>3, <2>4, <2>5, <2>6, <2>7, <2>8 DEF WebhookNext
<1> QED BY <1>1, WebhookInductive, PTL DEF WebhookSpec, TerminalIsFinal
==============================================================================
