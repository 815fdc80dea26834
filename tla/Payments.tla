------------------------------ MODULE Payments ------------------------------
(***************************************************************************)
(* PaymentsService over the ledger, with its two providers.  A session of  *)
(* Ledger.tla serves one HTTP request: the owner creates an intent or      *)
(* reconciles one, a provider calls back.  A verified event is settled in  *)
(* a SERIALIZABLE transaction that locks the payment, stores the evidence, *)
(* calls postWithinTransaction (PostStep of Ledger.tla) and marks the      *)
(* payment, and that is tried three times.                                 *)
(*                                                                         *)
(* Of a provider it is assumed that it charges only what was initialised   *)
(* with it, and once; it may charge another amount, call back as often as  *)
(* it likes and in any order, and fail to answer, also after it has acted. *)
(* Unsigned callbacks change nothing and are left out.  Processes of both  *)
(* configurations may run side by side while a deployment is rolled out.   *)
(***************************************************************************)
EXTENDS Ledger, FiniteSets

CONSTANTS
    Payments,       \* ids of payments; a reference belongs to one for ever
    Intents,        \* what owners ask for: [user, key, wallet, amount]
    Callbacks,      \* signed callbacks of the mock provider
    Modes,          \* values of PAYMENT_PROVIDER among the running processes
    OtherAmounts,   \* what Paystack may charge instead of the amount intended
    MaxSafe,        \* Number.MAX_SAFE_INTEGER, scaled down
    MaxTries        \* attempts of settleVerified

ASSUME PaymentsAssumption ==
    /\ Payments \subseteq Nat
    /\ Modes \subseteq {"MOCK", "PAYSTACK"}
    /\ MaxTries \in Nat \ {0}
    /\ \A c \in Intents : c.wallet \in Wallets /\ c.user \in Users /\ c.amount \in Int
    /\ \A p \in Payments : <<"payment", p>> \in References

\* The schema of a mock event; payloadHash is the SHA-256 of its raw body.
ASSUME CallbacksAssumption ==
    /\ \A e \in Callbacks : /\ e.provider = "MOCK" /\ e.payment \in Payments
                            /\ e.status \in {"SUCCEEDED", "FAILED"}
    /\ \A d, e \in Callbacks : d.hash = e.hash => d = e

VARIABLES
    payment,        \* [Payments -> Payment row], committed
    events,         \* ProviderEvent rows, committed
    outbox,         \* OutboxEvent rows as <<type, payment>>
    checkout,       \* [Payments -> PaymentCheckout: "none", "claimed", "url"]
    charge,         \* [Payments -> Paystack's record of the reference]
    asked,          \* history: [Payments -> initialisations sent to Paystack]
    acks,           \* history: the events acknowledged, with what was said
    request         \* [Sessions -> what the call works on]

settlement == <<payment, events, outbox>>
providerVars == <<checkout, charge, asked>>
paymentVars == <<vars, settlement, providerVars, acks, request>>

-----------------------------------------------------------------------------
(* Rows and requests *)

NoIntent == [user |-> "", key |-> "", wallet |-> NoWallet, amount |-> 0]

NoPayment == [status |-> "NONE", provider |-> "", intent |-> NoIntent]

NoCharge == [state |-> "none", amount |-> 0]

\* VerifiedPaymentEvent; its amount stands for amount and currency.
NoVerifiedEvent ==
    [provider |-> "", id |-> <<>>, payment |-> 0, amount |-> 0, status |-> "", hash |-> <<>>]

NoRequest ==
    [mode |-> "", intent |-> NoIntent, payment |-> 0, event |-> NoVerifiedEvent,
     row |-> NoPayment, events |-> {}, tries |-> 0]

\* Payment_userId_idempotencyKey_key
OfKey(c) ==
    {p \in Payments : /\ payment[p].status # "NONE"
                      /\ payment[p].intent.user = c.user /\ payment[p].intent.key = c.key}

\* replay: the key was used for the same wallet and amount.
SameRequest(c, p) ==
    payment[p].intent.wallet = c.wallet /\ payment[p].intent.amount = c.amount

\* The payment of wallet and amount c may be made now by a process in mode m.
Fundable(c, m) ==
    /\ OwnerOf[c.wallet] = c.user
    /\ status[c.wallet] = "ACTIVE"
    /\ m = "PAYSTACK" => CurrencyOf[c.wallet] = "NGN" /\ c.amount <= MaxSafe

End(s) ==
    /\ request' = [request EXCEPT ![s] = NoRequest]
    /\ Goto(s, "idle")

-----------------------------------------------------------------------------
(* PaymentsService.create *)

\* A pending Paystack payment goes on to its checkout; every other answer is
\* read off the row.
Respond(s, p, c, m) ==
    IF payment'[p].status = "PENDING" /\ payment'[p].provider = "PAYSTACK" /\ m = "PAYSTACK"
    THEN /\ request' = [request EXCEPT ![s] = [NoRequest EXCEPT !.mode = m, !.payment = p]]
         /\ Goto(s, "checkout")
    ELSE End(s)

\* The transaction reads the payment of the key, and the wallet if there is none.
FindIntent(s, c, m) ==
    /\ pc[s] = "idle"
    /\ c.amount > 0 /\ c.amount <= MaxMinor
    /\ IF OfKey(c) # {}
       THEN \E p \in OfKey(c) : SameRequest(c, p) /\ UNCHANGED payment /\ Respond(s, p, c, m)
       ELSE /\ Fundable(c, m)
            /\ request' = [request EXCEPT ![s] = [NoRequest EXCEPT !.mode = m, !.intent = c]]
            /\ Goto(s, "intent")
            /\ UNCHANGED payment
    /\ UNCHANGED <<tables, tx, events, outbox, providerVars, acks>>

FreshPayment(p) ==
    /\ payment[p].status = "NONE"
    /\ \A q \in Payments : payment[q].status = "NONE" => p <= q

\* Mutant of InsertIntent: no unique index on (userId, idempotencyKey).
InsertIntentAgain(s) ==
    /\ pc[s] = "intent"
    /\ \E p \in Payments :
         /\ FreshPayment(p)
         /\ payment' = [payment EXCEPT ![p] = [status |-> "PENDING", provider |-> request[s].mode,
                                               intent |-> request[s].intent]]
         /\ Respond(s, p, request[s].intent, request[s].mode)
    /\ UNCHANGED <<tables, tx, events, outbox, providerVars, acks>>

\* The insert and its commit, or P2002 and the payment that is there.  The
\* wallet is not looked at again.
InsertIntent(s) ==
    LET c == request[s].intent
        m == request[s].mode
    IN  /\ pc[s] = "intent"
        /\ IF OfKey(c) # {}
           THEN /\ UNCHANGED payment
                /\ \E p \in OfKey(c) : IF SameRequest(c, p) THEN Respond(s, p, c, m) ELSE End(s)
           ELSE \E p \in Payments :
                  /\ FreshPayment(p)
                  /\ payment' = [payment EXCEPT ![p] =
                                   [status |-> "PENDING", provider |-> m, intent |-> c]]
                  /\ Respond(s, p, c, m)
        /\ UNCHANGED <<tables, tx, events, outbox, providerVars, acks>>

\* Mutant of ClaimCheckout: a claim without its URL is taken for a failed one.
ClaimUncertain(s) ==
    LET p == request[s].payment IN
    /\ pc[s] = "checkout"
    /\ IF checkout[p] # "url"
       THEN /\ checkout' = [checkout EXCEPT ![p] = "claimed"]
            /\ Goto(s, "initialize")
            /\ UNCHANGED request
       ELSE End(s) /\ UNCHANGED checkout
    /\ UNCHANGED <<tables, tx, settlement, charge, asked, acks>>

\* initializePaystack: createMany with skipDuplicates is the claim; who finds
\* one answers its URL, or 503 when there is none.
ClaimCheckout(s) ==
    LET p == request[s].payment IN
    /\ pc[s] = "checkout"
    /\ IF checkout[p] = "none"
       THEN /\ checkout' = [checkout EXCEPT ![p] = "claimed"]
            /\ Goto(s, "initialize")
            /\ UNCHANGED request
       ELSE End(s) /\ UNCHANGED checkout
    /\ UNCHANGED <<tables, tx, settlement, charge, asked, acks>>

\* POST /transaction/initialize: it arrives or not, its answer too.
Initialize(s) ==
    LET p == request[s].payment IN
    /\ pc[s] = "initialize"
    /\ asked' = [asked EXCEPT ![p] = @ + 1]
    /\ \/ /\ charge' = IF charge[p].state = "none"
                       THEN [charge EXCEPT ![p].state = "open"]
                       ELSE charge
          /\ \/ Goto(s, "saveUrl") /\ UNCHANGED request
             \/ End(s)
       \/ UNCHANGED charge /\ End(s)
    /\ UNCHANGED <<tables, tx, settlement, checkout, acks>>

\* The update of the claim, whose trigger lets it acquire its URL once.
SaveUrl(s) ==
    LET p == request[s].payment IN
    /\ pc[s] = "saveUrl"
    /\ checkout' = IF checkout[p] = "claimed" THEN [checkout EXCEPT ![p] = "url"] ELSE checkout
    /\ End(s)
    /\ UNCHANGED <<tables, tx, settlement, charge, asked, acks>>

-----------------------------------------------------------------------------
(* The provider, and what brings its events here *)

\* The customer pays at the hosted page.
Pay(p, amount) ==
    /\ charge[p].state = "open"
    /\ charge' = [charge EXCEPT ![p] = [state |-> "paid", amount |-> amount]]
    /\ UNCHANGED <<vars, settlement, checkout, asked, acks, request>>

\* Mutant of ReceivePaystack: only for a checkout whose page is known here.
ReceiveKnownCheckout(s, p) ==
    /\ pc[s] = "idle" /\ "PAYSTACK" \in Modes
    /\ charge[p].state = "paid" /\ checkout[p] = "url"
    /\ payment[p].provider = "PAYSTACK"
    /\ request' = [request EXCEPT ![s].payment = p]
    /\ Goto(s, "verify")
    /\ UNCHANGED <<tables, tx, settlement, providerVars, acks>>

\* receivePaystack: a signed charge.success, whatever else it says, names the
\* reference to verify.
ReceivePaystack(s, p) ==
    /\ pc[s] = "idle" /\ "PAYSTACK" \in Modes
    /\ charge[p].state = "paid"
    /\ payment[p].provider = "PAYSTACK"
    /\ request' = [request EXCEPT ![s].payment = p]
    /\ Goto(s, "verify")
    /\ UNCHANGED <<tables, tx, settlement, providerVars, acks>>

\* reconcile: the owner asks, and only for a payment that is pending.
Reconcile(s, p) ==
    /\ pc[s] = "idle" /\ "PAYSTACK" \in Modes
    /\ payment[p].provider = "PAYSTACK" /\ payment[p].status = "PENDING"
    /\ request' = [request EXCEPT ![s].payment = p]
    /\ Goto(s, "verify")
    /\ UNCHANGED <<tables, tx, settlement, providerVars, acks>>

\* PaystackProvider.reconcile: the same evidence each time it is asked.
PaystackEvent(p) ==
    [provider |-> "PAYSTACK", id |-> <<"paystack", p>>, payment |-> p,
     amount |-> charge[p].amount, status |-> "SUCCEEDED", hash |-> <<p, charge[p].amount>>]

\* GET /transaction/verify: success is settled; no answer, or another state of
\* the charge, ends the call and leaves the payment pending.
Verify(s) ==
    LET p == request[s].payment IN
    /\ pc[s] = "verify"
    /\ charge[p].state = "paid"
    /\ request' = [request EXCEPT ![s] = [NoRequest EXCEPT !.event = PaystackEvent(p)]]
    /\ Goto(s, "settle")
    /\ UNCHANGED <<tables, tx, settlement, providerVars, acks>>

VerifyFails(s) ==
    /\ pc[s] = "verify"
    /\ End(s)
    /\ UNCHANGED <<tables, tx, settlement, providerVars, acks>>

\* receive: MockPaymentProvider.verify has accepted the signed event.
ReceiveMock(s, e) ==
    /\ pc[s] = "idle" /\ "MOCK" \in Modes
    /\ request' = [request EXCEPT ![s] = [NoRequest EXCEPT !.event = e]]
    /\ Goto(s, "settle")
    /\ UNCHANGED <<tables, tx, settlement, providerVars, acks>>

-----------------------------------------------------------------------------
(* settle *)

EventOf(s) == request[s].event

Settling(s) == EventOf(s).payment

\* The first statement takes the snapshot, in which there is no payment of an
\* unknown reference or of another provider: 404.
BeginSettle(s) ==
    LET p == Settling(s) IN
    /\ pc[s] = "settle"
    /\ IF payment[p].provider = EventOf(s).provider
       THEN /\ tx' = [tx EXCEPT ![s] = [NoTx EXCEPT !.isolation = "Serializable",
                                                    !.snap = Snapshot]]
            /\ request' = [request EXCEPT ![s].row = payment[p], ![s].events = events]
            /\ Goto(s, "lockPayment")
       ELSE End(s) /\ UNCHANGED tx
    /\ UNCHANGED <<tables, settlement, providerVars, acks>>

\* Who has locked the row of the payment, and who has inserted an event.
Evidencing(t) == pc[t] \in {"lock", "rejected", "broken", "insert", "update", "posted", "settled"}

HasPayment(t, p) == Settling(t) = p /\ (Evidencing(t) \/ pc[t] \in {"refused", "known", "evidence"})

PaymentFree(p, s) == \A t \in Sessions \ {s} : ~HasPayment(t, p)

SameEvent(d, e) == d.provider = e.provider /\ d.id = e.id

\* Mutant of EventVerdict: what the provider received is what is settled.
VerdictWithoutAmount(s) ==
    LET stored == {d \in request[s].events : SameEvent(d, EventOf(s))} IN
    CASE stored # {} -> IF \A d \in stored : d.hash = EventOf(s).hash THEN "known" ELSE "refused"
      [] stored = {} /\ request[s].row.status \notin {"PENDING", EventOf(s).status} -> "refused"
      [] OTHER -> "evidence"

\* What the snapshot says of the event: stored before, contradicted, or new.
EventVerdict(s) ==
    LET e == EventOf(s)
        row == request[s].row
        stored == {d \in request[s].events : SameEvent(d, e)}
    IN  IF row.intent.amount # e.amount THEN "refused"
        ELSE IF stored # {}
             THEN IF \A d \in stored : d.hash = e.hash /\ d.payment = e.payment
                  THEN "known" ELSE "refused"
             ELSE IF row.status \notin {"PENDING", e.status} THEN "refused" ELSE "evidence"

\* SELECT ... FROM "Payment" FOR UPDATE: fails on a row that has changed.
LockPayment(s) ==
    /\ pc[s] = "lockPayment"
    /\ PaymentFree(Settling(s), s)
    /\ payment[Settling(s)] = request[s].row
    /\ Goto(s, EventVerdict(s))
    /\ UNCHANGED <<tables, tx, settlement, providerVars, acks, request>>

FundingEntry(p) ==
    LET w == payment[p].intent.wallet
        amount == payment[p].intent.amount
    IN  [reference |-> <<"payment", p>>,
         currency  |-> CurrencyOf[w],
         postings  |-> [a \in Accounts |-> CASE a = w -> amount
                                             [] a = ClearingOf[CurrencyOf[w]] -> -amount
                                             [] OTHER -> 0]]

\* Mutant of InsertEvidence: no unique index on (provider, eventId).
InsertEvidenceAgain(s) ==
    /\ pc[s] = "evidence"
    /\ IF request[s].row.status = "PENDING" /\ EventOf(s).status = "SUCCEEDED"
       THEN /\ tx' = [tx EXCEPT ![s].entry = FundingEntry(Settling(s))]
            /\ Goto(s, "lock")
       ELSE Goto(s, "settled") /\ UNCHANGED tx
    /\ UNCHANGED <<tables, settlement, providerVars, acks, request>>

\* The evidence, under the unique (provider, eventId); then, if this settles
\* the payment with success, the ledger is called.
InsertEvidence(s) ==
    /\ pc[s] = "evidence"
    /\ \A t \in Sessions \ {s} : Evidencing(t) => ~SameEvent(EventOf(t), EventOf(s))
    /\ \A d \in events : ~SameEvent(d, EventOf(s))
    /\ IF request[s].row.status = "PENDING" /\ EventOf(s).status = "SUCCEEDED"
       THEN /\ tx' = [tx EXCEPT ![s].entry = FundingEntry(Settling(s))]
            /\ Goto(s, "lock")
       ELSE Goto(s, "settled") /\ UNCHANGED tx
    /\ UNCHANGED <<tables, settlement, providerVars, acks, request>>

\* validatePaymentIntegrity, at commit.
ValidPayment(p, entry) ==
    LET i == payment[p].intent IN
    /\ entry.reference = <<"payment", p>> /\ entry.currency = CurrencyOf[i.wallet]
    /\ Posted(entry) = {i.wallet, ClearingOf[CurrencyOf[i.wallet]]}
    /\ entry.postings[i.wallet] = i.amount

Acknowledge(s, said) ==
    acks' = acks \cup {[event |-> EventOf(s), said |-> said]}

\* Mark the payment, add its outbox event, and commit with the evidence; a
\* payment that was settled before only gains evidence.
CommitSettle(s) ==
    LET p == Settling(s)
        e == EventOf(s)
    IN  /\ pc[s] \in {"posted", "settled"}
        /\ IF pc[s] = "posted"
           THEN PublishEntry(s) /\ ValidPayment(p, tx[s].entry)
           ELSE Commit(s, {}, {}) /\ UNCHANGED tables
        /\ payment' = [payment EXCEPT ![p].status = e.status]
        /\ events' = events \cup {e}
        /\ outbox' = IF request[s].row.status = "PENDING"
                     THEN outbox \cup {<<IF e.status = "SUCCEEDED" THEN "PAYMENT_SUCCEEDED"
                                         ELSE "PAYMENT_FAILED", p>>}
                     ELSE outbox
        /\ Acknowledge(s, e.status)
        /\ End(s)
        /\ UNCHANGED providerVars

\* The event is stored already: the status of its payment is the answer.
AcknowledgeKnown(s) ==
    /\ pc[s] = "known"
    /\ Commit(s, {}, {})
    /\ Acknowledge(s, request[s].row.status)
    /\ End(s)
    /\ UNCHANGED <<tables, settlement, providerVars>>

\* A 4xx of the service or the ledger: all of it is rolled back, the evidence too.
RefuseSettle(s) ==
    /\ pc[s] \in {"refused", "rejected", "broken"}
    /\ Rollback(s)
    /\ End(s)
    /\ UNCHANGED <<tables, settlement, providerVars, acks>>

\* 40001 on the payment or on a row of the ledger, P2002 on the event or on the
\* reference of the ledger transaction.
Transient(s) ==
    \/ /\ pc[s] = "lockPayment" /\ PaymentFree(Settling(s), s)
       /\ payment[Settling(s)] # request[s].row
    \/ pc[s] = "evidence" /\ \E d \in events : SameEvent(d, EventOf(s))
    \/ SerializationConflict(s)
    \/ DuplicateReference(s)

\* Mutant of TryAgain: one try too many.
TryOnceMore(s) ==
    /\ Rollback(s)
    /\ IF request[s].tries < MaxTries
       THEN /\ request' = [request EXCEPT ![s] =
                             [NoRequest EXCEPT !.event = EventOf(s), !.tries = request[s].tries + 1]]
            /\ Goto(s, "settle")
       ELSE End(s)
    /\ UNCHANGED <<tables, settlement, providerVars, acks>>

\* Mutant of TryAgain: a conflict means that somebody else has settled it.
AcknowledgeConflict(s) ==
    /\ Rollback(s)
    /\ Acknowledge(s, EventOf(s).status)
    /\ End(s)
    /\ UNCHANGED <<tables, settlement, providerVars>>

\* settleVerified: the whole transaction again, or 503 after the last try.
TryAgain(s) ==
    /\ Rollback(s)
    /\ IF request[s].tries + 1 < MaxTries
       THEN /\ request' = [request EXCEPT ![s] =
                             [NoRequest EXCEPT !.event = EventOf(s), !.tries = request[s].tries + 1]]
            /\ Goto(s, "settle")
       ELSE End(s)
    /\ UNCHANGED <<tables, settlement, providerVars, acks>>

FailSettle(s) == Transient(s) /\ TryAgain(s)

\* PostgreSQL's own serialization failures (P2034), at any statement.
AbortSettle(s) == Serializable(s) /\ TryAgain(s)

\* A timeout, a lost connection, a crash.
LoseCall(s) ==
    /\ pc[s] # "idle"
    /\ Rollback(s)
    /\ End(s)
    /\ UNCHANGED <<tables, settlement, providerVars, acks>>

-----------------------------------------------------------------------------

PaymentInit ==
    /\ Init
    /\ payment = [p \in Payments |-> NoPayment]
    /\ events = {} /\ outbox = {} /\ acks = {}
    /\ checkout = [p \in Payments |-> "none"]
    /\ charge = [p \in Payments |-> NoCharge]
    /\ asked = [p \in Payments |-> 0]
    /\ request = [s \in Sessions |-> NoRequest]

CreateStep(s) == InsertIntent(s) \/ ClaimCheckout(s) \/ Initialize(s) \/ SaveUrl(s)

\* Verification and settlement, the ledger's statements included.
SettleStep(s) ==
    \/ Verify(s) \/ VerifyFails(s)
    \/ BeginSettle(s) \/ LockPayment(s) \/ InsertEvidence(s)
    \/ CommitSettle(s) \/ AcknowledgeKnown(s) \/ RefuseSettle(s) \/ FailSettle(s)
    \/ PostStep(s) /\ UNCHANGED <<settlement, providerVars, acks, request>>

NewRequest(s) ==
    \/ \E c \in Intents, m \in Modes : FindIntent(s, c, m)
    \/ \E p \in Payments : ReceivePaystack(s, p) \/ Reconcile(s, p)
    \/ \E e \in Callbacks : ReceiveMock(s, e)

\* Closing and freezing of wallets change nothing of the payments.
WalletStep ==
    /\ \/ \E s \in Sessions : CloseStep(s) \/ \E w \in Wallets : FindToClose(s, w)
       \/ \E w \in Wallets : SetFrozen(w)
    /\ UNCHANGED <<settlement, providerVars, acks, request>>

PaymentNext ==
    \/ \E s \in Sessions :
         NewRequest(s) \/ CreateStep(s) \/ SettleStep(s) \/ AbortSettle(s) \/ LoseCall(s)
    \/ \E p \in Payments :
         \E amount \in OtherAmounts \cup {payment[p].intent.amount} : Pay(p, amount)
    \/ WalletStep

PaymentSpec == PaymentInit /\ [][PaymentNext]_paymentVars

\* A call goes on, and is served in its turn where it waits.  Paystack repeats
\* a callback that was not acknowledged, and answers now and then.
PaymentFairSpec ==
    /\ PaymentSpec
    /\ \A s \in Sessions :
         /\ SF_paymentVars(CreateStep(s)) /\ SF_paymentVars(SettleStep(s))
         /\ SF_paymentVars(Verify(s))
         /\ SF_paymentVars(CloseStep(s) /\ UNCHANGED <<settlement, providerVars, acks, request>>)
    /\ \A p \in Payments :
         SF_paymentVars(payment[p].status = "PENDING" /\ \E s \in Sessions : ReceivePaystack(s, p))

-----------------------------------------------------------------------------
(* Properties *)

PaymentLabels ==
    {"idle", "intent", "checkout", "initialize", "saveUrl", "verify", "settle", "lockPayment",
     "refused", "known", "evidence", "lock", "rejected", "broken", "insert", "update", "posted",
     "settled", "closeAccount", "closeWallet", "closeDecide"}

\* A payment is not there, or is whole; a session is at a known statement and
\* has tries left: settleVerified gives up after the last one (503).
PaymentTypeOK ==
    /\ \A p \in Payments :
         \/ payment[p] = NoPayment
         \/ /\ payment[p].status \in {"PENDING", "SUCCEEDED", "FAILED"}
            /\ payment[p].provider \in Modes /\ payment[p].intent \in Intents
    /\ checkout \in [Payments -> {"none", "claimed", "url"}]
    /\ \A p \in Payments : charge[p].state \in {"none", "open", "paid"}
    /\ \A s \in Sessions :
         /\ pc[s] \in PaymentLabels
         /\ request[s].tries \in 0..(MaxTries - 1)
         /\ InTx(s) => Settling(s) \in Payments \/ Target(s) \in Wallets

Credits(p) == {e \in journal : e.reference = <<"payment", p>>}

Evidence(p) == {e \in events : e.payment = p}

Published(p) == {o \in outbox : o[2] = p}

\* Of every payment, whatever callbacks and reconciliations raced: the wallet
\* was credited once if it succeeded and else not at all; a settled payment has
\* evidence of its own outcome only, and one event in the outbox; a pending one
\* has neither; and no provider event stands as evidence of two payments.
EverySettlementAccounted ==
    /\ \A p \in Payments :
         LET settled == payment[p].status \in {"SUCCEEDED", "FAILED"} IN
         /\ Cardinality(Credits(p)) = IF payment[p].status = "SUCCEEDED" THEN 1 ELSE 0
         /\ Cardinality(Published(p)) = IF settled THEN 1 ELSE 0
         /\ settled <=> Evidence(p) # {}
         /\ \A e \in Evidence(p) : e.status = payment[p].status
                                   /\ e.amount = payment[p].intent.amount
    /\ \A d, e \in events : SameEvent(d, e) => d = e

\* What a provider was told of an event remains true: the event is stored, its
\* payment has the status that was said, and that is the event's own.  A
\* provider that is answered 2xx may forget the event.
AcksAreFinal ==
    \A a \in acks :
        /\ a.event \in events
        /\ a.said = payment[a.event.payment].status
        /\ a.said = a.event.status

\* The reference of a payment is initialised with Paystack at most once, over
\* crashes, lost answers and retries with the same key, so it is charged at
\* most once; and a page is answered only for one that was.
InitializedOnce ==
    \A p \in Payments : asked[p] <= 1 /\ (checkout[p] = "url" => asked[p] = 1)

PaymentWaits(s, t) ==
    \/ Waits(s, t)
    \/ pc[s] = "lockPayment" /\ HasPayment(t, Settling(s))
    \/ pc[s] = "evidence" /\ Evidencing(t) /\ SameEvent(EventOf(t), EventOf(s))

\* Settlements and closes never wait for each other in a circle: the payment
\* is locked first, its event is inserted next, and the ledger's rows follow.
NoPaymentDeadlock ==
    \A S \in (SUBSET Sessions) \ {{}} : \E s \in S : \A t \in S \ {s} : ~PaymentWaits(s, t)

Funding == INSTANCE PaymentBook WITH
    intent <- [p \in Payments |-> payment[p].intent],
    outcome <- [p \in Payments |-> payment[p].status]

\* Intents, settlements and the wallets' closing and freezing take effect one
\* at a time, as PaymentBook has them: requests that race under one key make one
\* payment, and a wallet is credited only while active, with the amount
\* intended, at the instant its payment succeeds.
ImplementsFunding == Funding!Spec

Paid(p) == charge[p].state = "paid" /\ charge[p].amount = payment[p].intent.amount

\* A step that is not a lost call, nor a failure of PostgreSQL's own.
Undisturbed ==
    \/ \E s \in Sessions : NewRequest(s) \/ CreateStep(s) \/ SettleStep(s)
    \/ \E p \in Payments :
         \E amount \in OtherAmounts \cup {payment[p].intent.amount} : Pay(p, amount)
    \/ WalletStep

\* What a customer has paid is credited in the end, also if the answer that
\* named the page was lost, provided that the wallet stays active and that calls
\* are not lost or aborted for ever.  Verifications that fail, conflicts, refused
\* settlements and closes may go on for ever.
PaidIsCredited ==
    \A p \in Payments :
        <>[](\A w \in Wallets : status[w] = "ACTIVE") /\ <>[][Undisturbed]_paymentVars
        => (Paid(p) ~> payment[p].status = "SUCCEEDED")
==============================================================================
