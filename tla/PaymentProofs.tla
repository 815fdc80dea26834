---------------------------- MODULE PaymentProofs ----------------------------
(***************************************************************************)
(* Payments, for every set of intents, callbacks, payments and sessions.   *)
(* The ledger's invariant is kept by every step of PaymentsService, so its *)
(* lemmas apply to the statements of postWithinTransaction here as well.   *)
(* On top of it, CallOK says what a call knows where it is, Apart what two *)
(* calls never share, and PaymentOK what the tables say of each payment.   *)
(***************************************************************************)
EXTENDS Payments, DeadlockProofs, BooksProofs

Charged == OtherAmounts \cup {c.amount : c \in Intents} \cup {0}

PaystackEvents ==
    {[provider |-> "PAYSTACK", id |-> <<"paystack", p>>, payment |-> p, amount |-> a,
      status |-> "SUCCEEDED", hash |-> <<p, a>>] : p \in Payments, a \in Charged}

\* What a provider can vouch for.
Verifiable == Callbacks \cup PaystackEvents

PaymentRows ==
    [status   : {"NONE", "PENDING", "SUCCEEDED", "FAILED"},
     provider : Modes \cup {""},
     intent   : Intents \cup {NoIntent}]

Requests ==
    [mode    : Modes \cup {""},
     intent  : Intents \cup {NoIntent},
     payment : Payments \cup {0},
     event   : Verifiable \cup {NoVerifiedEvent},
     row     : PaymentRows,
     events  : SUBSET Verifiable,
     tries   : 0..(MaxTries - 1)]

PaymentTypes ==
    /\ payment \in [Payments -> PaymentRows]
    /\ events \subseteq Verifiable
    /\ checkout \in [Payments -> {"none", "claimed", "url"}]
    /\ charge \in [Payments -> [state : {"none", "open", "paid"}, amount : Charged]]
    /\ asked \in [Payments -> Nat]
    /\ request \in [Sessions -> Requests]

\* Where settle is: it has begun, has locked the payment, posts to the ledger.
Posting == {"lock", "rejected", "broken", "insert", "update", "posted"}

Judged == {"refused", "known", "evidence", "settled"} \cup Posting

\* What a call knows of its payment and of its event.
CallOK(s) ==
    LET p == request[s].payment
        e == EventOf(s)
        row == request[s].row
    IN  /\ pc[s] \in PaymentLabels
        /\ pc[s] \in {"intent", "checkout", "initialize", "saveUrl", "verify", "settle"} =>
             tx[s] = NoTx
        /\ pc[s] = "intent" => /\ request[s].intent \in Intents /\ request[s].mode \in Modes
                               /\ request[s].intent.amount > 0
        /\ pc[s] \in {"checkout", "initialize", "saveUrl", "verify"} => p \in Payments
        /\ pc[s] = "initialize" => checkout[p] = "claimed" /\ asked[p] = 0
        /\ pc[s] = "saveUrl" => checkout[p] # "none" /\ asked[p] = 1
        /\ pc[s] \in {"settle", "lockPayment"} \cup Judged => e \in Verifiable
        /\ pc[s] \in {"lockPayment", "refused", "known", "evidence", "settled"} =>
             Serializable(s) /\ tx[s].accounts = {} /\ tx[s].wallets = {} /\ tx[s].written = {}
        /\ pc[s] \in {"lockPayment"} \cup Judged =>
             row.provider = e.provider /\ request[s].events \subseteq events
        /\ pc[s] \in Judged => payment[Settling(s)] = row
        /\ pc[s] = "known" => e \in events
        /\ pc[s] \in {"evidence", "settled"} \cup Posting =>
             row.intent.amount = e.amount /\ row.status \in {"PENDING", e.status}
        /\ Evidencing(s) => \A d \in events : ~SameEvent(d, e)
        /\ pc[s] \in Posting =>
             /\ row.status = "PENDING" /\ e.status = "SUCCEEDED"
             /\ tx[s].entry = FundingEntry(Settling(s))
        /\ pc[s] = "settled" => ~(row.status = "PENDING" /\ e.status = "SUCCEEDED")

\* The row lock on the payment, the unique key of the event, and the claim of
\* the checkout keep two calls apart.
Apart(s, t) ==
    /\ pc[s] \in Judged /\ pc[t] \in Judged => Settling(s) # Settling(t)
    /\ Evidencing(s) /\ Evidencing(t) => ~SameEvent(EventOf(s), EventOf(t))
    /\ pc[s] = "initialize" /\ pc[t] = "initialize" => request[s].payment # request[t].payment

\* What the tables say of a payment.
PaymentOK(p) ==
    /\ \/ payment[p] = NoPayment
       \/ /\ payment[p].status \in {"PENDING", "SUCCEEDED", "FAILED"}
          /\ payment[p].provider \in Modes /\ payment[p].intent \in Intents
          /\ payment[p].intent.amount > 0
    /\ IF payment[p].status = "SUCCEEDED" THEN \E e \in journal : Credits(p) = {e}
                                          ELSE Credits(p) = {}
    /\ payment[p].status \in {"SUCCEEDED", "FAILED"} <=> \E e \in events : e.payment = p
    /\ asked[p] <= 1
    /\ checkout[p] = "none" => asked[p] = 0
    /\ checkout[p] = "url" => asked[p] = 1

OutboxOf(type, result) == {<<type, p>> : p \in {q \in Payments : payment[q].status = result}}

\* Evidence and outbox, over all payments.
RecordsOK ==
    /\ outbox = OutboxOf("PAYMENT_SUCCEEDED", "SUCCEEDED") \cup OutboxOf("PAYMENT_FAILED", "FAILED")
    /\ \A e \in events : /\ e.status = payment[e.payment].status
                         /\ e.amount = payment[e.payment].intent.amount
    /\ \A d, e \in events : SameEvent(d, e) => d = e

\* Inductive.
PaymentInv ==
    /\ IndInv
    /\ PaymentTypes
    /\ \A s \in Sessions : CallOK(s)
    /\ \A s, t \in Sessions : s # t => Apart(s, t)
    /\ \A p \in Payments : PaymentOK(p)
    /\ RecordsOK
    /\ AcksAreFinal

-----------------------------------------------------------------------------
(* Events, requests and rows *)

\* An event that a provider has vouched for names a payment and an outcome, and
\* its hash and its payment tell it from every other event of the provider.
LEMMA VerifiableFacts ==
    ASSUME NEW e \in Verifiable
    PROVE  /\ e.payment \in Payments /\ e.status \in {"SUCCEEDED", "FAILED"}
           /\ e.provider \in {"MOCK", "PAYSTACK"}
           /\ \A d \in Verifiable :
                d.provider = e.provider /\ d.hash = e.hash /\ d.payment = e.payment => d = e
<1>1. \A d \in PaystackEvents :
         \E p \in Payments, a \in Charged :
            d = [provider |-> "PAYSTACK", id |-> <<"paystack", p>>, payment |-> p, amount |-> a,
                 status |-> "SUCCEEDED", hash |-> <<p, a>>]
  BY DEF PaystackEvents
<1>2. \A d \in PaystackEvents :
         /\ d.payment \in Payments /\ d.status = "SUCCEEDED" /\ d.provider = "PAYSTACK"
         /\ \A c \in PaystackEvents : c.hash = d.hash => c = d
  <2> SUFFICES ASSUME NEW d \in PaystackEvents
               PROVE  /\ d.payment \in Payments /\ d.status = "SUCCEEDED" /\ d.provider = "PAYSTACK"
                      /\ \A c \in PaystackEvents : c.hash = d.hash => c = d
    OBVIOUS
  <2>1. PICK p \in Payments, a \in Charged :
            d = [provider |-> "PAYSTACK", id |-> <<"paystack", p>>, payment |-> p, amount |-> a,
                 status |-> "SUCCEEDED", hash |-> <<p, a>>]
    BY <1>1
  <2>2. ASSUME NEW c \in PaystackEvents, c.hash = d.hash PROVE c = d
    <3>1. PICK q \in Payments, b \in Charged :
            c = [provider |-> "PAYSTACK", id |-> <<"paystack", q>>, payment |-> q, amount |-> b,
                 status |-> "SUCCEEDED", hash |-> <<q, b>>]
      BY <1>1
    <3>2. p = q /\ a = b
      BY <2>1, <2>2, <3>1
    <3> QED BY <2>1, <3>1, <3>2
  <2> QED BY <2>1, <2>2
<1> QED BY <1>2, CallbacksAssumption DEF Verifiable

\* No request, and no payment, are well typed.
LEMMA NoRequestType == NoRequest \in Requests /\ NoPayment \in PaymentRows
<1>1. NoPayment \in PaymentRows
  BY DEF NoPayment, PaymentRows
<1>2. 0 \in 0..(MaxTries - 1)
  BY PaymentsAssumption
<1> QED BY <1>1, <1>2 DEF NoRequest, Requests

\* A payment that is not there has neither status nor provider.
LEMMA NoPaymentFields == NoPayment.status = "NONE" /\ NoPayment.provider = ""
BY DEF NoPayment

\* What a payment posts is an entry of the ledger.
LEMMA FundingEntryType ==
    ASSUME NEW p \in Payments, payment[p].intent \in Intents
    PROVE  FundingEntry(p) \in Entries
<1>1. /\ payment[p].intent.wallet \in Wallets /\ payment[p].intent.amount \in Int
      /\ <<"payment", p>> \in References
  BY PaymentsAssumption
<1>2. CurrencyOf[payment[p].intent.wallet] \in Currencies
  BY <1>1, AccountsAssumption, ColumnsAssumption
<1> QED BY <1>1, <1>2 DEF FundingEntry, Entries

-----------------------------------------------------------------------------
(* Steps that leave the payments as they are *)

\* A call goes on knowing what it knew, if the others leave its transaction, its
\* payment, its event and its checkout alone.
LEMMA CallKeeps ==
    ASSUME PaymentInv, NEW t \in Sessions, NEW A, NEW W, Kept(t, A, W),
           pc'[t] = pc[t], request'[t] = request[t],
           events \subseteq events',
           pc[t] \in Judged => payment'[Settling(t)] = payment[Settling(t)],
           Evidencing(t) => \A d \in events' : d \in events \/ ~SameEvent(d, EventOf(t)),
           pc[t] \in {"initialize", "saveUrl"} =>
              /\ checkout'[request[t].payment] = checkout[request[t].payment]
                 \/ (pc[t] = "saveUrl" /\ checkout'[request[t].payment] # "none")
              /\ asked'[request[t].payment] = asked[request[t].payment]
    PROVE  CallOK(t)'
<1>1. CallOK(t)
  BY DEF PaymentInv
<1>2. EventOf(t)' = EventOf(t) /\ Settling(t)' = Settling(t) /\ Evidencing(t)' = Evidencing(t)
  BY DEF EventOf, Settling, Evidencing
<1>3. tx[t] = NoTx => tx'[t] = NoTx
  BY DEF Kept, NoTx, Serializable
<1>4. Serializable(t)' = Serializable(t)
  BY DEF Kept, Serializable
<1>5. pc[t] \in Posting => FundingEntry(Settling(t))' = FundingEntry(Settling(t))
  <2> SUFFICES ASSUME pc[t] \in Posting PROVE FundingEntry(Settling(t))' = FundingEntry(Settling(t))
    OBVIOUS
  <2>1. payment'[Settling(t)] = payment[Settling(t)]
    BY DEF Judged
  <2> QED BY <1>2, <2>1 DEF FundingEntry
<1>6. /\ tx'[t].accounts = tx[t].accounts /\ tx'[t].wallets = tx[t].wallets
      /\ tx'[t].written = tx[t].written /\ tx'[t].entry = tx[t].entry
  BY DEF Kept
<1> DEFINE p == request[t].payment
           e == EventOf(t)
           row == request[t].row
<1>7. /\ pc[t] = "initialize" => checkout'[p] = "claimed" /\ asked'[p] = 0
      /\ pc[t] = "saveUrl" => checkout'[p] # "none" /\ asked'[p] = 1
  BY <1>1 DEF CallOK
<1>8. /\ pc[t] \in {"lockPayment"} \cup Judged => row.provider = e.provider /\ request[t].events \subseteq events'
      /\ pc[t] \in Judged => payment'[Settling(t)] = row
      /\ pc[t] = "known" => e \in events'
      /\ Evidencing(t) => \A d \in events' : ~SameEvent(d, e)
  BY <1>1 DEF CallOK
<1>9. pc[t] \in Posting => tx[t].entry = FundingEntry(Settling(t))'
  BY <1>1, <1>5 DEF CallOK
<1> QED BY <1>1, <1>2, <1>3, <1>4, <1>6, <1>7, <1>8, <1>9 DEF CallOK

\* The tables of the payments are in order as long as nobody writes them.
LEMMA BooksKeep ==
    ASSUME PaymentInv, IndInv', request' \in [Sessions -> Requests],
           charge' \in [Payments -> [state : {"none", "open", "paid"}, amount : Charged]],
           \A t \in Sessions : CallOK(t)',
           \A t, u \in Sessions : t # u => Apart(t, u)',
           UNCHANGED <<journal, settlement, acks, checkout, asked>>
    PROVE  PaymentInv'
<1> USE DEF settlement
<1>1. PaymentTypes'
  BY DEF PaymentInv, PaymentTypes
<1>2. ASSUME NEW p \in Payments PROVE PaymentOK(p)'
  BY DEF PaymentInv, PaymentOK, Credits
<1>3. RecordsOK'
  BY DEF PaymentInv, RecordsOK, OutboxOf
<1>4. AcksAreFinal'
  BY DEF PaymentInv, AcksAreFinal
<1> QED BY <1>1, <1>2, <1>3, <1>4 DEF PaymentInv

\* One call moves on and the payments stay as they are.
LEMMA CallMoveInv ==
    ASSUME PaymentInv, IndInv', NEW s \in Sessions, NEW r \in Requests,
           request' = [request EXCEPT ![s] = r],
           \A t \in Sessions \ {s} : pc'[t] = pc[t] /\ \E A, W : Kept(t, A, W),
           charge' \in [Payments -> [state : {"none", "open", "paid"}, amount : Charged]],
           CallOK(s)',
           \A t \in Sessions \ {s} : Apart(s, t)',
           UNCHANGED <<journal, settlement, acks, checkout, asked>>
    PROVE  PaymentInv'
<1>1. request \in [Sessions -> Requests]
  BY DEF PaymentInv, PaymentTypes
<1>2. request' \in [Sessions -> Requests] /\ \A t \in Sessions \ {s} : request'[t] = request[t]
  BY <1>1
<1>3. ASSUME NEW t \in Sessions PROVE CallOK(t)'
  <2>1. CASE t = s
    BY <2>1
  <2>2. CASE t # s
    <3>1. PICK A, W : Kept(t, A, W)
      BY <2>2
    <3>2. pc'[t] = pc[t] /\ request'[t] = request[t]
      BY <1>2, <2>2
    <3>3. events' = events /\ payment' = payment /\ checkout' = checkout /\ asked' = asked
      BY DEF settlement
    <3> QED BY <3>1, <3>2, <3>3, CallKeeps
  <2> QED BY <2>1, <2>2
<1>4. ASSUME NEW t \in Sessions, NEW u \in Sessions, t # u PROVE Apart(t, u)'
  <2>1. CASE t = s
    BY <2>1, <1>4
  <2>2. CASE u = s
    <3>1. Apart(s, t)'
      BY <2>2, <1>4
    <3> QED BY <3>1, <2>2 DEF Apart, SameEvent
  <2>3. CASE t # s /\ u # s
    <3>1. Apart(t, u)
      BY <1>4 DEF PaymentInv
    <3>2. pc'[t] = pc[t] /\ pc'[u] = pc[u] /\ request'[t] = request[t] /\ request'[u] = request[u]
      BY <1>2, <2>3
    <3> QED BY <3>1, <3>2 DEF Apart, SameEvent, EventOf, Settling, Evidencing
  <2> QED BY <2>1, <2>2, <2>3
<1> QED BY <1>2, <1>3, <1>4, BooksKeep

\* A call that is over, or one of WalletsService, knows nothing of payments.
LEMMA QuietCall ==
    ASSUME NEW s \in Sessions, NEW t \in Sessions,
           pc'[s] \in {"idle", "closeAccount", "closeWallet", "closeDecide"}
    PROVE  CallOK(s)' /\ Apart(s, t)'
<1>1. ~Evidencing(s)'
  BY DEF Evidencing
<1>2. pc'[s] \notin Posting /\ pc'[s] \notin Judged
  BY DEF Posting, Judged
<1> QED BY <1>1, <1>2 DEF CallOK, Apart, PaymentLabels

-----------------------------------------------------------------------------
(* Calls outside of a transaction *)

Outside == {"idle", "intent", "checkout", "initialize", "saveUrl", "verify", "settle"}

\* A call that is in no transaction afterwards leaves the ledger as it was, and
\* the other calls where they were.
LEMMA OutsideStep ==
    ASSUME PaymentInv, NEW s \in Sessions, NEW to \in Outside, Goto(s, to),
           Rollback(s) \/ (UNCHANGED tx /\ tx[s] = NoTx), UNCHANGED tables
    PROVE  /\ IndInv' /\ pc'[s] = to /\ tx'[s] = NoTx
           /\ \A t \in Sessions \ {s} : pc'[t] = pc[t] /\ Kept(t, {}, {})
<1>1. IndInv /\ tx \in [Sessions -> Transactions] /\ DOMAIN pc = Sessions
  BY DEF PaymentInv, IndInv, StoreOK
<1>2. tx' = [tx EXCEPT ![s] = NoTx]
  BY <1>1 DEF Rollback
<1>3. /\ NoTx.accounts = {} /\ NoTx.wallets = {} /\ NoTx.isolation # "Serializable"
  BY DEF NoTx
<1>4. IndInv'
  BY <1>1, <1>2, <1>3, NoTxType, SessionMoveInv DEF Outside
<1>5. pc'[s] = to /\ tx'[s] = NoTx /\ \A t \in Sessions \ {s} : pc'[t] = pc[t] /\ tx'[t] = tx[t]
  BY <1>1, <1>2 DEF Goto
<1> QED BY <1>4, <1>5 DEF Kept

\* A call that ends, or goes on outside of a transaction with another request.
LEMMA RequestInv ==
    ASSUME PaymentInv, NEW s \in Sessions, NEW to \in Outside \ {"initialize", "saveUrl"},
           NEW r \in Requests, Goto(s, to), request' = [request EXCEPT ![s] = r],
           Rollback(s) \/ (UNCHANGED tx /\ tx[s] = NoTx), UNCHANGED tables,
           charge' \in [Payments -> [state : {"none", "open", "paid"}, amount : Charged]],
           UNCHANGED <<settlement, acks, checkout, asked>>,
           to = "intent" => r.intent \in Intents /\ r.mode \in Modes /\ r.intent.amount > 0,
           to \in {"checkout", "verify"} => r.payment \in Payments,
           to = "settle" => r.event \in Verifiable
    PROVE  PaymentInv'
<1>1. /\ IndInv' /\ pc'[s] = to /\ tx'[s] = NoTx
      /\ \A t \in Sessions \ {s} : pc'[t] = pc[t] /\ Kept(t, {}, {})
  BY OutsideStep
<1>2. request'[s] = r
  BY DEF PaymentInv, PaymentTypes
<1>3. ~Evidencing(s)' /\ to \notin Posting /\ to \notin Judged
  BY <1>1 DEF Evidencing, Outside, Posting, Judged
<1>4. CallOK(s)'
  BY <1>1, <1>2, <1>3 DEF CallOK, PaymentLabels, Outside, EventOf
<1>5. ASSUME NEW t \in Sessions PROVE Apart(s, t)'
  BY <1>1, <1>3 DEF Apart
<1>6. journal' = journal
  BY DEF tables
<1> QED BY <1>1, <1>4, <1>5, <1>6, CallMoveInv

\* Where a call is outside of a transaction, it has none.
LEMMA OutsideHasNoTx ==
    ASSUME PaymentInv, NEW s \in Sessions, pc[s] \in Outside
    PROVE  tx[s] = NoTx
BY DEF PaymentInv, IndInv, CallOK, Outside

\* The charges stay well typed as long as only the provider writes them.
LEMMA ChargeType ==
    ASSUME PaymentInv, charge' = charge
    PROVE  charge' \in [Payments -> [state : {"none", "open", "paid"}, amount : Charged]]
BY DEF PaymentInv, PaymentTypes

\* End: the answer has been given.
LEMMA EndInv ==
    ASSUME PaymentInv, NEW s \in Sessions, End(s),
           Rollback(s) \/ (UNCHANGED tx /\ pc[s] \in Outside), UNCHANGED tables,
           UNCHANGED <<settlement, acks, providerVars>>
    PROVE  PaymentInv'
<1>1. /\ Goto(s, "idle") /\ request' = [request EXCEPT ![s] = NoRequest]
      /\ charge' = charge /\ checkout' = checkout /\ asked' = asked
  BY DEF End, providerVars
<1> QED BY <1>1, NoRequestType, OutsideHasNoTx, ChargeType, RequestInv DEF Outside

\* Respond: the answer is read off the row, or the checkout follows.
LEMMA RespondInv ==
    ASSUME PaymentInv, NEW s \in Sessions, pc[s] \in Outside, NEW p \in Payments,
           NEW c, NEW m \in Modes, Respond(s, p, c, m), UNCHANGED tx, UNCHANGED tables,
           UNCHANGED <<settlement, acks, providerVars>>
    PROVE  PaymentInv'
<1>1. CASE End(s)
  BY <1>1, EndInv
<1>2. CASE ~End(s)
  <2> DEFINE r == [NoRequest EXCEPT !.mode = m, !.payment = p]
  <2>1. request' = [request EXCEPT ![s] = r] /\ Goto(s, "checkout")
    BY <1>2 DEF Respond
  <2>2. r \in Requests /\ r.payment = p
    BY NoRequestType DEF NoRequest, Requests
  <2>3. charge' = charge /\ checkout' = checkout /\ asked' = asked
    BY DEF providerVars
  <2> HIDE DEF r
  <2> QED BY <2>1, <2>2, <2>3, OutsideHasNoTx, ChargeType, RequestInv DEF Outside
<1> QED BY <1>1, <1>2

\* create, up to the insert.
LEMMA FindIntentInv ==
    ASSUME PaymentInv, NEW s \in Sessions, NEW c \in Intents, NEW m \in Modes, FindIntent(s, c, m)
    PROVE  PaymentInv'
<1>1. /\ pc[s] = "idle" /\ c.amount > 0
      /\ payment' = payment /\ UNCHANGED <<tables, tx, events, outbox, providerVars, acks>>
  BY DEF FindIntent
<1>2. UNCHANGED settlement /\ pc[s] \in Outside
  BY <1>1 DEF settlement, Outside
<1>3. CASE OfKey(c) # {}
  <2>1. PICK p \in OfKey(c) : Respond(s, p, c, m)
    BY <1>3 DEF FindIntent
  <2>2. p \in Payments
    BY DEF OfKey
  <2> QED BY <1>1, <1>2, <2>1, <2>2, RespondInv
<1>4. CASE OfKey(c) = {}
  <2> DEFINE r == [NoRequest EXCEPT !.mode = m, !.intent = c]
  <2>1. request' = [request EXCEPT ![s] = r] /\ Goto(s, "intent")
    BY <1>4 DEF FindIntent
  <2>2. r \in Requests /\ r.intent = c /\ r.mode = m
    BY NoRequestType DEF NoRequest, Requests
  <2>3. charge' = charge /\ checkout' = checkout /\ asked' = asked
    BY <1>1 DEF providerVars
  <2> HIDE DEF r
  <2> QED BY <1>1, <1>2, <2>1, <2>2, <2>3, OutsideHasNoTx, ChargeType, RequestInv DEF Outside
<1> QED BY <1>3, <1>4

\* Callbacks and reconciliations come in.
LEMMA ReceiveInv ==
    ASSUME PaymentInv, NEW s \in Sessions,
           \/ \E p \in Payments : ReceivePaystack(s, p) \/ Reconcile(s, p)
           \/ \E e \in Callbacks : ReceiveMock(s, e)
    PROVE  PaymentInv'
<1>1. /\ pc[s] = "idle" /\ pc[s] \in Outside
      /\ UNCHANGED <<tables, tx, settlement, providerVars, acks>>
  BY DEF ReceivePaystack, Reconcile, ReceiveMock, Outside
<1>2. charge' = charge /\ checkout' = checkout /\ asked' = asked
  BY <1>1 DEF providerVars
<1>3. request \in [Sessions -> Requests]
  BY DEF PaymentInv, PaymentTypes
<1>4. CASE \E p \in Payments : ReceivePaystack(s, p) \/ Reconcile(s, p)
  <2>1. PICK p \in Payments : request' = [request EXCEPT ![s].payment = p] /\ Goto(s, "verify")
    BY <1>4 DEF ReceivePaystack, Reconcile
  <2> DEFINE r == [request[s] EXCEPT !.payment = p]
  <2>2. r \in Requests /\ r.payment = p /\ request' = [request EXCEPT ![s] = r]
    BY <1>3, <2>1 DEF Requests
  <2> HIDE DEF r
  <2> QED BY <1>1, <1>2, <2>1, <2>2, OutsideHasNoTx, ChargeType, RequestInv DEF Outside
<1>5. CASE \E e \in Callbacks : ReceiveMock(s, e)
  <2>1. PICK e \in Callbacks : /\ request' = [request EXCEPT ![s] = [NoRequest EXCEPT !.event = e]]
                               /\ Goto(s, "settle")
    BY <1>5 DEF ReceiveMock
  <2> DEFINE r == [NoRequest EXCEPT !.event = e]
  <2>2. e \in Verifiable
    BY DEF Verifiable
  <2>3. r \in Requests /\ r.event = e
    BY <2>2, NoRequestType DEF NoRequest, Requests
  <2> HIDE DEF r
  <2>4. request' = [request EXCEPT ![s] = r]
    BY <2>1 DEF r
  <2> QED BY <1>1, <1>2, <2>1, <2>2, <2>3, <2>4, OutsideHasNoTx, ChargeType, RequestInv DEF Outside
<1> QED BY <1>4, <1>5

\* The provider's answer to verify, and no answer.
LEMMA VerifyInv ==
    ASSUME PaymentInv, NEW s \in Sessions, Verify(s) \/ VerifyFails(s)
    PROVE  PaymentInv'
<1>1. /\ pc[s] = "verify" /\ pc[s] \in Outside
      /\ UNCHANGED <<tables, tx, settlement, providerVars, acks>>
  BY DEF Verify, VerifyFails, Outside
<1>2. CASE VerifyFails(s)
  BY <1>1, <1>2, EndInv DEF VerifyFails
<1>3. CASE Verify(s)
  <2>1. PICK p \in Payments : p = request[s].payment
    BY <1>1 DEF PaymentInv, CallOK
  <2> DEFINE e == PaystackEvent(p)
             r == [NoRequest EXCEPT !.event = e]
  <2>2. request' = [request EXCEPT ![s] = r] /\ Goto(s, "settle")
    BY <1>3, <2>1 DEF Verify
  <2>3. e \in Verifiable
    <3>1. charge[p].amount \in Charged
      BY DEF PaymentInv, PaymentTypes
    <3> QED BY <3>1 DEF Verifiable, PaystackEvents, PaystackEvent
  <2> HIDE DEF e
  <2>4. r \in Requests /\ r.event = e
    BY <2>3, NoRequestType DEF NoRequest, Requests
  <2> HIDE DEF r
  <2>5. charge' = charge /\ checkout' = checkout /\ asked' = asked
    BY <1>1 DEF providerVars
  <2> QED BY <1>1, <2>2, <2>3, <2>4, <2>5, OutsideHasNoTx, ChargeType, RequestInv DEF Outside
<1> QED BY <1>2, <1>3

\* Two calls are kept apart by what the one that moves is kept apart from.
LEMMA ApartMove ==
    ASSUME PaymentInv, NEW s \in Sessions, NEW r \in Requests,
           request' = [request EXCEPT ![s] = r],
           \A t \in Sessions \ {s} : pc'[t] = pc[t] /\ Apart(s, t)'
    PROVE  \A t, u \in Sessions : t # u => Apart(t, u)'
<1> SUFFICES ASSUME NEW t \in Sessions, NEW u \in Sessions, t # u PROVE Apart(t, u)'
  OBVIOUS
<1>1. request \in [Sessions -> Requests]
  BY DEF PaymentInv, PaymentTypes
<1>2. CASE t = s
  BY <1>2
<1>3. CASE u = s
  <2>1. Apart(s, t)'
    BY <1>3
  <2> QED BY <2>1, <1>3 DEF Apart, SameEvent
<1>4. CASE t # s /\ u # s
  <2>1. Apart(t, u)
    BY DEF PaymentInv
  <2>2. pc'[t] = pc[t] /\ pc'[u] = pc[u] /\ request'[t] = request[t] /\ request'[u] = request[u]
    BY <1>1, <1>4
  <2> QED BY <2>1, <2>2 DEF Apart, SameEvent, EventOf, Settling, Evidencing
<1> QED BY <1>2, <1>3, <1>4

-----------------------------------------------------------------------------
(* The intent and its checkout *)

\* Respond ends the call or takes it to the checkout of the payment.
LEMMA RespondMoves ==
    ASSUME NEW s \in Sessions, NEW p \in Payments, NEW c, NEW m \in Modes, Respond(s, p, c, m)
    PROVE  \E to \in {"idle", "checkout"}, r \in Requests :
              /\ Goto(s, to) /\ request' = [request EXCEPT ![s] = r]
              /\ to = "checkout" => r.payment \in Payments
<1>1. CASE End(s)
  BY <1>1, NoRequestType DEF End
<1>2. CASE ~End(s)
  <2> DEFINE r == [NoRequest EXCEPT !.mode = m, !.payment = p]
  <2>1. request' = [request EXCEPT ![s] = r] /\ Goto(s, "checkout")
    BY <1>2 DEF Respond
  <2>2. r \in Requests /\ r.payment = p
    BY NoRequestType DEF NoRequest, Requests
  <2> HIDE DEF r
  <2> QED BY <2>1, <2>2
<1> QED BY <1>1, <1>2

\* The first call with a key inserts the payment: nobody knew its id before.
LEMMA NewIntentInv ==
    ASSUME PaymentInv, NEW s \in Sessions, pc[s] = "intent", NEW p \in Payments,
           FreshPayment(p),
           payment' = [payment EXCEPT ![p] = [status |-> "PENDING", provider |-> request[s].mode,
                                              intent |-> request[s].intent]],
           Respond(s, p, request[s].intent, request[s].mode),
           UNCHANGED <<tables, tx, events, outbox, providerVars, acks>>
    PROVE  PaymentInv'
<1> DEFINE c == request[s].intent
           m == request[s].mode
           row == [status |-> "PENDING", provider |-> m, intent |-> c]
<1>1. c \in Intents /\ m \in Modes /\ c.amount > 0
  BY DEF PaymentInv, CallOK
<1>2. payment \in [Payments -> PaymentRows] /\ request \in [Sessions -> Requests]
  BY DEF PaymentInv, PaymentTypes
<1>3. payment[p] = NoPayment /\ Credits(p) = {} /\ \A e \in events : e.payment # p
  <2>1. payment[p].status = "NONE" /\ PaymentOK(p)
    BY DEF FreshPayment, PaymentInv
  <2> QED BY <2>1 DEF PaymentOK
<1>4. row \in PaymentRows
  BY <1>1 DEF PaymentRows
<1>5. payment' \in [Payments -> PaymentRows] /\ payment'[p] = row
      /\ \A q \in Payments \ {p} : payment'[q] = payment[q]
  BY <1>2, <1>4
<1>6. PICK to \in {"idle", "checkout"}, r \in Requests :
              /\ Goto(s, to) /\ request' = [request EXCEPT ![s] = r]
              /\ to = "checkout" => r.payment \in Payments
  BY <1>1, RespondMoves
<1>7. /\ IndInv' /\ pc'[s] = to /\ tx'[s] = NoTx
      /\ \A t \in Sessions \ {s} : pc'[t] = pc[t] /\ Kept(t, {}, {})
  <2>1. tx[s] = NoTx
    BY OutsideHasNoTx DEF Outside
  <2> QED BY <1>6, <2>1, OutsideStep DEF Outside
<1>8. request' \in [Sessions -> Requests] /\ request'[s] = r
      /\ \A t \in Sessions \ {s} : request'[t] = request[t]
  BY <1>2, <1>6
<1>9. /\ UNCHANGED <<journal, events, outbox, acks>>
      /\ charge' = charge /\ checkout' = checkout /\ asked' = asked
  BY DEF providerVars, tables
<1>10. ~Evidencing(s)' /\ to \notin Posting /\ to \notin Judged
  BY <1>7 DEF Evidencing, Posting, Judged
<1>11. CallOK(s)'
  BY <1>6, <1>7, <1>8, <1>10 DEF CallOK, PaymentLabels
<1>12. \A t \in Sessions : CallOK(t)'
  <2> SUFFICES ASSUME NEW t \in Sessions \ {s} PROVE CallOK(t)'
    BY <1>11
  <2>1. pc[t] \in Judged => Settling(t) # p /\ Settling(t) \in Payments
    <3> SUFFICES ASSUME pc[t] \in Judged PROVE Settling(t) # p /\ Settling(t) \in Payments
      OBVIOUS
    <3>1. /\ EventOf(t) \in Verifiable /\ payment[Settling(t)] = request[t].row
          /\ request[t].row.provider = EventOf(t).provider
      BY DEF PaymentInv, CallOK
    <3>2. Settling(t) \in Payments /\ EventOf(t).provider # ""
      BY <3>1, VerifiableFacts DEF Settling
    <3>3. payment[p].provider = ""
      BY <1>3, NoPaymentFields
    <3> QED BY <3>1, <3>2, <3>3
  <2>2. pc[t] \in Judged => payment'[Settling(t)] = payment[Settling(t)]
    BY <1>5, <2>1
  <2>3. Kept(t, {}, {}) /\ pc'[t] = pc[t] /\ request'[t] = request[t]
    BY <1>7, <1>8
  <2> QED BY <2>2, <2>3, <1>9, CallKeeps
<1>13. \A t, u \in Sessions : t # u => Apart(t, u)'
  <2>1. \A t \in Sessions : Apart(s, t)'
    BY <1>7, <1>10 DEF Apart
  <2> QED BY <2>1, <1>6, <1>7, ApartMove
<1>14. PaymentTypes'
  BY <1>5, <1>8, <1>9 DEF PaymentInv, PaymentTypes
<1>15. ASSUME NEW q \in Payments PROVE PaymentOK(q)'
  <2>0. PaymentOK(q)
    BY DEF PaymentInv
  <2>1. Credits(q)' = Credits(q)
    BY <1>9 DEF Credits
  <2>2. CASE q = p
    BY <2>0, <2>1, <2>2, <1>1, <1>3, <1>5, <1>9 DEF PaymentOK
  <2>3. CASE q # p
    BY <2>0, <2>1, <2>3, <1>5, <1>9 DEF PaymentOK
  <2> QED BY <2>2, <2>3
<1>16. RecordsOK'
  <2>1. /\ OutboxOf("PAYMENT_SUCCEEDED", "SUCCEEDED")' = OutboxOf("PAYMENT_SUCCEEDED", "SUCCEEDED")
        /\ OutboxOf("PAYMENT_FAILED", "FAILED")' = OutboxOf("PAYMENT_FAILED", "FAILED")
    <3>1. \A result \in {"SUCCEEDED", "FAILED"} : {q \in Payments : payment'[q].status = result}
                       = {q \in Payments : payment[q].status = result}
      BY <1>3, <1>5, NoPaymentFields
    <3> QED BY <3>1 DEF OutboxOf
  <2>2. \A e \in events : e.payment \in Payments \ {p}
    BY <1>3, VerifiableFacts DEF PaymentInv, PaymentTypes
  <2>3. \A e \in events : payment'[e.payment] = payment[e.payment]
    BY <2>2, <1>5
  <2> QED BY <2>1, <2>3, <1>9 DEF PaymentInv, RecordsOK
<1>17. AcksAreFinal'
  <2>1. \A a \in acks : a.event \in events
    BY DEF PaymentInv, AcksAreFinal
  <2>2. \A e \in events : e.payment \in Payments \ {p}
    BY <1>3, VerifiableFacts DEF PaymentInv, PaymentTypes
  <2> QED BY <2>1, <2>2, <1>5, <1>9 DEF PaymentInv, AcksAreFinal
<1> QED BY <1>7, <1>12, <1>13, <1>14, <1>15, <1>16, <1>17 DEF PaymentInv

\* The insert of create, won or lost.
LEMMA InsertIntentInv ==
    ASSUME PaymentInv, NEW s \in Sessions, InsertIntent(s)
    PROVE  PaymentInv'
<1>1. pc[s] = "intent" /\ UNCHANGED <<tables, tx, events, outbox, providerVars, acks>>
  BY DEF InsertIntent
<1>2. request[s].mode \in Modes
  BY <1>1 DEF PaymentInv, CallOK
<1>3. CASE OfKey(request[s].intent) # {}
  <2>1. /\ UNCHANGED settlement /\ pc[s] \in Outside
        /\ \E p \in OfKey(request[s].intent) :
              Respond(s, p, request[s].intent, request[s].mode) \/ End(s)
    BY <1>1, <1>3 DEF InsertIntent, settlement, Outside
  <2>2. OfKey(request[s].intent) \subseteq Payments
    BY DEF OfKey
  <2> QED BY <1>1, <1>2, <2>1, <2>2, RespondInv, EndInv
<1>4. CASE OfKey(request[s].intent) = {}
  BY <1>1, <1>4, NewIntentInv DEF InsertIntent
<1> QED BY <1>3, <1>4

\* Call s, at the checkout of p, goes on to the label with request r, and every
\* other call at the checkout of p may go on as it did.
CheckoutMove(s, p, to, r) ==
    /\ pc[s] \in Outside /\ to \in {"idle", "initialize", "saveUrl"} /\ r \in Requests
    /\ Goto(s, to) /\ request' = [request EXCEPT ![s] = r]
    /\ UNCHANGED <<tables, tx, settlement, acks>>
    /\ checkout' \in [Payments -> {"none", "claimed", "url"}] /\ asked' \in [Payments -> Nat]
    /\ charge' \in [Payments -> [state : {"none", "open", "paid"}, amount : Charged]]
    /\ \A q \in Payments \ {p} : checkout'[q] = checkout[q] /\ asked'[q] = asked[q]
    /\ asked'[p] <= 1
    /\ checkout'[p] = "none" => asked'[p] = 0
    /\ checkout'[p] = "url" => asked'[p] = 1
    /\ to # "idle" => r.payment = p
    /\ to = "initialize" => checkout'[p] = "claimed" /\ asked'[p] = 0
    /\ to = "saveUrl" => checkout'[p] # "none" /\ asked'[p] = 1
    /\ \A t \in Sessions \ {s} : pc[t] \in {"initialize", "saveUrl"} /\ request[t].payment = p =>
         /\ pc[t] = "saveUrl" /\ to # "initialize"
         /\ checkout'[p] # "none" /\ asked'[p] = asked[p]

\* A call at a checkout moves on.
LEMMA CheckoutInv ==
    ASSUME PaymentInv, NEW s \in Sessions, NEW p \in Payments, NEW to, NEW r,
           CheckoutMove(s, p, to, r)
    PROVE  PaymentInv'
<1> USE DEF CheckoutMove
<1>1. /\ IndInv' /\ pc'[s] = to /\ tx'[s] = NoTx
      /\ \A t \in Sessions \ {s} : pc'[t] = pc[t] /\ Kept(t, {}, {})
  BY OutsideHasNoTx, OutsideStep DEF Outside
<1>2. request \in [Sessions -> Requests] /\ \A t \in Sessions : CallOK(t)
  BY DEF PaymentInv, PaymentTypes
<1>3. request' \in [Sessions -> Requests] /\ request'[s] = r
      /\ \A t \in Sessions \ {s} : request'[t] = request[t]
  BY <1>2
<1>4. UNCHANGED <<journal, payment, events, outbox, acks>>
  BY DEF tables, settlement
<1>5. ~Evidencing(s)' /\ to \notin Posting /\ to \notin Judged
  BY <1>1 DEF Evidencing, Posting, Judged
<1>6. CallOK(s)'
  BY <1>1, <1>3, <1>5 DEF CallOK, PaymentLabels
<1>7. \A t \in Sessions : CallOK(t)'
  <2> SUFFICES ASSUME NEW t \in Sessions \ {s} PROVE CallOK(t)'
    BY <1>6
  <2>1. pc[t] \in {"initialize", "saveUrl"} => request[t].payment \in Payments
    BY <1>2 DEF CallOK
  <2>2. pc[t] \in {"initialize", "saveUrl"} =>
              /\ checkout'[request[t].payment] = checkout[request[t].payment]
                 \/ (pc[t] = "saveUrl" /\ checkout'[request[t].payment] # "none")
              /\ asked'[request[t].payment] = asked[request[t].payment]
    BY <2>1
  <2>3. Kept(t, {}, {}) /\ pc'[t] = pc[t] /\ request'[t] = request[t]
    BY <1>1, <1>3
  <2> QED BY <2>2, <2>3, <1>4, CallKeeps
<1>8. \A t, u \in Sessions : t # u => Apart(t, u)'
  <2>1. ASSUME NEW t \in Sessions \ {s} PROVE Apart(s, t)'
    <3>1. pc'[s] = "initialize" /\ pc'[t] = "initialize" => request'[s].payment # request'[t].payment
      BY <1>1, <1>3
    <3> QED BY <1>1, <1>5, <3>1 DEF Apart
  <2>2. \A t \in Sessions \ {s} : pc'[t] = pc[t] /\ Apart(s, t)'
    BY <2>1, <1>1
  <2> QED BY <2>2, ApartMove
<1>9. PaymentTypes'
  BY <1>3, <1>4 DEF PaymentInv, PaymentTypes
<1>10. ASSUME NEW q \in Payments PROVE PaymentOK(q)'
  <2>1. PaymentOK(q) /\ Credits(q)' = Credits(q)
    BY <1>4 DEF PaymentInv, Credits
  <2>2. CASE q = p
    BY <2>1, <2>2, <1>4 DEF PaymentOK
  <2>3. CASE q # p
    BY <2>1, <2>3, <1>4 DEF PaymentOK
  <2> QED BY <2>2, <2>3
<1>11. RecordsOK' /\ AcksAreFinal'
  BY <1>4 DEF PaymentInv, RecordsOK, OutboxOf, AcksAreFinal
<1> QED BY <1>1, <1>7, <1>8, <1>9, <1>10, <1>11 DEF PaymentInv

\* initializePaystack: the claim, the request to Paystack and its URL.  Between
\* the claim and the request nobody else has asked Paystack for the payment.
LEMMA CheckoutStepInv ==
    ASSUME PaymentInv, NEW s \in Sessions, ClaimCheckout(s) \/ Initialize(s) \/ SaveUrl(s)
    PROVE  PaymentInv'
<1> DEFINE p == request[s].payment
<1>1. pc[s] \in {"checkout", "initialize", "saveUrl"} /\ UNCHANGED <<tables, tx, settlement, acks>>
      /\ pc[s] \in Outside
  BY DEF ClaimCheckout, Initialize, SaveUrl, Outside
<1>2. p \in Payments /\ CallOK(s) /\ request[s] \in Requests
  BY <1>1 DEF PaymentInv, PaymentTypes, CallOK
<1>3. /\ checkout \in [Payments -> {"none", "claimed", "url"}] /\ asked \in [Payments -> Nat]
      /\ charge \in [Payments -> [state : {"none", "open", "paid"}, amount : Charged]]
      /\ request \in [Sessions -> Requests] /\ DOMAIN pc = Sessions
  BY DEF PaymentInv, PaymentTypes, IndInv, StoreOK
<1>4. PaymentOK(p)
  BY <1>2 DEF PaymentInv
<1>5. \A t \in Sessions \ {s} : CallOK(t) /\ Apart(s, t)
  BY DEF PaymentInv
<1>6. UNCHANGED request => request' = [request EXCEPT ![s] = request[s]]
  BY <1>3
<1>7. End(s) => Goto(s, "idle") /\ request' = [request EXCEPT ![s] = NoRequest] /\ NoRequest \in Requests
  BY NoRequestType DEF End
<1>8. CASE ClaimCheckout(s)
  <2>1. pc[s] = "checkout" /\ charge' = charge /\ asked' = asked
    BY <1>8 DEF ClaimCheckout
  <2>2. CASE checkout[p] # "none"
    <3>1. End(s) /\ UNCHANGED checkout
      BY <1>8, <2>2 DEF ClaimCheckout
    <3> QED BY <1>1, <2>1, <3>1, EndInv DEF providerVars
  <2>3. CASE checkout[p] = "none"
    <3>1. /\ checkout' = [checkout EXCEPT ![p] = "claimed"]
          /\ Goto(s, "initialize") /\ request' = [request EXCEPT ![s] = request[s]]
      BY <1>6, <1>8, <2>3 DEF ClaimCheckout
    <3>2. asked[p] = 0 /\ checkout'[p] = "claimed"
      BY <1>2, <1>3, <1>4, <2>3, <3>1 DEF PaymentOK
    <3>3. \A t \in Sessions \ {s} : pc[t] \in {"initialize", "saveUrl"} => request[t].payment # p
      BY <1>5, <2>3 DEF CallOK
    <3>4. checkout' \in [Payments -> {"none", "claimed", "url"}]
          /\ \A q \in Payments \ {p} : checkout'[q] = checkout[q]
      BY <1>2, <1>3, <3>1
    <3>5. "initialize" \in Outside
      BY DEF Outside
    <3>6. /\ asked' \in [Payments -> Nat] /\ asked'[p] = 0
          /\ \A q \in Payments \ {p} : asked'[q] = asked[q]
          /\ charge' \in [Payments -> [state : {"none", "open", "paid"}, amount : Charged]]
      BY <1>3, <2>1, <3>2
    <3> HIDE DEF p
    <3>7. PICK r : r = request[s] /\ r \in Requests /\ r.payment = p
      BY <1>2 DEF p
    <3>8. request' = [request EXCEPT ![s] = r]
      BY <3>1, <3>7
    <3>9. CheckoutMove(s, p, "initialize", r)
      BY <1>1, <3>1, <3>2, <3>3, <3>4, <3>6, <3>7, <3>8 DEF CheckoutMove
    <3> QED BY <1>2, <3>9, CheckoutInv
  <2> QED BY <2>2, <2>3
<1>9. CASE Initialize(s)
  <2>1. pc[s] = "initialize" /\ checkout' = checkout /\ asked' = [asked EXCEPT ![p] = @ + 1]
    BY <1>9 DEF Initialize
  <2>2. asked[p] = 0 /\ checkout[p] = "claimed"
    BY <1>2, <2>1 DEF CallOK
  <2>3. asked'[p] = 1 /\ asked' \in [Payments -> Nat] /\ \A q \in Payments \ {p} : asked'[q] = asked[q]
    BY <1>2, <1>3, <2>1, <2>2
  <2>4. charge' \in [Payments -> [state : {"none", "open", "paid"}, amount : Charged]]
    <3>1. charge' = charge \/ charge' = [charge EXCEPT ![p].state = "open"]
      BY <1>9 DEF Initialize
    <3> QED BY <1>2, <1>3, <3>1
  <2>5. \E to \in {"idle", "saveUrl"}, r \in Requests :
           Goto(s, to) /\ request' = [request EXCEPT ![s] = r] /\ (to # "idle" => r.payment = p)
    <3>1. End(s) \/ (Goto(s, "saveUrl") /\ UNCHANGED request)
      BY <1>9 DEF Initialize
    <3> QED BY <1>2, <1>6, <1>7, <3>1
  <2>6. \A t \in Sessions \ {s} : pc[t] \in {"initialize", "saveUrl"} => request[t].payment # p
    BY <1>5, <2>1, <2>2 DEF CallOK, Apart
  <2>7. PICK to \in {"idle", "saveUrl"}, r \in Requests :
           Goto(s, to) /\ request' = [request EXCEPT ![s] = r] /\ (to # "idle" => r.payment = p)
    BY <2>5
  <2>8. checkout' \in [Payments -> {"none", "claimed", "url"}] /\ to \in Outside
        /\ checkout'[p] = "claimed" /\ \A q \in Payments \ {p} : checkout'[q] = checkout[q]
    BY <1>3, <2>1, <2>2 DEF Outside
  <2> HIDE DEF p
  <2>9. CheckoutMove(s, p, to, r)
    BY <1>1, <2>3, <2>4, <2>6, <2>7, <2>8 DEF CheckoutMove
  <2> QED BY <1>2, <2>9, CheckoutInv
<1>10. CASE SaveUrl(s)
  <2>1. /\ pc[s] = "saveUrl" /\ charge' = charge /\ asked' = asked /\ End(s)
        /\ checkout' = IF checkout[p] = "claimed" THEN [checkout EXCEPT ![p] = "url"] ELSE checkout
    BY <1>10 DEF SaveUrl
  <2>2. checkout[p] # "none" /\ asked[p] = 1
    BY <1>2, <2>1 DEF CallOK
  <2>3. /\ checkout' \in [Payments -> {"none", "claimed", "url"}] /\ checkout'[p] # "none"
        /\ \A q \in Payments \ {p} : checkout'[q] = checkout[q]
    BY <1>2, <1>3, <2>1, <2>2
  <2>4. \A t \in Sessions \ {s} : pc[t] \in {"initialize", "saveUrl"} /\ request[t].payment = p =>
           pc[t] = "saveUrl"
    BY <1>5, <2>2 DEF CallOK
  <2> HIDE DEF p
  <2>5. CheckoutMove(s, p, "idle", NoRequest)
    BY <1>1, <1>3, <1>7, <2>1, <2>2, <2>3, <2>4 DEF CheckoutMove
  <2> QED BY <1>2, <2>5, CheckoutInv
<1> QED BY <1>8, <1>9, <1>10

\* The customer pays.
LEMMA PayInv ==
    ASSUME PaymentInv, NEW p \in Payments,
           NEW amount \in OtherAmounts \cup {payment[p].intent.amount}, Pay(p, amount)
    PROVE  PaymentInv'
<1>1. amount \in Charged
  <2>1. payment[p].intent \in Intents \cup {NoIntent}
    BY DEF PaymentInv, PaymentTypes, PaymentRows
  <2>2. NoIntent.amount = 0
    BY DEF NoIntent
  <2> QED BY <2>1, <2>2 DEF Charged
<1>2. charge' \in [Payments -> [state : {"none", "open", "paid"}, amount : Charged]]
  BY <1>1 DEF Pay, PaymentInv, PaymentTypes
<1>3. UNCHANGED <<vars, settlement, checkout, asked, acks, request>>
  BY DEF Pay
<1>4. /\ UNCHANGED <<balance, status, walletBalance, journal, pc, tx, payment, events, outbox>>
      /\ UNCHANGED <<checkout, asked, acks, request>>
  BY <1>3 DEF vars, settlement
<1>5. IndInv'
  BY <1>4 DEF PaymentInv, IndInv, StoreOK, WalletMirrorsAccount, BalancesAllowed, ClosedIsEmpty,
     LocksExclusive, SnapshotsHold, Serializable, PostConsistent, WalletCallConsistent, Found,
     PostedBy, Acceptable, NextBalance, Inserted, ReferenceUsed, ReferenceHolders, Target, Creating
<1>6. ASSUME NEW t \in Sessions PROVE CallOK(t)'
  <2>1. Kept(t, {}, {})
    BY <1>4 DEF Kept
  <2> QED BY <1>4, <2>1, CallKeeps
<1>7. ASSUME NEW t \in Sessions, NEW u \in Sessions, t # u PROVE Apart(t, u)'
  <2>1. Apart(t, u)
    BY <1>7 DEF PaymentInv
  <2> QED BY <2>1, <1>4 DEF Apart, EventOf, Settling, Evidencing
<1>8. request' \in [Sessions -> Requests]
  BY <1>4 DEF PaymentInv, PaymentTypes
<1> QED BY <1>2, <1>3, <1>4, <1>5, <1>6, <1>7, <1>8, BooksKeep DEF settlement

-----------------------------------------------------------------------------
(* The transaction of settle, up to the ledger *)

\* A transaction that has locked nothing of the ledger moves on.
LEMMA SettleMove ==
    ASSUME PaymentInv, NEW s \in Sessions, NEW x \in Transactions,
           NEW to \in {"lockPayment", "refused", "known", "evidence", "settled", "lock"},
           Goto(s, to), tx' = [tx EXCEPT ![s] = x], UNCHANGED tables,
           x.isolation = "Serializable", x.accounts = {}, x.wallets = {}, x.written = {},
           \/ x.snap = Snapshot
           \/ /\ Serializable(s) /\ x.snap = tx[s].snap
              /\ x.staleAccounts = tx[s].staleAccounts /\ x.staleWallets = tx[s].staleWallets
    PROVE  /\ IndInv' /\ pc'[s] = to /\ tx'[s] = x
           /\ \A t \in Sessions \ {s} : pc'[t] = pc[t] /\ \E A, W : Kept(t, A, W)
<1>1. IndInv /\ tx \in [Sessions -> Transactions] /\ DOMAIN pc = Sessions
  BY DEF PaymentInv, IndInv, StoreOK
<1>2. IndInv'
  BY <1>1, SessionMoveInv
<1>3. pc'[s] = to /\ tx'[s] = x /\ \A t \in Sessions \ {s} : pc'[t] = pc[t] /\ tx'[t] = tx[t]
  BY <1>1 DEF Goto
<1>4. \A t \in Sessions \ {s} : Kept(t, {}, {})
  BY <1>3 DEF Kept
<1> QED BY <1>2, <1>3, <1>4

\* The snapshot is taken: what the call knows of its payment is from there.
LEMMA BeginSettleInv ==
    ASSUME PaymentInv, NEW s \in Sessions, BeginSettle(s)
    PROVE  PaymentInv'
<1>1. pc[s] = "settle" /\ UNCHANGED <<tables, settlement, providerVars, acks>> /\ pc[s] \in Outside
  BY DEF BeginSettle, Outside
<1>2. CASE payment[Settling(s)].provider # EventOf(s).provider
  <2>1. End(s) /\ UNCHANGED tx
    BY <1>2 DEF BeginSettle
  <2> QED BY <1>1, <2>1, EndInv
<1>3. CASE payment[Settling(s)].provider = EventOf(s).provider
  <2>1. /\ tx' = [tx EXCEPT ![s] = [NoTx EXCEPT !.isolation = "Serializable", !.snap = Snapshot]]
        /\ request' = [request EXCEPT ![s].row = payment[Settling(s)], ![s].events = events]
        /\ Goto(s, "lockPayment")
    BY <1>3 DEF BeginSettle
  <2>2. EventOf(s) \in Verifiable /\ request \in [Sessions -> Requests] /\ events \subseteq Verifiable
    BY <1>1 DEF PaymentInv, CallOK, PaymentTypes
  <2>3. payment[Settling(s)] \in PaymentRows
    BY <2>2, VerifiableFacts DEF Settling, PaymentInv, PaymentTypes
  <2> DEFINE r0 == [request[s] EXCEPT !.row = payment[Settling(s)], !.events = events]
             x0 == [NoTx EXCEPT !.isolation = "Serializable", !.snap = Snapshot]
  <2>4. PICK r : /\ r \in Requests /\ r.row = payment[Settling(s)] /\ r.events = events
                 /\ r.event = EventOf(s) /\ request' = [request EXCEPT ![s] = r]
    <3>1. r0 \in Requests
      BY <2>2, <2>3 DEF Requests
    <3>2. r0.row = payment[Settling(s)] /\ r0.events = events /\ r0.event = EventOf(s)
      BY <2>2 DEF Requests, EventOf
    <3>3. request' = [request EXCEPT ![s] = r0]
      BY <2>1, <2>2
    <3> HIDE DEF r0
    <3> QED BY <3>1, <3>2, <3>3
  <2>5. PICK x : /\ x \in Transactions /\ x.isolation = "Serializable" /\ x.snap = Snapshot
                 /\ x.accounts = {} /\ x.wallets = {} /\ x.written = {}
                 /\ tx' = [tx EXCEPT ![s] = x]
    <3>1. Snapshot \in Snapshots
      BY DEF PaymentInv, IndInv, StoreOK, Snapshot, Snapshots
    <3>2. x0 \in Transactions
      BY <3>1, NoTxType DEF Transactions
    <3>3. x0.isolation = "Serializable" /\ x0.snap = Snapshot
          /\ x0.accounts = {} /\ x0.wallets = {} /\ x0.written = {}
      BY DEF NoTx
    <3>4. tx' = [tx EXCEPT ![s] = x0]
      BY <2>1
    <3> HIDE DEF x0
    <3> QED BY <3>2, <3>3, <3>4
  <2>6. /\ IndInv' /\ pc'[s] = "lockPayment" /\ tx'[s] = x
        /\ \A t \in Sessions \ {s} : pc'[t] = pc[t] /\ \E A, W : Kept(t, A, W)
    BY <1>1, <2>1, <2>5, SettleMove
  <2>7. request'[s] = r /\ UNCHANGED <<journal, payment, events>>
    BY <1>1, <2>2, <2>4 DEF tables, settlement
  <2>8. ~Evidencing(s)' /\ "lockPayment" \notin Posting /\ "lockPayment" \notin Judged
    BY <2>6 DEF Evidencing, Posting, Judged
  <2>9. EventOf(s)' = EventOf(s) /\ Serializable(s)'
    BY <2>4, <2>5, <2>6, <2>7 DEF EventOf, Serializable
  <2>10. CallOK(s)'
    BY <1>3, <2>2, <2>4, <2>5, <2>6, <2>7, <2>8, <2>9 DEF CallOK, PaymentLabels
  <2>11. \A t \in Sessions \ {s} : Apart(s, t)'
    BY <2>6, <2>8 DEF Apart
  <2>12. UNCHANGED <<journal, settlement, acks, checkout, asked>> /\ charge' = charge
    BY <1>1, <2>7 DEF providerVars
  <2> QED BY <2>4, <2>6, <2>10, <2>11, <2>12, ChargeType, CallMoveInv
<1> QED BY <1>2, <1>3

\* What a call knows that has locked its payment, before it calls the ledger.
LEMMA JudgedFacts ==
    ASSUME PaymentInv, NEW s \in Sessions, pc[s] \in {"lockPayment"} \cup Judged
    PROVE  /\ CallOK(s) /\ EventOf(s) \in Verifiable /\ Settling(s) \in Payments
           /\ request[s] \in Requests /\ tx[s] \in Transactions
           /\ request[s].events \subseteq events /\ events \subseteq Verifiable
           /\ request[s].row.provider = EventOf(s).provider
           /\ EventOf(s).provider # "" /\ EventOf(s).status \in {"SUCCEEDED", "FAILED"}
<1>1. EventOf(s) \in Verifiable /\ CallOK(s)
  BY DEF PaymentInv, CallOK
<1>2. request[s] \in Requests /\ tx[s] \in Transactions /\ events \subseteq Verifiable
  BY DEF PaymentInv, PaymentTypes, IndInv, StoreOK
<1>3. request[s].events \subseteq events /\ request[s].row.provider = EventOf(s).provider
  BY <1>1 DEF CallOK
<1> QED BY <1>1, <1>2, <1>3, VerifiableFacts DEF Settling

\* The row lock on the payment, and the verdict over the event.
LEMMA LockPaymentInv ==
    ASSUME PaymentInv, NEW s \in Sessions, LockPayment(s)
    PROVE  PaymentInv'
<1>1. /\ pc[s] = "lockPayment" /\ PaymentFree(Settling(s), s)
      /\ payment[Settling(s)] = request[s].row /\ Goto(s, EventVerdict(s))
      /\ UNCHANGED <<tables, tx, settlement, providerVars, acks, request>>
  BY DEF LockPayment
<1> DEFINE e == EventOf(s)
           row == request[s].row
           stored == {d \in request[s].events : SameEvent(d, e)}
<1>2. /\ CallOK(s) /\ e \in Verifiable /\ Settling(s) \in Payments
      /\ request[s] \in Requests /\ tx[s] \in Transactions
      /\ request[s].events \subseteq events /\ events \subseteq Verifiable
  BY <1>1, JudgedFacts
<1>3. /\ EventVerdict(s) \in {"refused", "known", "evidence"}
      /\ EventVerdict(s) # "refused" => row.intent.amount = e.amount
      /\ EventVerdict(s) = "known" => stored # {} /\ \A d \in stored : d.hash = e.hash /\ d.payment = e.payment
      /\ EventVerdict(s) = "evidence" => row.status \in {"PENDING", e.status}
  <2>1. CASE row.intent.amount # e.amount
    BY <2>1 DEF EventVerdict
  <2>2. CASE row.intent.amount = e.amount /\ stored # {}
    BY <2>2 DEF EventVerdict
  <2>3. CASE row.intent.amount = e.amount /\ stored = {} /\ row.status \notin {"PENDING", e.status}
    BY <2>3 DEF EventVerdict
  <2>4. CASE row.intent.amount = e.amount /\ stored = {} /\ row.status \in {"PENDING", e.status}
    BY <2>4 DEF EventVerdict
  <2> QED BY <2>1, <2>2, <2>3, <2>4
<1>4. EventVerdict(s) = "known" => e \in events
  <2> SUFFICES ASSUME EventVerdict(s) = "known" PROVE e \in events
    OBVIOUS
  <2>1. PICK d \in request[s].events : SameEvent(d, e) /\ d.hash = e.hash /\ d.payment = e.payment
    BY <1>3
  <2>2. d \in Verifiable /\ d \in events /\ d.provider = e.provider
    BY <1>2, <2>1 DEF SameEvent
  <2>3. d = e
    BY <1>2, <2>1, <2>2, VerifiableFacts
  <2> QED BY <2>2, <2>3
<1>5. PICK to \in {"refused", "known", "evidence"} : to = EventVerdict(s)
  BY <1>3
<1>6. /\ tx' = [tx EXCEPT ![s] = tx[s]] /\ request' = [request EXCEPT ![s] = request[s]]
      /\ request' = request /\ tx' = tx /\ payment' = payment /\ events' = events
  <2>1. tx \in [Sessions -> Transactions] /\ request \in [Sessions -> Requests]
    BY DEF PaymentInv, IndInv, StoreOK, PaymentTypes
  <2>2. request' = request /\ tx' = tx /\ payment' = payment /\ events' = events
    BY <1>1 DEF settlement
  <2>3. tx = [tx EXCEPT ![s] = tx[s]] /\ request = [request EXCEPT ![s] = request[s]]
    BY <2>1
  <2> QED BY <2>2, <2>3
<1>7. /\ Serializable(s) /\ tx[s].accounts = {} /\ tx[s].wallets = {} /\ tx[s].written = {}
  BY <1>1, <1>2 DEF CallOK
<1>8. /\ IndInv' /\ pc'[s] = to
      /\ \A t \in Sessions \ {s} : pc'[t] = pc[t] /\ \E A, W : Kept(t, A, W)
  <2>1. tx[s].isolation = "Serializable" /\ Goto(s, to)
    BY <1>1, <1>5, <1>7 DEF Serializable
  <2> QED BY <1>1, <1>2, <1>6, <1>7, <2>1, SettleMove
<1>9. ~Evidencing(s)' /\ to \notin Posting
  BY <1>8 DEF Evidencing, Posting
<1>10. CallOK(s)'
  <2>1. EventOf(s)' = e /\ Settling(s)' = Settling(s) /\ Serializable(s)' = Serializable(s)
    BY <1>6 DEF EventOf, Settling, Serializable
  <2>2. row.provider = e.provider
    BY <1>1, <1>2 DEF CallOK
  <2> HIDE DEF e, stored
  <2> QED BY <1>1, <1>2, <1>3, <1>4, <1>5, <1>6, <1>7, <1>8, <1>9, <2>1, <2>2 DEF CallOK, PaymentLabels
<1>11. ASSUME NEW t \in Sessions \ {s} PROVE Apart(s, t)'
  <2>1. pc[t] \in Judged => Settling(t) # Settling(s)
    BY <1>1 DEF PaymentFree, HasPayment, Judged, Posting, Evidencing
  <2>2. Settling(s)' = Settling(s) /\ Settling(t)' = Settling(t) /\ pc'[t] = pc[t]
    BY <1>6, <1>8 DEF Settling, EventOf
  <2> QED BY <1>8, <1>9, <2>1, <2>2 DEF Apart
<1>12. UNCHANGED <<journal, settlement, acks, checkout, asked>> /\ charge' = charge
  BY <1>1 DEF providerVars, tables
<1> QED BY <1>2, <1>6, <1>8, <1>10, <1>11, <1>12, ChargeType, CallMoveInv

\* A call that works on its payment has found it whole.
LEMMA SettlingIsThere ==
    ASSUME PaymentInv, NEW s \in Sessions, pc[s] \in Judged
    PROVE  /\ payment[Settling(s)] = request[s].row
           /\ payment[Settling(s)].intent \in Intents
           /\ payment[Settling(s)].provider \in Modes
           /\ payment[Settling(s)].intent.amount > 0
           /\ payment[Settling(s)].status \in {"PENDING", "SUCCEEDED", "FAILED"}
<1>1. /\ CallOK(s) /\ Settling(s) \in Payments
      /\ request[s].row.provider = EventOf(s).provider /\ EventOf(s).provider # ""
  BY JudgedFacts
<1>2. payment[Settling(s)] = request[s].row /\ PaymentOK(Settling(s))
  BY <1>1 DEF CallOK, PaymentInv
<1>3. payment[Settling(s)] # NoPayment
  BY <1>1, <1>2, NoPaymentFields
<1> QED BY <1>2, <1>3 DEF PaymentOK

\* The evidence is inserted, and the ledger is called or not.
LEMMA InsertEvidenceInv ==
    ASSUME PaymentInv, NEW s \in Sessions, InsertEvidence(s)
    PROVE  PaymentInv'
<1> DEFINE e == EventOf(s)
           row == request[s].row
<1>1. /\ pc[s] = "evidence"
      /\ \A t \in Sessions \ {s} : Evidencing(t) => ~SameEvent(EventOf(t), EventOf(s))
      /\ \A d \in events : ~SameEvent(d, EventOf(s))
      /\ UNCHANGED <<tables, settlement, providerVars, acks, request>>
  BY DEF InsertEvidence
<1>2. pc[s] \in Judged
  BY <1>1 DEF Judged
<1>3. /\ CallOK(s) /\ Settling(s) \in Payments /\ e \in Verifiable
      /\ request[s] \in Requests /\ tx[s] \in Transactions
      /\ row.provider = e.provider /\ request[s].events \subseteq events
  BY <1>2, JudgedFacts
<1>4. /\ Serializable(s) /\ tx[s].accounts = {} /\ tx[s].wallets = {} /\ tx[s].written = {}
      /\ payment[Settling(s)] = row /\ row.intent.amount = e.amount
      /\ row.status \in {"PENDING", e.status}
  BY <1>1, <1>2, <1>3 DEF CallOK
<1>5. PICK to \in {"lock", "settled"}, x \in Transactions :
         /\ Goto(s, to) /\ tx' = [tx EXCEPT ![s] = x]
         /\ x.isolation = "Serializable" /\ x.accounts = {} /\ x.wallets = {} /\ x.written = {}
         /\ x.snap = tx[s].snap
         /\ x.staleAccounts = tx[s].staleAccounts /\ x.staleWallets = tx[s].staleWallets
         /\ to = "lock" => /\ row.status = "PENDING" /\ e.status = "SUCCEEDED"
                           /\ x.entry = FundingEntry(Settling(s))
         /\ to = "settled" => ~(row.status = "PENDING" /\ e.status = "SUCCEEDED")
  <2>0. tx \in [Sessions -> Transactions]
    BY DEF PaymentInv, IndInv, StoreOK
  <2>1. CASE row.status = "PENDING" /\ e.status = "SUCCEEDED"
    <3> DEFINE x0 == [tx[s] EXCEPT !.entry = FundingEntry(Settling(s))]
    <3>1. tx' = [tx EXCEPT ![s].entry = FundingEntry(Settling(s))] /\ Goto(s, "lock")
      BY <2>1 DEF InsertEvidence
    <3>2. FundingEntry(Settling(s)) \in Entries
      BY <1>2, <1>3, SettlingIsThere, FundingEntryType
    <3>3. x0 \in Transactions /\ tx' = [tx EXCEPT ![s] = x0]
      BY <1>3, <2>0, <3>1, <3>2 DEF Transactions
    <3>4. /\ x0.isolation = tx[s].isolation /\ x0.accounts = tx[s].accounts
          /\ x0.wallets = tx[s].wallets /\ x0.written = tx[s].written /\ x0.snap = tx[s].snap
          /\ x0.staleAccounts = tx[s].staleAccounts /\ x0.staleWallets = tx[s].staleWallets
          /\ x0.entry = FundingEntry(Settling(s))
      BY <1>3 DEF Transactions
    <3> HIDE DEF x0
    <3>5. x0.isolation = "Serializable"
      BY <1>4, <3>4 DEF Serializable
    <3> QED BY <1>4, <2>1, <3>1, <3>3, <3>4, <3>5
  <2>2. CASE ~(row.status = "PENDING" /\ e.status = "SUCCEEDED")
    <3>1. UNCHANGED tx /\ Goto(s, "settled")
      BY <2>2 DEF InsertEvidence
    <3>2. tx' = [tx EXCEPT ![s] = tx[s]]
      BY <2>0, <3>1
    <3>3. tx[s].isolation = "Serializable"
      BY <1>4 DEF Serializable
    <3> QED BY <1>3, <1>4, <2>2, <3>1, <3>2, <3>3
  <2> QED BY <2>1, <2>2
<1>6. /\ IndInv' /\ pc'[s] = to /\ tx'[s] = x
      /\ \A t \in Sessions \ {s} : pc'[t] = pc[t] /\ \E A, W : Kept(t, A, W)
  <2>1. \/ x.snap = Snapshot
        \/ /\ Serializable(s) /\ x.snap = tx[s].snap
           /\ x.staleAccounts = tx[s].staleAccounts /\ x.staleWallets = tx[s].staleWallets
    BY <1>4, <1>5
  <2>2. /\ Goto(s, to) /\ tx' = [tx EXCEPT ![s] = x] /\ UNCHANGED tables
        /\ x.isolation = "Serializable" /\ x.accounts = {} /\ x.wallets = {} /\ x.written = {}
    BY <1>1, <1>5
  <2>3. to \in {"lockPayment", "refused", "known", "evidence", "settled", "lock"}
    OBVIOUS
  <2> QED BY <2>1, <2>2, <2>3, SettleMove
<1>7. request' = request /\ payment' = payment /\ events' = events
      /\ request' = [request EXCEPT ![s] = request[s]]
  BY <1>1 DEF settlement, PaymentInv, PaymentTypes
<1>8. /\ EventOf(s)' = e /\ Settling(s)' = Settling(s) /\ Serializable(s)'
      /\ FundingEntry(Settling(s))' = FundingEntry(Settling(s))
  <2>1. EventOf(s)' = e /\ Settling(s)' = Settling(s)
    BY <1>7 DEF EventOf, Settling
  <2>2. Serializable(s)'
    BY <1>5, <1>6 DEF Serializable
  <2>3. FundingEntry(Settling(s))' = FundingEntry(Settling(s))
    BY <1>7, <2>1 DEF FundingEntry
  <2> QED BY <2>1, <2>2, <2>3
<1>9. to = "lock" => to \in Posting
  BY DEF Posting
<1>10. to = "settled" => to \notin Posting
  BY DEF Posting
<1>11. CallOK(s)'
  <2>1. \A d \in events : ~SameEvent(d, e)
    BY <1>1
  <2> HIDE DEF e
  <2> QED BY <1>3, <1>4, <1>5, <1>6, <1>7, <1>8, <1>9, <1>10, <2>1 DEF CallOK, PaymentLabels
<1>12. ASSUME NEW t \in Sessions \ {s} PROVE Apart(s, t)'
  <2>1. pc[t] \in Judged => Settling(s) # Settling(t)
    BY <1>2 DEF PaymentInv, Apart
  <2>2. EventOf(t)' = EventOf(t) /\ Settling(t)' = Settling(t) /\ Evidencing(t)' = Evidencing(t)
        /\ pc'[t] = pc[t]
    BY <1>6, <1>7 DEF EventOf, Settling, Evidencing
  <2>3. Evidencing(t) => ~SameEvent(EventOf(s), EventOf(t))
    BY <1>1 DEF SameEvent
  <2>4. pc'[s] # "initialize" /\ SameEvent(EventOf(s), EventOf(t))' = SameEvent(EventOf(s), EventOf(t))
    BY <1>6, <1>8, <2>2 DEF SameEvent
  <2> QED BY <1>8, <2>1, <2>2, <2>3, <2>4 DEF Apart
<1>13. UNCHANGED <<journal, settlement, acks, checkout, asked>> /\ charge' = charge
  BY <1>1 DEF providerVars, tables
<1> QED BY <1>3, <1>6, <1>7, <1>11, <1>12, <1>13, ChargeType, CallMoveInv

\* The statements of the ledger, on behalf of the settlement.
LEMMA PostStepInv ==
    ASSUME PaymentInv, NEW s \in Sessions, PostStep(s),
           UNCHANGED <<settlement, providerVars, acks, request>>
    PROVE  PaymentInv'
<1>1. IndInv
  BY DEF PaymentInv
<1>2. IndInv'
  BY <1>1, PostStepFrame
<1>3. request \in [Sessions -> Requests]
  BY DEF PaymentInv, PaymentTypes
<1>4. /\ pc[s] \in {"lock", "insert", "update"}
      /\ pc'[s] \in Posting /\ UNCHANGED tables
      /\ \A t \in Sessions \ {s} : pc'[t] = pc[t] /\ tx'[t] = tx[t]
      /\ tx'[s].entry = tx[s].entry
  BY <1>1, PostStepFrame DEF Posting
<1>5. /\ request' = request /\ payment' = payment /\ events' = events
      /\ request' = [request EXCEPT ![s] = request[s]] /\ request[s] \in Requests
  BY <1>3 DEF settlement
<1>6. \A t \in Sessions \ {s} : pc'[t] = pc[t] /\ Kept(t, {}, {})
  BY <1>4 DEF Kept
<1>7. /\ EventOf(s)' = EventOf(s) /\ Settling(s)' = Settling(s)
      /\ FundingEntry(Settling(s))' = FundingEntry(Settling(s))
  BY <1>5 DEF EventOf, Settling, FundingEntry
<1>8. /\ pc[s] \in Posting /\ pc[s] \in Judged /\ Evidencing(s)
      /\ pc'[s] \in Judged /\ Evidencing(s)'
      /\ pc'[s] \in PaymentLabels /\ pc'[s] \notin Outside \cup {"lockPayment", "refused", "known",
                                                               "evidence", "settled"}
  BY <1>4 DEF Posting, Judged, Evidencing, PaymentLabels, Outside
<1>9. CallOK(s)'
  <2>1. CallOK(s)
    BY DEF PaymentInv
  <2>2. /\ EventOf(s) \in Verifiable
        /\ request[s].row.provider = EventOf(s).provider /\ request[s].events \subseteq events
        /\ payment[Settling(s)] = request[s].row
        /\ request[s].row.intent.amount = EventOf(s).amount
        /\ request[s].row.status = "PENDING" /\ EventOf(s).status = "SUCCEEDED"
        /\ tx[s].entry = FundingEntry(Settling(s))
        /\ \A d \in events : ~SameEvent(d, EventOf(s))
    BY <1>8, <2>1 DEF CallOK
  <2> QED BY <1>4, <1>5, <1>7, <1>8, <2>2 DEF CallOK, Outside
<1>10. ASSUME NEW t \in Sessions \ {s} PROVE Apart(s, t)'
  <2>1. Apart(s, t)
    BY DEF PaymentInv
  <2>2. EventOf(t)' = EventOf(t) /\ Settling(t)' = Settling(t) /\ Evidencing(t)' = Evidencing(t)
        /\ pc'[t] = pc[t]
    BY <1>4, <1>5 DEF EventOf, Settling, Evidencing
  <2> QED BY <1>7, <1>8, <2>1, <2>2 DEF Apart, SameEvent, Outside
<1>11. UNCHANGED <<journal, settlement, acks, checkout, asked>> /\ charge' = charge
  BY <1>4 DEF providerVars, tables
<1>12. \A t \in Sessions \ {s} : pc'[t] = pc[t] /\ \E A, W : Kept(t, A, W)
  BY <1>6
<1> QED BY <1>2, <1>5, <1>9, <1>10, <1>11, <1>12, ChargeType, CallMoveInv

\* Wallets are closed, frozen and unfrozen beside the payments.
LEMMA WalletStepInv ==
    ASSUME PaymentInv, WalletStep
    PROVE  PaymentInv'
<1>1. IndInv /\ tx \in [Sessions -> Transactions] /\ DOMAIN pc = Sessions
      /\ request \in [Sessions -> Requests]
  BY DEF PaymentInv, IndInv, StoreOK, PaymentTypes
<1>2. UNCHANGED <<settlement, providerVars, acks, request>>
  BY DEF WalletStep
<1>3. /\ UNCHANGED <<settlement, acks, checkout, asked, request>> /\ charge' = charge
      /\ payment' = payment /\ events' = events
  BY <1>2 DEF providerVars, settlement
<1>4. ASSUME NEW s \in Sessions, CloseStep(s) \/ \E w \in Wallets : FindToClose(s, w)
      PROVE  PaymentInv'
  <2>1. IndInv'
    BY <1>1, <1>4, CloseFrame
  <2>2. /\ pc'[s] \in {"idle", "closeAccount", "closeWallet", "closeDecide"} /\ journal' = journal
        /\ \A t \in Sessions \ {s} : pc'[t] = pc[t] /\ \E A, W : Kept(t, A, W)
    BY <1>1, <1>4, CloseFrame
  <2>5. CallOK(s)' /\ \A t \in Sessions \ {s} : Apart(s, t)'
    BY <2>2, QuietCall
  <2>6. request' = [request EXCEPT ![s] = request[s]] /\ request[s] \in Requests
    BY <1>1, <1>3
  <2>7. UNCHANGED <<journal, settlement, acks, checkout, asked>>
    BY <1>3, <2>2
  <2> QED BY <1>3, <2>1, <2>2, <2>5, <2>6, <2>7, ChargeType, CallMoveInv
<1>5. ASSUME NEW w \in Wallets, SetFrozen(w) PROVE PaymentInv'
  <2>1. IndInv'
    BY <1>1, <1>5, FreezeFrame
  <2>2. UNCHANGED <<journal, pc>>
    BY <1>1, <1>5, FreezeFrame
  <2>3. \A t \in Sessions : Kept(t, {}, {w})
    BY <1>1, <1>5, FreezeFrame
  <2>4. ASSUME NEW t \in Sessions PROVE CallOK(t)'
    BY <1>3, <2>2, <2>3, CallKeeps
  <2>5. ASSUME NEW t \in Sessions, NEW u \in Sessions, t # u PROVE Apart(t, u)'
    <3>1. Apart(t, u)
      BY <2>5 DEF PaymentInv
    <3> QED BY <1>3, <2>2, <3>1 DEF Apart, SameEvent, EventOf, Settling, Evidencing
  <2>6. request' \in [Sessions -> Requests]
    BY <1>1, <1>3
  <2>7. UNCHANGED <<journal, settlement, acks, checkout, asked>>
    BY <1>3, <2>2
  <2> QED BY <1>3, <2>1, <2>4, <2>5, <2>6, <2>7, ChargeType, BooksKeep
<1> QED BY <1>4, <1>5 DEF WalletStep

-----------------------------------------------------------------------------
(* The end of the transaction *)

\* Refused, or lost: nothing is kept.
LEMMA GiveUpInv ==
    ASSUME PaymentInv, NEW s \in Sessions, RefuseSettle(s) \/ LoseCall(s)
    PROVE  PaymentInv'
BY EndInv DEF RefuseSettle, LoseCall

\* settleVerified: the whole transaction again, for the same event.
LEMMA TryAgainInv ==
    ASSUME PaymentInv, NEW s \in Sessions, FailSettle(s) \/ AbortSettle(s)
    PROVE  PaymentInv'
<1>1. TryAgain(s) /\ (Transient(s) \/ Serializable(s))
  BY DEF FailSettle, AbortSettle
<1>2. Rollback(s) /\ UNCHANGED <<tables, settlement, providerVars, acks>>
  BY <1>1 DEF TryAgain
<1>3. CASE ~(request[s].tries + 1 < MaxTries)
  <2>1. End(s)
    BY <1>1, <1>3 DEF TryAgain
  <2> QED BY <1>2, <2>1, EndInv
<1>4. CASE request[s].tries + 1 < MaxTries
  <2>1. pc[s] \in {"lockPayment"} \cup Judged
    <3>1. pc[s] \in PaymentLabels /\ CallOK(s) /\ WalletCallConsistent(s) /\ (pc[s] = "idle" => tx[s] = NoTx)
      BY DEF PaymentInv, CallOK, IndInv
    <3>2. Serializable(s) => tx[s] # NoTx /\ tx[s].isolation # "ReadCommitted"
      BY DEF Serializable, NoTx
    <3>3. CASE Serializable(s)
      BY <3>1, <3>2, <3>3 DEF PaymentLabels, Judged, Posting, CallOK, WalletCallConsistent
    <3>4. CASE Transient(s)
      BY <3>4 DEF Transient, SerializationConflict, DuplicateReference, Judged, Posting
    <3> QED BY <1>1, <3>3, <3>4
  <2>2. EventOf(s) \in Verifiable /\ request[s] \in Requests
    BY <2>1, JudgedFacts
  <2>3. request[s].tries + 1 \in 0..(MaxTries - 1)
    <3>1. request[s].tries \in 0..(MaxTries - 1)
      BY <2>2 DEF Requests
    <3> QED BY <1>4, <3>1, PaymentsAssumption
  <2> DEFINE r == [NoRequest EXCEPT !.event = EventOf(s), !.tries = request[s].tries + 1]
  <2>4. request' = [request EXCEPT ![s] = r] /\ Goto(s, "settle")
    BY <1>1, <1>4 DEF TryAgain
  <2>5. r \in Requests /\ r.event = EventOf(s)
    BY <2>2, <2>3, NoRequestType DEF NoRequest, Requests
  <2>6. charge' = charge /\ checkout' = checkout /\ asked' = asked
    BY <1>2 DEF providerVars
  <2> HIDE DEF r
  <2> QED BY <1>2, <2>2, <2>4, <2>5, <2>6, ChargeType, RequestInv DEF Outside
<1> QED BY <1>3, <1>4

\* The commit of a transaction that changed no row of the ledger.
LEMMA CommitAnswer ==
    ASSUME PaymentInv, NEW s \in Sessions, Commit(s, {}, {}), Goto(s, "idle"), UNCHANGED tables
    PROVE  /\ IndInv' /\ pc'[s] = "idle"
           /\ \A t \in Sessions \ {s} : pc'[t] = pc[t] /\ Kept(t, {}, {})
<1>1. Rollback(s)
  BY CommitNothing DEF PaymentInv
<1> QED BY <1>1, OutsideStep DEF Outside

\* The event was stored before: its payment has the status that is answered.
LEMMA AcknowledgeKnownInv ==
    ASSUME PaymentInv, NEW s \in Sessions, AcknowledgeKnown(s)
    PROVE  PaymentInv'
<1>1. /\ pc[s] = "known" /\ Commit(s, {}, {}) /\ End(s)
      /\ acks' = acks \cup {[event |-> EventOf(s), said |-> request[s].row.status]}
      /\ UNCHANGED <<tables, settlement, providerVars>>
  BY DEF AcknowledgeKnown, Acknowledge
<1>2. Goto(s, "idle") /\ request' = [request EXCEPT ![s] = NoRequest]
  BY <1>1 DEF End
<1>3. /\ IndInv' /\ pc'[s] = "idle"
      /\ \A t \in Sessions \ {s} : pc'[t] = pc[t] /\ Kept(t, {}, {})
  BY <1>1, <1>2, CommitAnswer
<1>4. /\ UNCHANGED <<journal, payment, events, outbox>>
      /\ checkout' = checkout /\ asked' = asked /\ charge' = charge
  BY <1>1 DEF tables, settlement, providerVars
<1>5. request \in [Sessions -> Requests]
  BY DEF PaymentInv, PaymentTypes
<1>6. request' \in [Sessions -> Requests] /\ \A t \in Sessions \ {s} : request'[t] = request[t]
  BY <1>2, <1>5, NoRequestType
<1>7. \A t \in Sessions : CallOK(t)'
  <2>1. CallOK(s)'
    BY <1>3, QuietCall
  <2>2. ASSUME NEW t \in Sessions \ {s} PROVE CallOK(t)'
    BY <1>3, <1>4, <1>6, CallKeeps
  <2> QED BY <2>1, <2>2
<1>8. \A t, u \in Sessions : t # u => Apart(t, u)'
  BY <1>2, <1>3, QuietCall, NoRequestType, ApartMove
<1>9. PaymentTypes'
  BY <1>4, <1>6 DEF PaymentInv, PaymentTypes
<1>10. ASSUME NEW q \in Payments PROVE PaymentOK(q)'
  BY <1>4 DEF PaymentInv, PaymentOK, Credits
<1>11. RecordsOK'
  BY <1>4 DEF PaymentInv, RecordsOK, OutboxOf
<1>12. AcksAreFinal'
  <2>1. EventOf(s) \in events /\ payment[Settling(s)] = request[s].row
    BY <1>1 DEF PaymentInv, CallOK, Judged
  <2>2. EventOf(s).status = payment[Settling(s)].status
    BY <2>1 DEF PaymentInv, RecordsOK, Settling
  <2> DEFINE a0 == [event |-> EventOf(s), said |-> request[s].row.status]
  <2>3. /\ a0.event \in events /\ a0.said = payment[a0.event.payment].status
        /\ a0.said = a0.event.status
    BY <2>1, <2>2 DEF Settling
  <2> HIDE DEF a0
  <2>4. acks' = acks \cup {a0}
    BY <1>1 DEF a0
  <2> QED BY <1>4, <2>3, <2>4 DEF PaymentInv, AcksAreFinal
<1> QED BY <1>3, <1>7, <1>8, <1>9, <1>10, <1>11, <1>12 DEF PaymentInv

\* What CommitSettle finds and does, whether the ledger was called or not.
LEMMA CommitSettleFacts ==
    ASSUME PaymentInv, NEW s \in Sessions, CommitSettle(s)
    PROVE  /\ pc[s] \in Judged /\ Evidencing(s)
           /\ IndInv' /\ pc'[s] = "idle"
           /\ \A t \in Sessions \ {s} : pc'[t] = pc[t] /\ \E A, W : Kept(t, A, W)
           /\ IF pc[s] = "posted" THEN journal' = journal \cup {FundingEntry(Settling(s))}
                                  ELSE journal' = journal
           /\ pc[s] = "posted" <=> request[s].row.status = "PENDING" /\ EventOf(s).status = "SUCCEEDED"
           /\ request' = [request EXCEPT ![s] = NoRequest]
<1>1. pc[s] \in {"posted", "settled"} /\ End(s)
  BY DEF CommitSettle
<1>2. pc[s] \in Judged /\ Evidencing(s)
  BY <1>1 DEF Judged, Posting, Evidencing
<1>3. Goto(s, "idle") /\ request' = [request EXCEPT ![s] = NoRequest]
  BY <1>1 DEF End
<1>4. IndInv /\ tx \in [Sessions -> Transactions] /\ DOMAIN pc = Sessions /\ CallOK(s)
  BY DEF PaymentInv, IndInv, StoreOK
<1>5. pc[s] = "posted" <=> request[s].row.status = "PENDING" /\ EventOf(s).status = "SUCCEEDED"
  BY <1>1, <1>4 DEF CallOK, Posting
<1>6. CASE pc[s] = "posted"
  <2>1. PublishEntry(s) /\ Ready(s) /\ tx[s].entry = FundingEntry(Settling(s))
    BY <1>4, <1>6, PostedIsReady DEF CommitSettle, CallOK, Posting
  <2>2. IndInv'
    BY <1>3, <1>4, <2>1, PublishInv
  <2>3. Commit(s, PostedBy(s), PostedBy(s) \cap Wallets) /\ journal' = journal \cup {tx[s].entry}
    BY <2>1 DEF PublishEntry
  <2>4. PostedBy(s) \in SUBSET Accounts /\ PostedBy(s) \cap Wallets \in SUBSET Wallets
    BY DEF PostedBy, Posted
  <2>5. \A t \in Sessions \ {s} : Kept(t, PostedBy(s), PostedBy(s) \cap Wallets)
    BY <1>4, <2>3, <2>4, CommitKeeps
  <2>6. \A t \in Sessions \ {s} : \E A, W : Kept(t, A, W)
    BY <2>5
  <2>7. pc'[s] = "idle" /\ \A t \in Sessions \ {s} : pc'[t] = pc[t]
    BY <1>3, <1>4 DEF Goto
  <2> QED BY <1>2, <1>3, <1>5, <1>6, <2>1, <2>2, <2>3, <2>6, <2>7
<1>7. CASE pc[s] # "posted"
  <2>1. Commit(s, {}, {}) /\ UNCHANGED tables
    BY <1>7 DEF CommitSettle
  <2>2. /\ IndInv' /\ pc'[s] = "idle"
        /\ \A t \in Sessions \ {s} : pc'[t] = pc[t] /\ Kept(t, {}, {})
    BY <1>3, <2>1, CommitAnswer
  <2>3. journal' = journal
    BY <2>1 DEF tables
  <2>4. \A t \in Sessions \ {s} : \E A, W : Kept(t, A, W)
    BY <2>2
  <2> QED BY <1>2, <1>3, <1>5, <1>7, <2>2, <2>3, <2>4
<1> QED BY <1>6, <1>7

\* The payment is marked, with its evidence and its event: at one instant.
LEMMA CommitSettleInv ==
    ASSUME PaymentInv, NEW s \in Sessions, CommitSettle(s)
    PROVE  PaymentInv'
<1>1. PICK p, e, row : p = Settling(s) /\ e = EventOf(s) /\ row = request[s].row
  OBVIOUS
<1>2. /\ pc[s] \in Judged /\ Evidencing(s)
      /\ IndInv' /\ pc'[s] = "idle"
      /\ \A t \in Sessions \ {s} : pc'[t] = pc[t] /\ \E A, W : Kept(t, A, W)
      /\ IF pc[s] = "posted" THEN journal' = journal \cup {FundingEntry(p)} ELSE journal' = journal
      /\ pc[s] = "posted" <=> row.status = "PENDING" /\ e.status = "SUCCEEDED"
      /\ request' = [request EXCEPT ![s] = NoRequest]
  BY <1>1, CommitSettleFacts
<1>3. /\ payment' = [payment EXCEPT ![p].status = e.status]
      /\ events' = events \cup {e}
      /\ outbox' = IF row.status = "PENDING"
                   THEN outbox \cup {<<IF e.status = "SUCCEEDED" THEN "PAYMENT_SUCCEEDED"
                                       ELSE "PAYMENT_FAILED", p>>}
                   ELSE outbox
      /\ acks' = acks \cup {[event |-> e, said |-> e.status]}
      /\ checkout' = checkout /\ asked' = asked /\ charge' = charge
  BY <1>1 DEF CommitSettle, Acknowledge, providerVars
<1>4. /\ CallOK(s) /\ e \in Verifiable /\ p \in Payments /\ e.payment = p
      /\ e.status \in {"SUCCEEDED", "FAILED"} /\ events \subseteq Verifiable
  BY <1>1, <1>2, JudgedFacts DEF Settling
<1>5. /\ row.intent.amount = e.amount /\ row.status \in {"PENDING", e.status}
      /\ \A d \in events : ~SameEvent(d, e)
  BY <1>1, <1>2, <1>4 DEF CallOK, Evidencing, Posting
<1>6. /\ payment[p] = row /\ row.intent \in Intents /\ row.provider \in Modes /\ row.intent.amount > 0
      /\ payment \in [Payments -> PaymentRows] /\ request \in [Sessions -> Requests]
  BY <1>1, <1>2, SettlingIsThere DEF PaymentInv, PaymentTypes
<1>7. /\ payment' \in [Payments -> PaymentRows]
      /\ payment'[p].status = e.status /\ payment'[p].provider = row.provider
      /\ payment'[p].intent = row.intent
      /\ \A q \in Payments \ {p} : payment'[q] = payment[q]
      /\ row.status = e.status => payment' = payment
  <2>1. payment[p] \in PaymentRows
    BY <1>4, <1>6
  <2> DEFINE new == [payment[p] EXCEPT !.status = e.status]
  <2>2. /\ new \in PaymentRows /\ new.status = e.status /\ new.provider = row.provider
        /\ new.intent = row.intent /\ (row.status = e.status => new = payment[p])
    BY <1>4, <1>6, <2>1 DEF PaymentRows
  <2>3. payment' = [payment EXCEPT ![p] = new]
    BY <1>3, <1>4, <1>6
  <2> HIDE DEF new
  <2> QED BY <1>4, <1>6, <2>2, <2>3
<1>8. row.status = "PENDING" => (\A d \in events : d.payment # p) /\ Credits(p) = {}
  BY <1>4, <1>6 DEF PaymentInv, PaymentOK
<1>9. \A d \in events : payment'[d.payment].status = payment[d.payment].status
                        /\ payment'[d.payment].intent = payment[d.payment].intent
  <2> SUFFICES ASSUME NEW d \in events
               PROVE  /\ payment'[d.payment].status = payment[d.payment].status
                      /\ payment'[d.payment].intent = payment[d.payment].intent
    OBVIOUS
  <2>1. d.payment \in Payments
    BY <1>4, VerifiableFacts
  <2>2. CASE d.payment # p
    BY <1>7, <2>1, <2>2
  <2>3. CASE d.payment = p
    BY <1>5, <1>7, <1>8, <2>3
  <2> QED BY <2>2, <2>3
<1>10. /\ request' \in [Sessions -> Requests]
       /\ \A t \in Sessions \ {s} : request'[t] = request[t]
  BY <1>2, <1>6, NoRequestType
<1>11. \A t \in Sessions : CallOK(t)'
  <2>1. CallOK(s)'
    BY <1>2, QuietCall
  <2>2. ASSUME NEW t \in Sessions \ {s} PROVE CallOK(t)'
    <3>1. Apart(s, t)
      BY DEF PaymentInv
    <3>2. pc[t] \in Judged => Settling(t) # p /\ Settling(t) \in Payments
      BY <1>1, <1>2, <3>1, JudgedFacts DEF Apart
    <3>3. Evidencing(t) => ~SameEvent(e, EventOf(t))
      BY <1>1, <1>2, <3>1 DEF Apart
    <3>4. PICK A, W : Kept(t, A, W)
      BY <1>2
    <3>5. pc'[t] = pc[t] /\ request'[t] = request[t] /\ events \subseteq events'
      BY <1>2, <1>3, <1>10
    <3>6. pc[t] \in Judged => payment'[Settling(t)] = payment[Settling(t)]
      BY <1>7, <3>2
    <3>7. Evidencing(t) => \A d \in events' : d \in events \/ ~SameEvent(d, EventOf(t))
      BY <1>3, <3>3
    <3> QED BY <1>3, <3>4, <3>5, <3>6, <3>7, CallKeeps
  <2> QED BY <2>1, <2>2
<1>12. \A t, u \in Sessions : t # u => Apart(t, u)'
  BY <1>2, QuietCall, NoRequestType, ApartMove
<1>13. PaymentTypes'
  BY <1>3, <1>4, <1>7, <1>10 DEF PaymentInv, PaymentTypes
<1>14. ASSUME NEW q \in Payments PROVE PaymentOK(q)'
  <2>0. PaymentOK(q)
    BY DEF PaymentInv
  <2>1. FundingEntry(p).reference = <<"payment", p>>
    BY DEF FundingEntry
  <2>2. CASE q # p
    <3>1. payment'[q] = payment[q] /\ checkout'[q] = checkout[q] /\ asked'[q] = asked[q]
      BY <1>3, <1>7, <2>2
    <3>2. <<"payment", q>> # <<"payment", p>>
      BY <2>2
    <3>3. Credits(q)' = Credits(q)
      BY <1>2, <2>1, <3>2 DEF Credits
    <3>4. (\E d \in events' : d.payment = q) <=> (\E d \in events : d.payment = q)
      BY <1>3, <1>4, <2>2
    <3> HIDE DEF Credits
    <3>5. IF payment'[q].status = "SUCCEEDED" THEN \E c \in journal' : Credits(q)' = {c}
                                              ELSE Credits(q)' = {}
      BY <1>2, <2>0, <3>1, <3>3 DEF PaymentOK
    <3> QED BY <2>0, <3>1, <3>4, <3>5 DEF PaymentOK
  <2>3. CASE q = p
    <3>1. checkout'[q] = checkout[q] /\ asked'[q] = asked[q]
      BY <1>3
    <3>2. \E d \in events' : d.payment = q
      BY <1>3, <1>4, <2>3
    <3>3. IF payment'[q].status = "SUCCEEDED" THEN \E c \in journal' : Credits(q)' = {c}
                                              ELSE Credits(q)' = {}
      <4>1. CASE pc[s] = "posted"
        <5>1. Credits(p) = {} /\ payment'[p].status = "SUCCEEDED"
              /\ journal' = journal \cup {FundingEntry(p)}
          BY <1>2, <1>7, <1>8, <4>1
        <5>2. Credits(p)' = {FundingEntry(p)}
          BY <2>1, <5>1 DEF Credits
        <5> QED BY <2>3, <5>1, <5>2
      <4>2. CASE pc[s] # "posted"
        <5>1. journal' = journal /\ ~(row.status = "PENDING" /\ e.status = "SUCCEEDED")
          BY <1>2, <4>2
        <5>2. Credits(p)' = Credits(p)
          BY <5>1 DEF Credits
        <5>3. (row.status = "SUCCEEDED") = (e.status = "SUCCEEDED")
          BY <1>5, <5>1
        <5> QED BY <1>6, <1>7, <2>0, <2>3, <5>1, <5>2, <5>3 DEF PaymentOK
      <4> QED BY <4>1, <4>2
    <3> QED BY <1>4, <1>6, <1>7, <2>0, <2>3, <3>1, <3>2, <3>3 DEF PaymentOK
  <2> QED BY <2>2, <2>3
<1>15. RecordsOK'
  <2>1. outbox' = (OutboxOf("PAYMENT_SUCCEEDED", "SUCCEEDED") \cup OutboxOf("PAYMENT_FAILED", "FAILED"))'
    <3>1. outbox = OutboxOf("PAYMENT_SUCCEEDED", "SUCCEEDED") \cup OutboxOf("PAYMENT_FAILED", "FAILED")
      BY DEF PaymentInv, RecordsOK
    <3>2. CASE row.status # "PENDING"
      BY <1>3, <1>5, <1>7, <3>1, <3>2 DEF OutboxOf
    <3>3. CASE row.status = "PENDING"
      <4>1. \A x \in {"SUCCEEDED", "FAILED"} :
               {q \in Payments : payment'[q].status = x}
                 = {q \in Payments : payment[q].status = x} \cup (IF x = e.status THEN {p} ELSE {})
        BY <1>4, <1>6, <1>7, <3>3
      <4>2. CASE e.status = "SUCCEEDED"
        <5>1. outbox' = outbox \cup {<<"PAYMENT_SUCCEEDED", p>>}
          BY <1>3, <3>3, <4>2
        <5>2. {q \in Payments : payment'[q].status = "SUCCEEDED"}
                 = {q \in Payments : payment[q].status = "SUCCEEDED"} \cup {p}
          BY <4>1, <4>2
        <5>3. {q \in Payments : payment'[q].status = "FAILED"}
                 = {q \in Payments : payment[q].status = "FAILED"}
          BY <4>1, <4>2
        <5> QED BY <3>1, <5>1, <5>2, <5>3 DEF OutboxOf
      <4>3. CASE e.status = "FAILED"
        <5>1. outbox' = outbox \cup {<<"PAYMENT_FAILED", p>>}
          BY <1>3, <3>3, <4>3
        <5>2. {q \in Payments : payment'[q].status = "FAILED"}
                 = {q \in Payments : payment[q].status = "FAILED"} \cup {p}
          BY <4>1, <4>3
        <5>3. {q \in Payments : payment'[q].status = "SUCCEEDED"}
                 = {q \in Payments : payment[q].status = "SUCCEEDED"}
          BY <4>1, <4>3
        <5> QED BY <3>1, <5>1, <5>2, <5>3 DEF OutboxOf
      <4> QED BY <1>4, <4>2, <4>3
    <3> QED BY <3>2, <3>3
  <2>2. \A d \in events' : /\ d.status = payment'[d.payment].status
                           /\ d.amount = payment'[d.payment].intent.amount
    <3>1. \A d \in events : /\ d.status = payment[d.payment].status
                            /\ d.amount = payment[d.payment].intent.amount
      BY DEF PaymentInv, RecordsOK
    <3> QED BY <1>3, <1>4, <1>5, <1>7, <1>9, <3>1
  <2>3. \A c, d \in events' : SameEvent(c, d) => c = d
    <3>1. \A c, d \in events : SameEvent(c, d) => c = d
      BY DEF PaymentInv, RecordsOK
    <3>2. \A d \in events : ~SameEvent(d, e) /\ ~SameEvent(e, d)
      BY <1>5 DEF SameEvent
    <3> QED BY <1>3, <3>1, <3>2
  <2> QED BY <2>1, <2>2, <2>3 DEF RecordsOK
<1>16. AcksAreFinal'
  <2>1. PICK a0 : a0 = [event |-> e, said |-> e.status]
    OBVIOUS
  <2>2. a0.event = e /\ a0.said = e.status /\ acks' = acks \cup {a0}
    BY <1>3, <2>1
  <2>3. \A a \in acks : a.event \in events /\ a.said = payment[a.event.payment].status
                        /\ a.said = a.event.status
    BY DEF PaymentInv, AcksAreFinal
  <2> QED BY <1>3, <1>4, <1>7, <1>9, <2>2, <2>3 DEF AcksAreFinal
<1> QED BY <1>2, <1>11, <1>12, <1>13, <1>14, <1>15, <1>16 DEF PaymentInv

-----------------------------------------------------------------------------
(* The invariant *)

\* Before the first call there is no payment.
LEMMA PaymentInitInv == PaymentInit => PaymentInv
<1> SUFFICES ASSUME PaymentInit PROVE PaymentInv
  OBVIOUS
<1> USE DEF PaymentInit
<1>1. IndInv
  BY InitInv
<1>2. PaymentTypes
  <2>1. NoCharge \in [state : {"none", "open", "paid"}, amount : Charged]
    BY DEF NoCharge, Charged
  <2> QED BY <2>1, NoRequestType DEF PaymentTypes
<1>3. \A s \in Sessions : pc[s] = "idle"
  BY DEF Init
<1>4. ASSUME NEW s \in Sessions PROVE CallOK(s)
  <2>1. pc[s] = "idle" /\ ~Evidencing(s) /\ pc[s] \notin Posting /\ pc[s] \notin Judged
    BY <1>3 DEF Evidencing, Posting, Judged
  <2> QED BY <2>1 DEF CallOK, PaymentLabels
<1>5. ASSUME NEW s \in Sessions, NEW t \in Sessions PROVE Apart(s, t)
  <2>1. pc[s] = "idle" /\ ~Evidencing(s) /\ pc[s] \notin Judged
    BY <1>3 DEF Evidencing, Posting, Judged
  <2> QED BY <2>1 DEF Apart
<1>6. ASSUME NEW p \in Payments PROVE PaymentOK(p)
  <2>1. Credits(p) = {}
    <3> SUFFICES ASSUME NEW e \in journal PROVE e.reference # <<"payment", p>>
      BY DEF Credits
    <3>1. PICK w : e = OpeningEntry(w)
      BY DEF Init, OpeningJournal
    <3>2. e.reference = <<"migration:opening", w>>
      BY <3>1 DEF OpeningEntry
    <3> QED BY <3>2
  <2>2. payment[p] = NoPayment /\ asked[p] = 0 /\ checkout[p] = "none" /\ events = {}
    OBVIOUS
  <2>3. payment[p].status = "NONE"
    BY <2>2, NoPaymentFields
  <2> HIDE DEF PaymentInit
  <2> QED BY <2>1, <2>2, <2>3 DEF PaymentOK
<1>7. RecordsOK
  <2>1. \A p \in Payments : payment[p].status = "NONE"
    BY NoPaymentFields
  <2>2. {q \in Payments : payment[q].status = "SUCCEEDED"} = {}
        /\ {q \in Payments : payment[q].status = "FAILED"} = {}
    BY <2>1
  <2> QED BY <2>2 DEF RecordsOK, OutboxOf
<1>8. AcksAreFinal
  BY DEF AcksAreFinal
<1> QED BY <1>1, <1>2, <1>4, <1>5, <1>6, <1>7, <1>8 DEF PaymentInv

\* A step of nobody changes nothing.
LEMMA PaymentStutterInv ==
    ASSUME PaymentInv, UNCHANGED paymentVars
    PROVE  PaymentInv'
<1>1. /\ UNCHANGED <<balance, status, walletBalance, journal, pc, tx, payment, events, outbox>>
      /\ UNCHANGED <<checkout, charge, asked, acks, request, settlement>>
  BY DEF paymentVars, vars, settlement, providerVars
<1>2. IndInv'
  BY <1>1, LedgerStutter DEF PaymentInv, vars
<1>3. ASSUME NEW t \in Sessions PROVE CallOK(t)'
  <2>1. Kept(t, {}, {})
    BY <1>1 DEF Kept
  <2> QED BY <1>1, <2>1, CallKeeps
<1>4. ASSUME NEW t \in Sessions, NEW u \in Sessions, t # u PROVE Apart(t, u)'
  <2>1. Apart(t, u)
    BY <1>4 DEF PaymentInv
  <2> QED BY <2>1, <1>1 DEF Apart, EventOf, Settling, Evidencing
<1>5. request' \in [Sessions -> Requests]
  BY <1>1 DEF PaymentInv, PaymentTypes
<1> QED BY <1>1, <1>2, <1>3, <1>4, <1>5, ChargeType, BooksKeep

\* Every step of PaymentsService, of a provider and of a wallet's owner.
LEMMA PaymentStepInv == PaymentInv /\ [PaymentNext]_paymentVars => PaymentInv'
<1> SUFFICES ASSUME PaymentInv, [PaymentNext]_paymentVars PROVE PaymentInv'
  OBVIOUS
<1>1. ASSUME NEW s \in Sessions, NewRequest(s) PROVE PaymentInv'
  BY <1>1, FindIntentInv, ReceiveInv DEF NewRequest
<1>2. ASSUME NEW s \in Sessions, CreateStep(s) PROVE PaymentInv'
  BY <1>2, InsertIntentInv, CheckoutStepInv DEF CreateStep
<1>3. ASSUME NEW s \in Sessions, SettleStep(s) PROVE PaymentInv'
  BY <1>3, VerifyInv, BeginSettleInv, LockPaymentInv, InsertEvidenceInv, CommitSettleInv,
     AcknowledgeKnownInv, GiveUpInv, TryAgainInv, PostStepInv DEF SettleStep
<1>4. ASSUME NEW s \in Sessions, AbortSettle(s) \/ LoseCall(s) PROVE PaymentInv'
  BY <1>4, TryAgainInv, GiveUpInv
<1>5. ASSUME NEW p \in Payments, NEW amount \in OtherAmounts \cup {payment[p].intent.amount},
             Pay(p, amount)
      PROVE  PaymentInv'
  BY <1>5, PayInv
<1>6. ASSUME WalletStep PROVE PaymentInv'
  BY <1>6, WalletStepInv
<1>7. CASE UNCHANGED paymentVars
  BY <1>7, PaymentStutterInv
<1> QED BY <1>1, <1>2, <1>3, <1>4, <1>5, <1>6, <1>7 DEF PaymentNext

\* The invariant of the ledger, of the calls and of the payments' tables holds
\* in every state of PaymentsService.
THEOREM PaymentInductive == PaymentSpec => []PaymentInv
BY PaymentInitInv, PaymentStepInv, PTL DEF PaymentSpec

\* A payment is not there or whole, a call is at a known statement, and settle
\* never counts a try beyond the last.
THEOREM PaymentTypeCorrect == PaymentSpec => []PaymentTypeOK
<1>1. PaymentInv => PaymentTypeOK
  <2> SUFFICES ASSUME PaymentInv PROVE PaymentTypeOK
    OBVIOUS
  <2>1. ASSUME NEW p \in Payments
        PROVE  /\ \/ payment[p] = NoPayment
                  \/ /\ payment[p].status \in {"PENDING", "SUCCEEDED", "FAILED"}
                     /\ payment[p].provider \in Modes /\ payment[p].intent \in Intents
               /\ charge[p].state \in {"none", "open", "paid"}
    BY DEF PaymentInv, PaymentOK, PaymentTypes
  <2>2. ASSUME NEW s \in Sessions
        PROVE  /\ pc[s] \in PaymentLabels /\ request[s].tries \in 0..(MaxTries - 1)
               /\ InTx(s) => Settling(s) \in Payments \/ Target(s) \in Wallets
    <3>1. CallOK(s) /\ request[s] \in Requests /\ WalletCallConsistent(s)
          /\ (pc[s] = "idle" => tx[s] = NoTx)
      BY DEF PaymentInv, PaymentTypes, IndInv
    <3>2. pc[s] \in PaymentLabels /\ request[s].tries \in 0..(MaxTries - 1)
      BY <3>1 DEF CallOK, Requests
    <3>3. pc[s] \in Outside => ~InTx(s)
      BY OutsideHasNoTx DEF InTx, NoTx
    <3>4. pc[s] \in {"closeAccount", "closeWallet", "closeDecide"} => Target(s) \in Wallets
      BY <3>1 DEF WalletCallConsistent
    <3>5. pc[s] \in {"lockPayment"} \cup Judged => Settling(s) \in Payments
      BY JudgedFacts
    <3> QED BY <3>2, <3>3, <3>4, <3>5 DEF PaymentLabels, Outside, Judged, Posting
  <2>3. checkout \in [Payments -> {"none", "claimed", "url"}]
    BY DEF PaymentInv, PaymentTypes
  <2> QED BY <2>1, <2>2, <2>3 DEF PaymentTypeOK
<1> QED BY <1>1, PaymentInductive, PTL

\* A provider that has been answered 2xx may forget the event: it is stored, and
\* its payment has the status that was said, for good.
THEOREM AcknowledgementsAreFinal == PaymentSpec => []AcksAreFinal
<1>1. PaymentInv => AcksAreFinal
  BY DEF PaymentInv
<1> QED BY <1>1, PaymentInductive, PTL

\* initializePaystack asks Paystack for a reference at most once, over crashes,
\* lost answers and retries, and a page is known only for one that was asked for.
THEOREM PaystackAskedOnce == PaymentSpec => []InitializedOnce
<1>1. PaymentInv => InitializedOnce
  BY DEF PaymentInv, PaymentOK, InitializedOnce
<1> QED BY <1>1, PaymentInductive, PTL

\* Whatever callbacks and reconciliations race: a payment that succeeded was
\* credited once and any other not at all, a settled one has evidence of its own
\* outcome and one event in the outbox, and no evidence stands for two payments.
THEOREM SettlementsAreAccounted == PaymentSpec => []EverySettlementAccounted
<1>1. PaymentInv => EverySettlementAccounted
  <2> SUFFICES ASSUME PaymentInv PROVE EverySettlementAccounted
    OBVIOUS
  <2>1. \A d, e \in events : SameEvent(d, e) => d = e
    BY DEF PaymentInv, RecordsOK
  <2>2. ASSUME NEW p \in Payments
        PROVE  LET settled == payment[p].status \in {"SUCCEEDED", "FAILED"} IN
               /\ Cardinality(Credits(p)) = IF payment[p].status = "SUCCEEDED" THEN 1 ELSE 0
               /\ Cardinality(Published(p)) = IF settled THEN 1 ELSE 0
               /\ settled <=> Evidence(p) # {}
               /\ \A e \in Evidence(p) : e.status = payment[p].status
                                         /\ e.amount = payment[p].intent.amount
    <3>1. PaymentOK(p) /\ RecordsOK
      BY DEF PaymentInv
    <3>2. Cardinality({}) = 0 /\ \A x : Cardinality({x}) = 1
      BY FS_EmptySet, FS_Singleton
    <3>3. Cardinality(Credits(p)) = IF payment[p].status = "SUCCEEDED" THEN 1 ELSE 0
      BY <3>1, <3>2 DEF PaymentOK
    <3>4. Cardinality(Published(p)) = IF payment[p].status \in {"SUCCEEDED", "FAILED"} THEN 1 ELSE 0
      <4>1. outbox = OutboxOf("PAYMENT_SUCCEEDED", "SUCCEEDED") \cup OutboxOf("PAYMENT_FAILED", "FAILED")
        BY <3>1 DEF RecordsOK
      <4>2. CASE payment[p].status = "SUCCEEDED"
        <5>1. Published(p) = {<<"PAYMENT_SUCCEEDED", p>>}
          BY <4>1, <4>2 DEF Published, OutboxOf
        <5> QED BY <3>2, <4>2, <5>1
      <4>3. CASE payment[p].status = "FAILED"
        <5>1. Published(p) = {<<"PAYMENT_FAILED", p>>}
          BY <4>1, <4>3 DEF Published, OutboxOf
        <5> QED BY <3>2, <4>3, <5>1
      <4>4. CASE payment[p].status \notin {"SUCCEEDED", "FAILED"}
        <5>1. Published(p) = {}
          BY <4>1, <4>4 DEF Published, OutboxOf
        <5> QED BY <3>2, <4>4, <5>1
      <4> QED BY <4>2, <4>3, <4>4
    <3>5. payment[p].status \in {"SUCCEEDED", "FAILED"} <=> Evidence(p) # {}
      BY <3>1 DEF PaymentOK, Evidence
    <3>6. \A e \in Evidence(p) : e.status = payment[p].status /\ e.amount = payment[p].intent.amount
      BY <3>1 DEF RecordsOK, Evidence
    <3> QED BY <3>3, <3>4, <3>5, <3>6
  <2> QED BY <2>1, <2>2 DEF EverySettlementAccounted
<1> QED BY <1>1, PaymentInductive, PTL

-----------------------------------------------------------------------------
(* Deadlock *)

\* The ledger's rows are locked by who posts or closes, wallets after accounts.
LEMMA PaymentLocks ==
    ASSUME PaymentInv
    PROVE  /\ WalletsUnderAccounts
           /\ \A t \in Sessions : pc[t] \in {"lockPayment", "refused", "known", "evidence", "settled"}
                                  \cup Outside => tx[t].accounts = {}
<1>1. ASSUME NEW t \in Sessions
      PROVE  tx[t].wallets \subseteq tx[t].accounts /\
             (pc[t] \in {"lockPayment", "refused", "known", "evidence", "settled"} \cup Outside =>
                tx[t].accounts = {} /\ tx[t].wallets = {})
  <2>1. CallOK(t) /\ PostConsistent(t) /\ WalletCallConsistent(t)
    BY DEF PaymentInv, IndInv
  <2>2. pc[t] \in Outside => tx[t].accounts = {} /\ tx[t].wallets = {}
    BY OutsideHasNoTx DEF NoTx
  <2>3. pc[t] \in {"lockPayment", "refused", "known", "evidence", "settled"} =>
           tx[t].accounts = {} /\ tx[t].wallets = {}
    BY <2>1 DEF CallOK
  <2>4. pc[t] \in {"closeAccount", "closeWallet", "closeDecide"} => tx[t].wallets \subseteq tx[t].accounts
    BY <2>1 DEF WalletCallConsistent
  <2>5. pc[t] \in Posting => tx[t].wallets \subseteq tx[t].accounts
    BY <2>1 DEF PostConsistent, Inserted, Posting
  <2>6. pc[t] \in PaymentLabels
    BY <2>1 DEF CallOK
  <2> QED BY <2>2, <2>3, <2>4, <2>5, <2>6 DEF PaymentLabels, Outside, Posting
<1> QED BY <1>1 DEF WalletsUnderAccounts

\* Settlements and closes never wait for each other in a circle, however many
\* there are: the payment is locked first, then its event is inserted, and the
\* rows of the ledger follow in their order.
THEOREM PaymentsNeverDeadlock ==
    ASSUME IsFiniteSet(Sessions)
    PROVE  PaymentSpec => []NoPaymentDeadlock
<1>1. ASSUME PaymentInv PROVE NoPaymentDeadlock
  <2> SUFFICES ASSUME NEW S \in (SUBSET Sessions) \ {{}}
               PROVE  \E s \in S : \A t \in S \ {s} : ~PaymentWaits(s, t)
    BY DEF NoPaymentDeadlock
  <2>0. /\ S \in SUBSET Sessions /\ S # {} /\ IndInv /\ WalletsUnderAccounts
        /\ \A t \in Sessions : pc[t] \in {"lockPayment", "refused", "known", "evidence", "settled"}
                               \cup Outside => tx[t].accounts = {}
    BY <1>1, PaymentLocks DEF PaymentInv
  <2> DEFINE L == {s \in S : pc[s] \in {"lock", "insert", "closeAccount"}}
             E == {s \in S : pc[s] = "evidence"}
  <2>1. CASE \E s \in S : pc[s] \notin {"lock", "insert", "closeAccount", "evidence", "lockPayment"}
    <3>1. PICK s \in S : pc[s] \notin {"lock", "insert", "closeAccount", "evidence", "lockPayment"}
      BY <2>1
    <3>2. \A t \in S \ {s} : ~Waits(s, t)
      BY <2>0, <3>1, WaitsOnlyEarly
    <3> QED BY <3>1, <3>2 DEF PaymentWaits
  <2>2. CASE L # {} /\ \A s \in S : pc[s] \in {"lock", "insert", "closeAccount", "evidence", "lockPayment"}
    <3>1. PICK s \in L : \A t \in L \ {s} : ~Waits(s, t)
      <4>1. L \in SUBSET Sessions /\ \A s \in L : pc[s] \in {"lock", "insert", "closeAccount"}
        BY <2>0
      <4> HIDE DEF L
      <4> QED BY <2>0, <2>2, <4>1, NoLedgerCircle
    <3>2. ASSUME NEW t \in S \ L PROVE ~Waits(s, t)
      <4>1. pc[t] \in {"evidence", "lockPayment"} /\ t \in Sessions \ {s} /\ s \in Sessions
        BY <2>0, <2>2
      <4>2. tx[t].accounts = {} /\ ~Inserted(t)
        BY <2>0, <4>1 DEF Inserted
      <4> QED BY <2>0, <4>1, <4>2, WaitsOnlyEarly
    <3>3. pc[s] \in {"lock", "insert", "closeAccount"} /\ s \in S
      OBVIOUS
    <3>4. \A t \in S \ {s} : ~Waits(s, t)
      BY <3>1, <3>2
    <3> QED BY <3>3, <3>4 DEF PaymentWaits
  <2>3. CASE E # {} /\ \A s \in S : pc[s] \in {"evidence", "lockPayment"}
    <3>1. PICK s \in S : pc[s] = "evidence"
      BY <2>3
    <3>2. \A t \in S \ {s} : ~Evidencing(t)
      BY <2>3 DEF Evidencing
    <3>3. \A t \in S \ {s} : ~Waits(s, t)
      BY <2>0, <3>1, WaitsOnlyEarly
    <3> QED BY <3>1, <3>2, <3>3 DEF PaymentWaits
  <2>4. CASE \A s \in S : pc[s] = "lockPayment"
    <3>1. PICK s \in S : TRUE
      BY <2>0
    <3>2. \A t \in S \ {s} : ~HasPayment(t, Settling(s))
      BY <2>4 DEF HasPayment, Evidencing
    <3>3. \A t \in S \ {s} : ~Waits(s, t)
      BY <2>0, <2>4, <3>1, WaitsOnlyEarly
    <3> QED BY <2>4, <3>1, <3>2, <3>3 DEF PaymentWaits
  <2>5. (\A s \in S : pc[s] \in {"lock", "insert", "closeAccount", "evidence", "lockPayment"}) /\ L = {} =>
           \A s \in S : pc[s] \in {"evidence", "lockPayment"}
    OBVIOUS
  <2>6. (\A s \in S : pc[s] \in {"evidence", "lockPayment"}) /\ E = {} => \A s \in S : pc[s] = "lockPayment"
    OBVIOUS
  <2> HIDE DEF L, E
  <2> QED BY <2>1, <2>2, <2>3, <2>4, <2>5, <2>6
<1>2. PaymentInv => NoPaymentDeadlock
  BY <1>1
<1> QED BY <1>2, PaymentInductive, PTL

-----------------------------------------------------------------------------
(* The promise to owners and providers *)

Stays == UNCHANGED <<balance, status, journal, payment, outbox>>

\* Where the committed tables stay as they are, so does the promise.
LEMMA StaysIsStutter == Stays => UNCHANGED Funding!funded
BY DEF Stays, Funding!funded, Funding!bookVars

\* The insert of create is the intent of the promise.
LEMMA InsertIsIntend ==
    ASSUME PaymentInv, NEW s \in Sessions, InsertIntent(s)
    PROVE  Stays \/ \E p \in Payments : Funding!Intend(p)
<1>1. /\ pc[s] = "intent" /\ UNCHANGED <<balance, status, journal, outbox>>
      /\ request[s].intent \in Intents /\ request[s].intent.amount > 0
  BY DEF InsertIntent, PaymentInv, CallOK, tables
<1>2. payment \in [Payments -> PaymentRows]
  BY DEF PaymentInv, PaymentTypes
<1>3. CASE OfKey(request[s].intent) # {}
  BY <1>1, <1>3 DEF InsertIntent, Stays
<1>4. CASE OfKey(request[s].intent) = {}
  <2>1. PICK p \in Payments :
           /\ FreshPayment(p)
           /\ payment' = [payment EXCEPT ![p] = [status |-> "PENDING", provider |-> request[s].mode,
                                                 intent |-> request[s].intent]]
    BY <1>4 DEF InsertIntent
  <2>2. /\ payment[p].status = "NONE" /\ payment'[p].status = "PENDING"
        /\ payment'[p].intent = request[s].intent
        /\ \A q \in Payments \ {p} : payment'[q] = payment[q]
    BY <1>2, <2>1 DEF FreshPayment
  <2>3. [q \in Payments |-> payment'[q].status]
           = [[q \in Payments |-> payment[q].status] EXCEPT ![p] = "PENDING"]
    BY <2>2
  <2>4. [q \in Payments |-> payment'[q].intent]
           = [[q \in Payments |-> payment[q].intent] EXCEPT ![p] = payment'[p].intent]
    BY <2>2
  <2>5. payment'[p].intent.wallet \in Wallets /\ payment'[p].intent.amount > 0
    BY <1>1, <2>2, PaymentsAssumption
  <2>6. \A q \in Payments \ {p} : payment[q].status # "NONE" =>
           ~(/\ payment'[p].intent.user = payment'[q].intent.user
             /\ payment'[p].intent.key = payment'[q].intent.key)
    BY <1>4, <2>2 DEF OfKey
  <2>7. \A q \in Payments \ {p} : payment[q].status # "NONE" => ~Funding!SameKey(p, q)'
    BY <2>6 DEF Funding!SameKey
  <2>8. Funding!Intend(p)
    BY <1>1, <2>2, <2>3, <2>4, <2>5, <2>7 DEF Funding!Intend, Funding!bookVars
  <2> QED BY <2>8
<1> QED BY <1>3, <1>4

\* The book of the promise is the book of the ledger.
LEMMA PostIsFundingPost ==
    ASSUME NEW entry, Book!Post(entry)
    PROVE  Funding!Ledger!Post(entry)
<1>1. /\ Book!ValidAtCommit(entry) = Funding!Ledger!ValidAtCommit(entry)
      /\ Book!Posted(entry) = Funding!Ledger!Posted(entry)
  BY DEF Book!ValidAtCommit, Funding!Ledger!ValidAtCommit, Book!Posted, Funding!Ledger!Posted,
     Book!SumFunction, Funding!Ledger!SumFunction, Book!SumFunctionOnSet,
     Funding!Ledger!SumFunctionOnSet, Book!FoldFunctionOnSet, Funding!Ledger!FoldFunctionOnSet,
     Book!MapThenFoldSet, Funding!Ledger!MapThenFoldSet
<1>2. \A a, n : Book!BalanceAllowed(a, n) = Funding!Ledger!BalanceAllowed(a, n)
  BY DEF Book!BalanceAllowed, Funding!Ledger!BalanceAllowed, Book!InRange, Funding!Ledger!InRange,
     Book!AllowNegative, Funding!Ledger!AllowNegative
<1> QED BY <1>1, <1>2 DEF Book!Post, Funding!Ledger!Post

\* The commit of a settlement is the outcome of the promise, with the credit if
\* it succeeds; a settled payment only gains evidence.
LEMMA CommitIsSettlement ==
    ASSUME PaymentInv, NEW s \in Sessions, CommitSettle(s)
    PROVE  Stays \/ \E p \in Payments : Funding!Succeed(p) \/ Funding!Fail(p)
<1>1. PICK p, e, row : p = Settling(s) /\ e = EventOf(s) /\ row = request[s].row
  OBVIOUS
<1>2. /\ pc[s] \in Judged /\ Evidencing(s)
      /\ pc[s] = "posted" <=> row.status = "PENDING" /\ e.status = "SUCCEEDED"
  BY <1>1, CommitSettleFacts
<1>3. /\ payment' = [payment EXCEPT ![p].status = e.status]
      /\ outbox' = IF row.status = "PENDING"
                   THEN outbox \cup {<<IF e.status = "SUCCEEDED" THEN "PAYMENT_SUCCEEDED"
                                       ELSE "PAYMENT_FAILED", p>>}
                   ELSE outbox
      /\ pc[s] # "posted" => UNCHANGED tables
      /\ pc[s] = "posted" => PublishEntry(s) /\ ValidPayment(p, tx[s].entry)
  BY <1>1 DEF CommitSettle
<1>4. /\ CallOK(s) /\ p \in Payments /\ e.status \in {"SUCCEEDED", "FAILED"}
      /\ payment[p] = row /\ payment \in [Payments -> PaymentRows]
  BY <1>1, <1>2, JudgedFacts, SettlingIsThere DEF PaymentInv, PaymentTypes
<1>5. row.status \in {"PENDING", e.status}
  BY <1>1, <1>2, <1>4 DEF CallOK, Evidencing, Posting
<1>6. /\ payment'[p].status = e.status /\ payment'[p].intent = payment[p].intent
      /\ \A q \in Payments \ {p} : payment'[q] = payment[q]
      /\ row.status = e.status => payment' = payment
  BY <1>3, <1>4 DEF PaymentRows
<1>7. /\ [q \in Payments |-> payment'[q].status]
           = [[q \in Payments |-> payment[q].status] EXCEPT ![p] = e.status]
      /\ [q \in Payments |-> payment'[q].intent] = [q \in Payments |-> payment[q].intent]
  BY <1>4, <1>6
<1>8. CASE pc[s] = "posted"
  <2>1. /\ PublishEntry(s) /\ ValidPayment(p, tx[s].entry) /\ Ready(s) /\ IndInv
        /\ row.status = "PENDING" /\ e.status = "SUCCEEDED"
    BY <1>2, <1>3, <1>8, PostedIsReady DEF PaymentInv
  <2>2. PICK entry \in journal' : entry = tx[s].entry /\ Funding!Ledger!Post(entry)
    BY <2>1, PublishIsPost, PostIsFundingPost
  <2>3. Funding!Credit(entry, p)
    BY <1>4, <2>1, <2>2 DEF ValidPayment, Funding!Credit, Funding!Posted, Posted
  <2>4. Funding!Settle(p, "SUCCEEDED")
    BY <1>4, <1>7, <2>1 DEF Funding!Settle
  <2>5. outbox' = outbox \cup {<<"PAYMENT_SUCCEEDED", p>>}
    BY <1>3, <2>1
  <2>6. Funding!Succeed(p)
    BY <2>2, <2>3, <2>4, <2>5 DEF Funding!Succeed
  <2> QED BY <1>4, <2>6
<1>9. CASE pc[s] # "posted"
  <2>1. UNCHANGED <<balance, status, journal>>
    BY <1>3, <1>9 DEF tables
  <2>2. CASE row.status = "PENDING"
    <3>1. e.status = "FAILED"
      BY <1>2, <1>4, <1>9, <2>2
    <3>2. Funding!Settle(p, "FAILED")
      BY <1>4, <1>7, <2>2, <3>1 DEF Funding!Settle
    <3>3. outbox' = outbox \cup {<<"PAYMENT_FAILED", p>>}
      BY <1>3, <2>2, <3>1
    <3>4. Funding!Fail(p)
      BY <2>1, <3>2, <3>3 DEF Funding!Fail, Funding!bookVars
    <3> QED BY <1>4, <3>4
  <2>3. CASE row.status # "PENDING"
    BY <1>3, <1>5, <1>6, <2>1, <2>3 DEF Stays
  <2> QED BY <2>2, <2>3
<1> QED BY <1>8, <1>9

\* The steps of which something shows in the committed tables.
LEMMA ShownSteps ==
    ASSUME PaymentInv, [PaymentNext]_paymentVars
    PROVE  \/ Stays
           \/ \E s \in Sessions : InsertIntent(s) \/ CommitSettle(s)
           \/ /\ UNCHANGED <<payment, outbox>>
              /\ (\E w \in Wallets : SetFrozen(w)) \/ (\E s \in Sessions : CommitClose(s))
<1> USE DEF tables, settlement
<1>1. ASSUME NEW s \in Sessions, NewRequest(s) PROVE Stays
  BY <1>1 DEF NewRequest, FindIntent, ReceivePaystack, Reconcile, ReceiveMock, Stays
<1>2. ASSUME NEW s \in Sessions, CreateStep(s), ~InsertIntent(s) PROVE Stays
  BY <1>2 DEF CreateStep, ClaimCheckout, Initialize, SaveUrl, Stays
<1>3. ASSUME NEW s \in Sessions, SettleStep(s), ~CommitSettle(s) PROVE Stays
  <2>1. CASE PostStep(s) /\ UNCHANGED <<settlement, providerVars, acks, request>>
    BY <2>1 DEF PostStep, LockAccount, UpdateAccount, CheckPostings, InsertEntry, Seal, Stays
  <2>2. CASE ~(PostStep(s) /\ UNCHANGED <<settlement, providerVars, acks, request>>)
    BY <1>3, <2>2 DEF SettleStep, Verify, VerifyFails, BeginSettle, LockPayment, InsertEvidence,
       AcknowledgeKnown, RefuseSettle, FailSettle, TryAgain, Stays
  <2> QED BY <2>1, <2>2
<1>4. ASSUME NEW s \in Sessions, AbortSettle(s) \/ LoseCall(s) PROVE Stays
  BY <1>4 DEF AbortSettle, TryAgain, LoseCall, Stays
<1>5. ASSUME NEW p \in Payments, NEW amount \in OtherAmounts \cup {payment[p].intent.amount},
             Pay(p, amount)
      PROVE  Stays
  BY <1>5 DEF Pay, vars, Stays
<1>6. ASSUME WalletStep
      PROVE  /\ UNCHANGED <<payment, outbox>>
             /\ \/ Stays
                \/ (\E w \in Wallets : SetFrozen(w)) \/ (\E s \in Sessions : CommitClose(s))
  <2>1. UNCHANGED <<payment, outbox>>
    BY <1>6 DEF WalletStep
  <2>2. CASE ~(\E w \in Wallets : SetFrozen(w)) /\ ~(\E s \in Sessions : CommitClose(s))
    BY <1>6, <2>1, <2>2 DEF WalletStep, CloseStep, FindToClose, CloseLockAccount, CloseLockWallet,
       RefuseClose, Stays
  <2> QED BY <2>1, <2>2
<1>7. CASE UNCHANGED paymentVars
  BY <1>7 DEF paymentVars, vars, Stays
<1> QED BY <1>1, <1>2, <1>3, <1>4, <1>5, <1>6, <1>7 DEF PaymentNext

\* A close that commits is the close of the promise.
LEMMA CloseIsFunding ==
    ASSUME IndInv, NEW s \in Sessions, CommitClose(s)
    PROVE  Funding!Ledger!Close(Target(s)) /\ Target(s) \in Wallets
<1>1. Target(s) \in Wallets /\ balance[Target(s)] = 0
  BY DEF CommitClose, Closable, IndInv, WalletCallConsistent, WalletMirrorsAccount
<1> QED BY <1>1 DEF CommitClose, Closable, Funding!Ledger!Close

\* Every step is a step of the promise or does not show.
LEMMA StepIsFundingStep ==
    PaymentInv /\ [PaymentNext]_paymentVars => [Funding!Next]_(Funding!funded)
<1> SUFFICES ASSUME PaymentInv, [PaymentNext]_paymentVars
             PROVE  Funding!Next \/ UNCHANGED Funding!funded
  OBVIOUS
<1>1. CASE Stays
  BY <1>1, StaysIsStutter
<1>2. ASSUME NEW s \in Sessions, InsertIntent(s) \/ CommitSettle(s)
      PROVE  Stays \/ Funding!Next
  BY <1>2, InsertIsIntend, CommitIsSettlement DEF Funding!Next
<1>3. ASSUME UNCHANGED <<payment, outbox>>,
             (\E w \in Wallets : SetFrozen(w)) \/ (\E s \in Sessions : CommitClose(s))
      PROVE  Funding!Next
  <2>1. \E w \in Wallets : Funding!Ledger!Close(w) \/ Funding!Ledger!SetFrozen(w)
    BY <1>3, CloseIsFunding DEF SetFrozen, Funding!Ledger!SetFrozen, PaymentInv
  <2> QED BY <1>3, <2>1 DEF Funding!WalletStep, Funding!Next
<1> QED BY <1>1, <1>2, <1>3, ShownSteps, StaysIsStutter

\* The payment endpoints keep the promise of PaymentBook: a user's key makes one
\* payment however requests race, and every payment is settled at most once and
\* at one instant, with exactly its amount.
THEOREM PaymentsImplementFunding == PaymentSpec => ImplementsFunding
<1>1. PaymentInit => Funding!Init
  <2> SUFFICES ASSUME PaymentInit PROVE Funding!Init
    OBVIOUS
  <2>1. Funding!Ledger!Init
    BY DEF PaymentInit, Init, Funding!Ledger!Init, OpeningBalance, Funding!Ledger!OpeningBalance,
       MigratedWith, Funding!Ledger!MigratedWith, SumFunctionOnSet, Funding!Ledger!SumFunctionOnSet,
       FoldFunctionOnSet, Funding!Ledger!FoldFunctionOnSet, MapThenFoldSet,
       Funding!Ledger!MapThenFoldSet, OpeningJournal, Funding!Ledger!OpeningJournal,
       OpeningEntry, Funding!Ledger!OpeningEntry
  <2>2. payment = [p \in Payments |-> NoPayment] /\ outbox = {}
    BY DEF PaymentInit
  <2>3. [p \in Payments |-> payment[p].status] = [p \in Payments |-> "NONE"]
    BY <2>2, NoPaymentFields
  <2> QED BY <2>1, <2>2, <2>3 DEF Funding!Init
<1> QED BY <1>1, StepIsFundingStep, PaymentInductive, PTL DEF PaymentSpec, ImplementsFunding, Funding!Spec

\* Every step keeps the books.
LEMMA PaymentStepKeepsBooks ==
    ASSUME IsFiniteSet(Accounts), PaymentInv, BooksInv, [PaymentNext]_paymentVars
    PROVE  BooksInv'
<1>1. status \in [Wallets -> Statuses]
  BY DEF PaymentInv, IndInv, StoreOK
<1>2. CASE Stays \/ \E s \in Sessions : InsertIntent(s)
  <2>1. UNCHANGED <<balance, journal, status>>
    BY <1>2 DEF Stays, InsertIntent, tables
  <2> QED BY <2>1, StatusKeepsBooks
<1>3. ASSUME NEW s \in Sessions, CommitSettle(s) PROVE BooksInv'
  <2>1. CASE pc[s] = "posted"
    <3>1. IndInv /\ Ready(s) /\ PublishEntry(s)
      BY <1>3, <2>1, PostedIsReady DEF CommitSettle, PaymentInv
    <3> QED BY <3>1, PublishKeepsBooks
  <2>2. CASE pc[s] # "posted"
    <3>1. UNCHANGED <<balance, journal, status>>
      BY <1>3, <2>2 DEF CommitSettle, tables
    <3> QED BY <3>1, StatusKeepsBooks
  <2> QED BY <2>1, <2>2
<1>4. CASE \E w \in Wallets : SetFrozen(w)
  <2>1. UNCHANGED <<balance, journal>> /\ \A w \in Wallets : status'[w] = "NONE" => status[w] = "NONE"
    BY <1>1, <1>4 DEF SetFrozen
  <2> QED BY <2>1, StatusKeepsBooks
<1>5. CASE \E s \in Sessions : CommitClose(s)
  <2>1. UNCHANGED <<balance, journal>> /\ \A w \in Wallets : status'[w] = "NONE" => status[w] = "NONE"
    BY <1>1, <1>5 DEF CommitClose
  <2> QED BY <2>1, StatusKeepsBooks
<1> QED BY <1>2, <1>3, <1>4, <1>5, ShownSteps

\* The books balance under payments too: whatever providers report and however
\* settlements race, no money is made or lost between clearing and wallets.
THEOREM PaymentsKeepTheBooks ==
    ASSUME IsFiniteSet(Accounts)
    PROVE  PaymentSpec => []BooksReconcile
<1>1. PaymentInit => BooksInv
  BY InitBooks DEF PaymentInit
<1>2. PaymentInv /\ BooksInv /\ [PaymentNext]_paymentVars => BooksInv'
  BY PaymentStepKeepsBooks
<1>3. BooksInv => BooksReconcile
  BY DEF BooksInv, Reconciled, BooksReconcile, InCurrency
<1> QED BY <1>1, <1>2, <1>3, PaymentInductive, PTL DEF PaymentSpec
==============================================================================
