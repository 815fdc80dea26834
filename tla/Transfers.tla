------------------------------ MODULE Transfers ------------------------------
(***************************************************************************)
(* TransfersService, ReversalsService and BeneficiariesService over the    *)
(* ledger.  A session of Ledger.tla serves one HTTP request: it claims the *)
(* idempotency key, looks up what the request names, calls                 *)
(* postWithinTransaction (PostStep of Ledger.tla), records the result, and *)
(* commits all of it; a refusal is recorded and committed under the key    *)
(* instead.  A client repeats a call as often as it likes, concurrently,   *)
(* with its answer lost or not.                                            *)
(***************************************************************************)
EXTENDS Ledger

CONSTANTS
    Calls,              \* the requests clients send
    Ids,                \* fresh UUIDs of transfers and reversals (numbers)
    Beneficiaries,      \* ids of beneficiary rows, one per (owner, wallet)
    BeneficiaryOwner,   \* [Beneficiaries -> Users]
    BeneficiaryWallet   \* [Beneficiaries -> Wallets]

VARIABLES
    idem,           \* IdempotencyRecord by (user, scope, key), committed
    transfers,      \* Transfer rows, committed
    reversals,      \* TransferReversal rows, committed
    audit,          \* AuditLog rows as <<action, transferId>>
    outbox,         \* OutboxEvent rows as <<type, aggregateId>>
    saved,          \* beneficiaries that exist and are not soft-deleted
    request,        \* [Sessions -> the call and what its snapshot shows]
    answers         \* [Indexes -> the definitive answers clients received]

records == <<transfers, reversals, audit, outbox>>
clientVars == <<request, answers>>
transferVars == <<vars, idem, records, saved, clientVars>>

-----------------------------------------------------------------------------
(* Requests *)

TransferScope == "internal-transfer"
ReversalScope == "transfer-reversal"

Absent == 0     \* an optional field that is not given

\* The DTOs of the two requests, and the references and ids made for them.
ASSUME CallsAssumption ==
    /\ \A c \in Calls : c.scope \in {TransferScope, ReversalScope} /\ c.user \in Users
    /\ \A c \in Calls : c.scope = TransferScope =>
         c.source \in Wallets /\ c.destination \in Wallets \cup {Absent} /\ c.amount \in Int
    /\ \A b \in Beneficiaries : BeneficiaryWallet[b] \in Wallets
    /\ Ids \subseteq Nat \ {Absent}
    /\ {TransferScope, ReversalScope} \X Ids \subseteq References

Index(c) == <<c.user, c.scope, c.key>>

Indexes == {Index(c) : c \in Calls}

\* hashRequest: what the request says, apart from who sends it under which key.
Hash(c) == <<c.source, c.destination, c.beneficiary, c.amount, c.transfer>>

\* normalizeTransferRequest
WellFormed(c) ==
    c.scope = TransferScope =>
        /\ (c.destination = Absent) # (c.beneficiary = Absent)
        /\ c.amount > 0 /\ c.amount <= MaxMinor

NoRecord == [status |-> "NONE", hash |-> <<>>, result |-> <<"none">>]

\* Mutant of Record: the completed record does not name what was done.
RecordWithoutResult(c, st, result) ==
    [status |-> st, hash |-> Hash(c),
     result |-> IF st = "COMPLETED" THEN <<"none">> ELSE result]

Record(c, st, result) == [status |-> st, hash |-> Hash(c), result |-> result]

NoRequest ==
    [call |-> {}, transfers |-> {}, reversals |-> {}, saved |-> {},
     id |-> Absent, to |-> Absent, beneficiary |-> Absent]

CallOf(s) == CHOOSE c \in request[s].call : TRUE

IndexOf(s) == Index(CallOf(s))

\* The sessions whose transaction holds an uncommitted IdempotencyRecord.
Claiming(t) == pc[t] \in {"lockTransfer", "lookup", "lock", "rejected", "broken",
                          "insert", "update", "posted", "recorded"}

-----------------------------------------------------------------------------
(* resolveExistingIdempotency, and the answer to the client *)

\* The answer to call c when the record of its key is r: the stored outcome,
\* unless the key was used for another request or is still in progress (409).
Resolved(c, r) ==
    IF r.status \in {"COMPLETED", "FAILED"} /\ r.hash = Hash(c)
    THEN {r.result}
    ELSE {}

\* The answer reaches the client, or is lost.
Answer(c, given) ==
    \/ answers' = [answers EXCEPT ![Index(c)] = @ \cup given]
    \/ UNCHANGED answers

-----------------------------------------------------------------------------
(* TransfersService.create and ReversalsService.create *)

\* findUnique of the record, the first statement: it takes the snapshot.
ReplayCall(s, c) ==
    /\ pc[s] = "idle"
    /\ WellFormed(c)
    /\ idem[Index(c)] # NoRecord
    /\ Answer(c, Resolved(c, idem[Index(c)]))
    /\ UNCHANGED <<vars, idem, records, saved, request>>

BeginCall(s, c) ==
    /\ pc[s] = "idle"
    /\ WellFormed(c)
    /\ idem[Index(c)] = NoRecord
    /\ tx' = [tx EXCEPT ![s] = [NoTx EXCEPT !.isolation = "Serializable", !.snap = Snapshot]]
    /\ request' = [request EXCEPT ![s] = [NoRequest EXCEPT !.call = {c},
                                            !.transfers = transfers,
                                            !.reversals = reversals,
                                            !.saved = saved]]
    /\ Goto(s, "claim")
    /\ UNCHANGED <<tables, idem, records, saved, answers>>

\* Mutant of Claim: no unique index on (userId, scope, key).
ClaimAgain(s) ==
    /\ pc[s] = "claim"
    /\ Goto(s, IF CallOf(s).scope = ReversalScope THEN "lockTransfer" ELSE "lookup")
    /\ UNCHANGED <<tables, tx, idem, records, saved, clientVars>>

\* The claim: an insert under the unique (userId, scope, key).
Claim(s) ==
    /\ pc[s] = "claim"
    /\ \A t \in Sessions \ {s} : Claiming(t) => IndexOf(t) # IndexOf(s)
    /\ idem[IndexOf(s)] = NoRecord
    /\ Goto(s, IF CallOf(s).scope = ReversalScope THEN "lockTransfer" ELSE "lookup")
    /\ UNCHANGED <<tables, tx, idem, records, saved, clientVars>>

DuplicateClaim(s) == pc[s] = "claim" /\ idem[IndexOf(s)] # NoRecord

TransferLocked(t, id) ==
    /\ Claiming(t) /\ pc[t] # "lockTransfer"
    /\ CallOf(t).transfer = id
    /\ \E x \in request[t].transfers : x.id = id

\* SELECT ... FROM "Transfer" FOR UPDATE.  The row is never updated, so the
\* lock makes a second reversal wait and never fails.
LockTransfer(s) ==
    /\ pc[s] = "lockTransfer"
    /\ LET id == CallOf(s).transfer IN
         (\E x \in request[s].transfers : x.id = id) =>
             \A t \in Sessions \ {s} : ~TransferLocked(t, id)
    /\ Goto(s, "lookup")
    /\ UNCHANGED <<tables, tx, idem, records, saved, clientVars>>

Active(s, w) == tx[s].snap.status[w] = "ACTIVE"

\* Where a transfer goes: the wallet of a saved beneficiary of the sender, or
\* the wallet that is named.  {}: not found.
Destination(s) ==
    LET c == CallOf(s) IN
    IF c.beneficiary # Absent
    THEN {BeneficiaryWallet[b] : b \in {b \in request[s].saved :
              b = c.beneficiary /\ BeneficiaryOwner[b] = c.user}}
    ELSE {w \in {c.destination} : tx[s].snap.status[w] # "NONE"}

\* The movements that pass every check of the service: who pays whom.
TransferMovement(s) ==
    LET c == CallOf(s) IN
    {[from |-> c.source, to |-> w, amount |-> c.amount] :
        w \in {w \in Destination(s) :
                 /\ OwnerOf[c.source] = c.user
                 /\ Active(s, c.source) /\ Active(s, w)
                 /\ c.source # w
                 /\ CurrencyOf[c.source] = CurrencyOf[w]}}

ReversalMovement(s) ==
    {[from |-> t.destination, to |-> t.source, amount |-> t.amount] :
        t \in {t \in request[s].transfers :
                 /\ t.id = CallOf(s).transfer /\ t.sender = CallOf(s).user
                 /\ \A r \in request[s].reversals : r.transfer # t.id
                 /\ Active(s, t.source) /\ Active(s, t.destination)}}

Movements(s) ==
    IF CallOf(s).scope = ReversalScope THEN ReversalMovement(s) ELSE TransferMovement(s)

\* randomUUID
UsedIds ==
    {t.id : t \in transfers} \cup {r.id : r \in reversals} \cup {request[s].id : s \in Sessions}

FreshId(id) == id \in Ids \ UsedIds /\ \A i \in Ids \ UsedIds : id <= i

EntryFor(scope, m, id) ==
    [reference |-> <<scope, id>>,
     currency  |-> CurrencyOf[m.from],
     postings  |-> [a \in Accounts |-> IF a = m.from THEN -m.amount
                                       ELSE IF a = m.to THEN m.amount ELSE 0]]

\* The reads before the ledger is called, all of the snapshot.
Lookup(s) ==
    /\ pc[s] = "lookup"
    /\ \/ /\ Movements(s) = {}
          /\ Goto(s, "rejected")
          /\ UNCHANGED <<tx, request>>
       \/ \E m \in Movements(s), id \in Ids :
             /\ FreshId(id)
             /\ tx' = [tx EXCEPT ![s].entry = EntryFor(CallOf(s).scope, m, id)]
             /\ request' = [request EXCEPT ![s].id = id, ![s].to = m.to]
             /\ Goto(s, "lock")
    /\ UNCHANGED <<tables, idem, records, saved, answers>>

\* Sessions with an uncommitted TransferReversal, by the transfer it reverses.
ReversalHeld(s) ==
    \E t \in Sessions \ {s} :
        /\ pc[t] = "recorded" /\ CallOf(t).scope = ReversalScope
        /\ CallOf(t).transfer = CallOf(s).transfer

ReversalExists(s) == \E r \in reversals : r.transfer = CallOf(s).transfer

\* Mutant of RecordResult: the client is answered before the commit.
AnswerEarly(s) ==
    /\ pc[s] = "posted"
    /\ CallOf(s).scope = ReversalScope => ~ReversalHeld(s) /\ ~ReversalExists(s)
    /\ Answer(CallOf(s), {<<"done", request[s].id>>})
    /\ Goto(s, "recorded")
    /\ UNCHANGED <<tables, tx, idem, records, saved, request>>

\* Insert the Transfer or TransferReversal, its AuditLog and OutboxEvent, and
\* complete the claim.  Only a reversal's row can collide: transferId is unique.
RecordResult(s) ==
    /\ pc[s] = "posted"
    /\ CallOf(s).scope = ReversalScope => ~ReversalHeld(s) /\ ~ReversalExists(s)
    /\ Goto(s, "recorded")
    /\ UNCHANGED <<tables, tx, idem, records, saved, clientVars>>

DuplicateReversal(s) ==
    pc[s] = "posted" /\ CallOf(s).scope = ReversalScope /\ ReversalExists(s)

\* The rows, as the transaction leaves them.
TransferRow(s) ==
    [id |-> request[s].id, sender |-> CallOf(s).user, source |-> CallOf(s).source,
     destination |-> request[s].to, amount |-> CallOf(s).amount]

ReversalRow(s) ==
    [id |-> request[s].id, transfer |-> CallOf(s).transfer, actor |-> CallOf(s).user]

Moves(entry, from, to, amount) ==
    /\ Posted(entry) = {from, to}
    /\ entry.postings[from] = -amount /\ entry.postings[to] = amount

\* validateTransferIntegrity, at commit.
ValidTransfer(row, entry) ==
    /\ OwnerOf[row.source] = row.sender
    /\ CurrencyOf[row.source] = entry.currency /\ CurrencyOf[row.destination] = entry.currency
    /\ Moves(entry, row.source, row.destination, row.amount)

\* validateTransferReversalIntegrity, at commit.
ValidReversal(row, entry) ==
    \E t \in transfers :
        /\ t.id = row.transfer /\ t.sender = row.actor
        /\ Moves(entry, t.destination, t.source, t.amount)

EndRequest(s) == request' = [request EXCEPT ![s] = NoRequest]

CommitCall(s) ==
    LET c == CallOf(s)
        id == request[s].id
        done == <<"done", id>>
    IN  /\ pc[s] = "recorded"
        /\ PublishEntry(s)
        /\ idem' = [idem EXCEPT ![Index(c)] = Record(c, "COMPLETED", done)]
        /\ IF c.scope = ReversalScope
           THEN /\ ValidReversal(ReversalRow(s), tx[s].entry)
                /\ reversals' = reversals \cup {ReversalRow(s)}
                /\ audit' = audit \cup {<<"TRANSFER_REVERSED", c.transfer>>}
                /\ outbox' = outbox \cup {<<"TRANSFER_REVERSED", id>>}
                /\ UNCHANGED transfers
           ELSE /\ ValidTransfer(TransferRow(s), tx[s].entry)
                /\ transfers' = transfers \cup {TransferRow(s)}
                /\ audit' = audit \cup {<<"TRANSFER_CREATED", id>>}
                /\ outbox' = outbox \cup {<<"TRANSFER_COMPLETED", id>>}
                /\ UNCHANGED reversals
        /\ Answer(c, {done})
        /\ EndRequest(s)
        /\ Goto(s, "idle")
        /\ UNCHANGED saved

\* A 4xx after the claim: the failure is stored under the key and committed.
PersistFailure(s) ==
    LET c == CallOf(s) IN
    /\ pc[s] = "rejected"
    /\ idem' = [idem EXCEPT ![Index(c)] = Record(c, "FAILED", <<"failure">>)]
    /\ Commit(s, {}, {})
    /\ Answer(c, {<<"failure">>})
    /\ EndRequest(s)
    /\ Goto(s, "idle")
    /\ UNCHANGED <<tables, records, saved>>

\* P2002 or 40001: the transaction is rolled back, the claim with it.
FailCall(s) ==
    /\ SerializationConflict(s) \/ DuplicateClaim(s) \/ DuplicateReversal(s)
    /\ Rollback(s)
    /\ Goto(s, "replay")
    /\ UNCHANGED <<tables, idem, records, saved, clientVars>>

\* replayAfterIdempotencyRace: a later read of the record, if there is one by
\* the last of five reads, answers; otherwise the client is told to retry.
ReplayAfterRace(s) ==
    /\ pc[s] = "replay"
    /\ Answer(CallOf(s), Resolved(CallOf(s), idem[IndexOf(s)]))
    /\ EndRequest(s)
    /\ Goto(s, "idle")
    /\ UNCHANGED <<tables, tx, idem, records, saved>>

\* PostgreSQL's own serialization failures (P2034), at any statement.
AbortCall(s) ==
    /\ Serializable(s)
    /\ Rollback(s)
    /\ Goto(s, "replay")
    /\ UNCHANGED <<tables, idem, records, saved, clientVars>>

\* A timeout, a lost connection or a crash, or a 500: nothing that the client
\* could take for an outcome.
LoseCall(s) ==
    /\ InTx(s) \/ pc[s] \in {"replay", "beneficiary"}
    /\ Rollback(s)
    /\ EndRequest(s)
    /\ Goto(s, "idle")
    /\ UNCHANGED <<tables, idem, records, saved, answers>>

-----------------------------------------------------------------------------
(* BeneficiariesService: single statements, no transaction *)

\* create reads the wallet ...
FindBeneficiaryWallet(s, b) ==
    /\ pc[s] = "idle"
    /\ BeneficiaryOwner[b] # OwnerOf[BeneficiaryWallet[b]]
    /\ status[BeneficiaryWallet[b]] = "ACTIVE"
    /\ request' = [request EXCEPT ![s].beneficiary = b]
    /\ Goto(s, "beneficiary")
    /\ UNCHANGED <<tables, tx, idem, records, saved, answers>>

\* ... and inserts or restores the row (a row that is there is a 409).
SaveBeneficiary(s) ==
    /\ pc[s] = "beneficiary"
    /\ saved' = saved \cup {request[s].beneficiary}
    /\ EndRequest(s)
    /\ Goto(s, "idle")
    /\ UNCHANGED <<tables, tx, idem, records, answers>>

RemoveBeneficiary(b) ==
    /\ b \in saved
    /\ saved' = saved \ {b}
    /\ UNCHANGED <<vars, idem, records, clientVars>>

-----------------------------------------------------------------------------

TransferInit ==
    /\ Init
    /\ idem = [k \in Indexes |-> NoRecord]
    /\ transfers = {} /\ reversals = {} /\ audit = {} /\ outbox = {}
    /\ saved = {}
    /\ request = [s \in Sessions |-> NoRequest]
    /\ answers = [k \in Indexes |-> {}]

NewCall(s) ==
    \/ \E c \in Calls : ReplayCall(s, c) \/ BeginCall(s, c)
    \/ \E b \in Beneficiaries : FindBeneficiaryWallet(s, b)

ServiceStep(s) ==
    \/ Claim(s) \/ LockTransfer(s) \/ Lookup(s)
    \/ RecordResult(s) \/ CommitCall(s) \/ PersistFailure(s)
    \/ FailCall(s) \/ ReplayAfterRace(s)
    \/ SaveBeneficiary(s)

\* Steps of the ledger and of wallet closing change nothing of the services.
LedgerStep ==
    /\ \/ \E s \in Sessions :
            \/ PostStep(s)
            \/ CloseStep(s)
            \/ \E w \in Wallets : FindToClose(s, w)
       \/ \E w \in Wallets : SetFrozen(w)
    /\ UNCHANGED <<idem, records, saved, clientVars>>

TransferNext ==
    \/ \E s \in Sessions : NewCall(s) \/ ServiceStep(s) \/ AbortCall(s) \/ LoseCall(s)
    \/ LedgerStep
    \/ \E b \in Beneficiaries : RemoveBeneficiary(b)

TransferSpec == TransferInit /\ [][TransferNext]_transferVars

-----------------------------------------------------------------------------
(* Properties *)

Results == {<<"none">>, <<"failure">>} \cup {<<"done", id>> : id \in Ids}

TransferRows ==
    [id : Ids, sender : Users, source : Wallets, destination : Wallets, amount : Int]

ReversalRows == [id : Ids, transfer : Ids, actor : Users]

Requests ==
    [call : {{}} \cup {{c} : c \in Calls}, transfers : SUBSET TransferRows,
     reversals : SUBSET ReversalRows, saved : SUBSET Beneficiaries,
     id : Ids \cup {Absent}, to : Wallets \cup {Absent},
     beneficiary : Beneficiaries \cup {Absent}]

\* Every table and request has its type, and the CHECK on idempotency records
\* holds: a status goes with its kind of result (IdempotencyRecord_terminal_check).
TransferTypeOK ==
    /\ \A k \in Indexes :
         /\ idem[k].result \in Results
         /\ idem[k].status = CASE idem[k].result = <<"none">>    -> "NONE"
                               [] idem[k].result = <<"failure">> -> "FAILED"
                               [] OTHER                          -> "COMPLETED"
         /\ answers[k] \subseteq Results
    /\ transfers \subseteq TransferRows
    /\ reversals \subseteq ReversalRows
    /\ saved \subseteq Beneficiaries
    /\ \A s \in Sessions :
         /\ request[s] \in Requests
         /\ pc[s] \in Labels \cup {"claim", "lockTransfer", "lookup", "recorded",
                                  "replay", "beneficiary"}

Promise == INSTANCE TransferBook
             WITH decided <- [k \in Indexes |-> idem[k].result]

\* Every key is decided once and at one instant: with a valid movement of the
\* balances of that instant, its transfer or reversal, audit and event, or
\* with a failure that moves nothing; at most one reversal per transfer.
ImplementsPromise == Promise!Spec

\* Whatever a client was ever told under a key, by the first call, by a
\* repeated one or after a race, is the outcome that is stored for good: no
\* answer is given for work that is rolled back, and no two answers differ.
AnswersAreFinal ==
    \A k \in Indexes : \A given \in answers[k] : given = idem[k].result

\* Every entry that reaches the journal is that of one transfer or reversal,
\* and every transfer or reversal belongs to exactly one completed key: no
\* retry moves money twice and nothing moves without a record of it.
EveryMovementAccounted ==
    LET done == {t.id : t \in transfers} \cup {r.id : r \in reversals}
        entries == {e.reference[2] : e \in journal \ OpeningJournal}
    IN  /\ entries = done
        /\ \A id \in done : \E k \in Indexes :
             /\ idem[k].result = <<"done", id>>
             /\ \A j \in Indexes \ {k} : idem[j].result # <<"done", id>>

\* s waits for t: for the claim of a key, a transfer row, a reversal's unique
\* index, or one of the ledger's locks.
CallWaits(s, t) ==
    \/ pc[s] = "claim" /\ Claiming(t) /\ IndexOf(t) = IndexOf(s)
    \/ pc[s] = "lockTransfer" /\ TransferLocked(t, CallOf(s).transfer)
    \/ /\ pc[s] = "posted" /\ pc[t] = "recorded"
       /\ CallOf(s).scope = ReversalScope /\ CallOf(t).scope = ReversalScope
       /\ CallOf(t).transfer = CallOf(s).transfer
    \/ Waits(s, t)

\* Claims, transfer rows, accounts and wallets are locked in one order by
\* every service: no circle of calls waits for each other.
NoCallDeadlock ==
    \A S \in (SUBSET Sessions) \ {{}} :
        \E s \in S : \A t \in S \ {s} : ~CallWaits(s, t)
==============================================================================
