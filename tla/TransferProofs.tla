---------------------------- MODULE TransferProofs ----------------------------
(***************************************************************************)
(* Transfers, for every set of calls, ids, beneficiaries and sessions.     *)
(* The ledger's invariant is kept by every step of the services, so its    *)
(* lemmas apply to postWithinTransaction here as well.  On top of it,      *)
(* CallOK says what a call knows where it is, Apart what two calls never   *)
(* share, RecordOK what a key may be completed with, and MovementsOK how   *)
(* journal, rows and keys agree.                                           *)
(***************************************************************************)
EXTENDS Transfers, DeadlockProofs, BooksProofs

IdemRecords ==
    [status : {"NONE", "COMPLETED", "FAILED"},
     hash   : {NoRecord.hash} \cup {Hash(c) : c \in Calls},
     result : Results]

TransferTypes ==
    /\ idem \in [Indexes -> IdemRecords]
    /\ transfers \subseteq TransferRows
    /\ reversals \subseteq ReversalRows
    /\ saved \subseteq Beneficiaries
    /\ request \in [Sessions -> Requests]

TransferLabels ==
    (Labels \ {"create"}) \cup {"claim", "lockTransfer", "lookup", "recorded", "replay", "beneficiary"}

\* Where a call has posted or is posting its movement.
Booking == {"lock", "broken", "insert", "update", "posted", "recorded"}

DoneIds == {t.id : t \in transfers} \cup {r.id : r \in reversals}

\* The transaction holds what it needs to publish its entry.
Sealed(s) ==
    /\ Serializable(s)
    /\ tx[s].accounts = PostedBy(s)
    /\ tx[s].wallets = PostedBy(s) \cap Wallets
    /\ \A a \in PostedBy(s) : Acceptable(s, a)

Reverses(s) == CallOf(s).scope = ReversalScope

\* What a call knows of its request, its key and its movement.
CallOK(s) ==
    /\ pc[s] \in TransferLabels
    /\ pc[s] \in {"replay", "beneficiary"} => tx[s] = NoTx
    /\ pc[s] = "beneficiary" => request[s].beneficiary \in Beneficiaries
    /\ Claiming(s) \/ pc[s] \in {"claim", "replay"} =>
         \E c \in Calls : request[s].call = {c} /\ WellFormed(c)
    /\ pc[s] \in {"claim", "lockTransfer", "lookup"} =>
         Serializable(s) /\ tx[s].accounts = {} /\ tx[s].wallets = {} /\ tx[s].written = {}
    /\ Claiming(s) => idem[IndexOf(s)] = NoRecord
    /\ pc[s] \in Booking =>
         /\ request[s].id \in Ids /\ request[s].to \in Wallets
         /\ tx[s].entry.reference = <<CallOf(s).scope, request[s].id>>
    /\ request[s].id # Absent => request[s].id \notin DoneIds
    /\ pc[s] = "recorded" => Sealed(s) /\ (Reverses(s) => ~ReversalExists(s))

\* The claim of the key, the fresh id and the unique reversal keep two calls apart.
Apart(s, t) ==
    /\ Claiming(s) /\ Claiming(t) => IndexOf(s) # IndexOf(t)
    /\ request[s].id # Absent => request[s].id # request[t].id
    /\ pc[s] = "recorded" /\ pc[t] = "recorded" /\ Reverses(s) /\ Reverses(t) =>
         CallOf(s).transfer # CallOf(t).transfer

\* An idempotency record is open, failed or completed by something that was done.
RecordOK(k) ==
    \/ idem[k] = NoRecord
    \/ idem[k].status = "FAILED" /\ idem[k].result = <<"failure">>
    \/ idem[k].status = "COMPLETED" /\ \E id \in DoneIds : idem[k].result = <<"done", id>>

\* What was done is in the journal and belongs to one key.
MovementsOK ==
    /\ {e.reference[2] : e \in journal \ OpeningJournal} = DoneIds
    /\ \A id \in DoneIds : \E k \in Indexes : idem[k].result = <<"done", id>>
    /\ \A j, k \in Indexes : \A id \in DoneIds :
         idem[j].result = <<"done", id>> /\ idem[k].result = <<"done", id>> => j = k

\* Clients are told outcomes only, and final ones.
AnswersOK ==
    /\ answers \in [Indexes -> SUBSET (Results \ {NoRecord.result})]
    /\ AnswersAreFinal

\* Inductive.
TransferInv ==
    /\ IndInv
    /\ TransferTypes
    /\ \A s \in Sessions : CallOK(s)
    /\ \A s, t \in Sessions : s # t => Apart(s, t)
    /\ \A k \in Indexes : RecordOK(k)
    /\ MovementsOK
    /\ AnswersOK

-----------------------------------------------------------------------------
(* Requests, records and rows *)

\* The three kinds of result of a key differ.
LEMMA ResultsDiffer ==
    /\ <<"none">> # <<"failure">>
    /\ \A id : <<"done", id>> # <<"none">> /\ <<"done", id>> # <<"failure">>
    /\ \A i, j : <<"done", i>> = <<"done", j>> => i = j
    /\ NoRecord.result = <<"none">> /\ NoRecord.status = "NONE"
<1>1. <<"none">>[1] = "none" /\ <<"failure">>[1] = "failure"
  OBVIOUS
<1>2. \A id : <<"done", id>>[1] = "done" /\ <<"done", id>>[2] = id
  OBVIOUS
<1>3. NoRecord.result = <<"none">> /\ NoRecord.status = "NONE"
  BY DEF NoRecord
<1> QED BY <1>1, <1>2, <1>3

\* No request, and no record, are well typed.
LEMMA NoRequestType ==
    /\ NoRequest \in Requests /\ NoRecord \in IdemRecords
    /\ NoRequest.id = Absent
<1>1. NoRequest \in Requests /\ NoRequest.id = Absent
  BY DEF NoRequest, Requests
<1>2. NoRecord \in IdemRecords
  BY DEF NoRecord, IdemRecords, Results
<1> QED BY <1>1, <1>2

\* The call of a session that has one.
LEMMA CallOfIs ==
    ASSUME NEW s, NEW c, request[s].call = {c}
    PROVE  CallOf(s) = c /\ IndexOf(s) = Index(c)
BY DEF CallOf, IndexOf

\* A session with a call that is under way.
LEMMA HasCall ==
    ASSUME TransferInv, NEW s \in Sessions, Claiming(s) \/ pc[s] \in {"claim", "replay"}
    PROVE  \E c \in Calls : /\ request[s].call = {c} /\ WellFormed(c)
                            /\ CallOf(s) = c /\ IndexOf(s) = Index(c) /\ Index(c) \in Indexes
<1>1. PICK c \in Calls : request[s].call = {c} /\ WellFormed(c)
  BY DEF TransferInv, CallOK
<1>2. Index(c) \in Indexes
  BY DEF Indexes
<1> QED BY <1>1, <1>2, CallOfIs

-----------------------------------------------------------------------------
(* Steps that leave keys, rows and journal as they are *)

\* A call goes on knowing what it knew, if the others leave its transaction and
\* its key alone, and do not do what it is to do.
LEMMA CallKeeps ==
    ASSUME TransferInv, NEW t \in Sessions, NEW A, NEW W, Kept(t, A, W),
           pc'[t] = pc[t], request'[t] = request[t],
           Claiming(t) => idem'[IndexOf(t)] = idem[IndexOf(t)],
           request[t].id # Absent => request[t].id \notin DoneIds',
           pc[t] = "recorded" /\ Reverses(t) => ~ReversalExists(t)'
    PROVE  CallOK(t)'
<1>1. CallOK(t)
  BY DEF TransferInv
<1>2. /\ CallOf(t)' = CallOf(t) /\ IndexOf(t)' = IndexOf(t) /\ Reverses(t)' = Reverses(t)
      /\ Claiming(t)' = Claiming(t)
  BY DEF CallOf, IndexOf, Reverses, Claiming
<1>3. tx[t] = NoTx => tx'[t] = NoTx
  BY DEF Kept, NoTx, Serializable
<1>4. /\ Serializable(t)' = Serializable(t) /\ PostedBy(t)' = PostedBy(t)
      /\ tx'[t].accounts = tx[t].accounts /\ tx'[t].wallets = tx[t].wallets
      /\ tx'[t].written = tx[t].written /\ tx'[t].entry = tx[t].entry
  BY DEF Kept, Serializable, PostedBy
<1>5. \A a \in Accounts : Acceptable(t, a)' = Acceptable(t, a)
  BY DEF Kept, Acceptable, NextBalance
<1>6. PostedBy(t) \subseteq Accounts
  BY DEF PostedBy, Posted
<1>7. Sealed(t)' = Sealed(t)
  BY <1>4, <1>5, <1>6 DEF Sealed
<1>8. /\ Claiming(t) => idem'[IndexOf(t)] = NoRecord
      /\ pc[t] = "recorded" => Sealed(t) /\ (Reverses(t) => ~ReversalExists(t)')
  BY <1>1 DEF CallOK
<1> QED BY <1>1, <1>2, <1>3, <1>4, <1>7, <1>8 DEF CallOK

\* The keys, rows and journal are in order as long as nobody writes them.
LEMMA BooksKeep ==
    ASSUME TransferInv, IndInv', request' \in [Sessions -> Requests],
           saved' \subseteq Beneficiaries, AnswersOK',
           \A t \in Sessions : CallOK(t)',
           \A t, u \in Sessions : t # u => Apart(t, u)',
           UNCHANGED <<journal, idem, transfers, reversals>>
    PROVE  TransferInv'
<1>1. TransferTypes'
  BY DEF TransferInv, TransferTypes
<1>2. DoneIds' = DoneIds
  BY DEF DoneIds
<1>3. ASSUME NEW k \in Indexes PROVE RecordOK(k)'
  BY <1>2 DEF TransferInv, RecordOK
<1>4. MovementsOK'
  BY <1>2 DEF TransferInv, MovementsOK
<1> QED BY <1>1, <1>3, <1>4 DEF TransferInv

\* What an answer has to be: the stored outcome.
LEMMA AnswersStay ==
    ASSUME TransferInv, UNCHANGED <<answers, idem>>
    PROVE  AnswersOK'
BY DEF TransferInv, AnswersOK, AnswersAreFinal

\* Two calls are kept apart by what the one that moves is kept apart from.
LEMMA ApartMove ==
    ASSUME TransferInv, NEW s \in Sessions, NEW r \in Requests,
           request' = [request EXCEPT ![s] = r],
           \A t \in Sessions \ {s} : pc'[t] = pc[t] /\ Apart(s, t)'
    PROVE  \A t, u \in Sessions : t # u => Apart(t, u)'
<1> SUFFICES ASSUME NEW t \in Sessions, NEW u \in Sessions, t # u PROVE Apart(t, u)'
  OBVIOUS
<1>1. request \in [Sessions -> Requests]
  BY DEF TransferInv, TransferTypes
<1>2. CASE t = s
  BY <1>2
<1>3. CASE u = s
  <2>1. Apart(s, t)'
    BY <1>3
  <2> QED BY <2>1, <1>3 DEF Apart
<1>4. CASE t # s /\ u # s
  <2>1. Apart(t, u)
    BY DEF TransferInv
  <2>2. pc'[t] = pc[t] /\ pc'[u] = pc[u] /\ request'[t] = request[t] /\ request'[u] = request[u]
    BY <1>1, <1>4
  <2> QED BY <2>1, <2>2 DEF Apart, Claiming, IndexOf, CallOf, Reverses
<1> QED BY <1>2, <1>3, <1>4

\* One call moves on and keys, rows and journal stay as they are.
LEMMA CallMoveInv ==
    ASSUME TransferInv, IndInv', NEW s \in Sessions, NEW r \in Requests,
           request' = [request EXCEPT ![s] = r],
           \A t \in Sessions \ {s} : pc'[t] = pc[t] /\ \E A, W : Kept(t, A, W),
           CallOK(s)',
           \A t \in Sessions \ {s} : Apart(s, t)',
           saved' \subseteq Beneficiaries, AnswersOK',
           UNCHANGED <<journal, idem, transfers, reversals>>
    PROVE  TransferInv'
<1>1. request \in [Sessions -> Requests]
  BY DEF TransferInv, TransferTypes
<1>2. request' \in [Sessions -> Requests] /\ \A t \in Sessions \ {s} : request'[t] = request[t]
  BY <1>1
<1>3. ASSUME NEW t \in Sessions PROVE CallOK(t)'
  <2>1. CASE t = s
    BY <2>1
  <2>2. CASE t # s
    <3>1. PICK A, W : Kept(t, A, W)
      BY <2>2
    <3>2. pc'[t] = pc[t] /\ request'[t] = request[t]
      BY <1>2, <2>2
    <3>3. request[t].id # Absent => request[t].id \notin DoneIds'
      BY DEF TransferInv, CallOK, DoneIds
    <3>4. pc[t] = "recorded" /\ Reverses(t) => ~ReversalExists(t)'
      BY <3>2 DEF TransferInv, CallOK, ReversalExists, CallOf
    <3> QED BY <3>1, <3>2, <3>3, <3>4, CallKeeps
  <2> QED BY <2>1, <2>2
<1>4. \A t, u \in Sessions : t # u => Apart(t, u)'
  BY ApartMove
<1> QED BY <1>2, <1>3, <1>4, BooksKeep

\* A call moves on within its request without claiming or recording anything.
LEMMA CallStepInv ==
    ASSUME TransferInv, IndInv', NEW s \in Sessions,
           \A t \in Sessions \ {s} : pc'[t] = pc[t] /\ \E A, W : Kept(t, A, W),
           Claiming(s)' => Claiming(s), pc'[s] # "recorded", CallOK(s)',
           UNCHANGED <<request, saved, answers, journal, idem, transfers, reversals>>
    PROVE  TransferInv'
<1>1. /\ request' = [request EXCEPT ![s] = request[s]] /\ request[s] \in Requests
      /\ saved' \subseteq Beneficiaries /\ AnswersOK'
  BY AnswersStay DEF TransferInv, TransferTypes
<1>2. ASSUME NEW t \in Sessions \ {s} PROVE Apart(s, t)'
  <2>1. Apart(s, t)
    BY DEF TransferInv
  <2>2. /\ IndexOf(s)' = IndexOf(s) /\ IndexOf(t)' = IndexOf(t) /\ Claiming(t)' = Claiming(t)
        /\ request'[s] = request[s] /\ request'[t] = request[t]
    BY DEF IndexOf, CallOf, Claiming
  <2> QED BY <2>1, <2>2 DEF Apart
<1> QED BY <1>1, <1>2, CallMoveInv

\* Nobody moves; a client may be answered, a beneficiary removed, rows go stale.
LEMMA NobodyMovesInv ==
    ASSUME TransferInv, IndInv', \A t \in Sessions : \E A, W : Kept(t, A, W),
           saved' \subseteq Beneficiaries, AnswersOK',
           UNCHANGED <<pc, request, journal, idem, transfers, reversals>>
    PROVE  TransferInv'
<1>1. ASSUME NEW t \in Sessions PROVE CallOK(t)'
  <2>1. PICK A, W : Kept(t, A, W)
    BY <1>1
  <2>2. request[t].id # Absent => request[t].id \notin DoneIds'
    BY DEF TransferInv, CallOK, DoneIds
  <2>3. pc[t] = "recorded" /\ Reverses(t) => ~ReversalExists(t)'
    BY DEF TransferInv, CallOK, ReversalExists, CallOf
  <2> QED BY <2>1, <2>2, <2>3, CallKeeps
<1>2. ASSUME NEW t \in Sessions, NEW u \in Sessions, t # u PROVE Apart(t, u)'
  <2>1. Apart(t, u)
    BY <1>2 DEF TransferInv
  <2> QED BY <2>1 DEF Apart, Claiming, IndexOf, CallOf, Reverses
<1>3. request' \in [Sessions -> Requests]
  BY DEF TransferInv, TransferTypes
<1> QED BY <1>1, <1>2, <1>3, BooksKeep

-----------------------------------------------------------------------------
(* Answers *)

\* An answer is final if it is the outcome that the key has after the step, and
\* only an undecided key, about which nobody has been told anything, changes.
LEMMA AnswerIsFinal ==
    ASSUME TransferInv, NEW c \in Calls, NEW given \in SUBSET (Results \ {NoRecord.result}),
           Answer(c, given),
           \A k \in Indexes : \/ idem'[k].result = idem[k].result
                              \/ k = Index(c) /\ idem[k].result = NoRecord.result,
           \A g \in given : g = idem'[Index(c)].result
    PROVE  AnswersOK'
<1>1. answers \in [Indexes -> SUBSET (Results \ {NoRecord.result})] /\ AnswersAreFinal
  BY DEF TransferInv, AnswersOK
<1>2. Index(c) \in Indexes
  BY DEF Indexes
<1>3. answers' \in [Indexes -> SUBSET (Results \ {NoRecord.result})]
  BY <1>1, <1>2 DEF Answer
<1>4. \A k \in Indexes : answers'[k] \subseteq answers[k] \cup (IF k = Index(c) THEN given ELSE {})
  BY <1>1, <1>2 DEF Answer
<1>5. ASSUME NEW k \in Indexes, NEW g \in answers[k] PROVE g = idem'[k].result
  <2>1. g = idem[k].result /\ g # NoRecord.result
    BY <1>1 DEF AnswersAreFinal
  <2> QED BY <2>1
<1>6. AnswersAreFinal'
  BY <1>4, <1>5 DEF AnswersAreFinal
<1> QED BY <1>3, <1>6 DEF AnswersOK

\* resolveExistingIdempotency answers with the stored outcome.
LEMMA ResolvedIsFinal ==
    ASSUME TransferInv, NEW c \in Calls, Answer(c, Resolved(c, idem[Index(c)])), UNCHANGED idem
    PROVE  AnswersOK'
<1>1. Index(c) \in Indexes
  BY DEF Indexes
<1>2. RecordOK(Index(c)) /\ idem \in [Indexes -> IdemRecords]
  BY <1>1 DEF TransferInv, TransferTypes
<1>3. Resolved(c, idem[Index(c)]) \subseteq {idem[Index(c)].result}
  BY DEF Resolved
<1>4. idem[Index(c)].status # "NONE" => idem[Index(c)].result \in Results \ {NoRecord.result}
  <2>1. idem[Index(c)].result \in Results
    BY <1>1, <1>2 DEF IdemRecords
  <2>2. idem[Index(c)].status # "NONE" => idem[Index(c)].result # NoRecord.result
    BY <1>2, ResultsDiffer DEF RecordOK
  <2> QED BY <2>1, <2>2
<1>5. Resolved(c, idem[Index(c)]) \in SUBSET (Results \ {NoRecord.result})
  BY <1>4 DEF Resolved
<1>6. \A k \in Indexes : idem'[k].result = idem[k].result
  OBVIOUS
<1>7. \A g \in Resolved(c, idem[Index(c)]) : g = idem'[Index(c)].result
  BY <1>3
<1> QED BY <1>5, <1>6, <1>7, AnswerIsFinal

\* A repeated call is answered from the record of its key.
LEMMA ReplayCallInv ==
    ASSUME TransferInv, NEW s \in Sessions, NEW c \in Calls, ReplayCall(s, c)
    PROVE  TransferInv'
<1>1. /\ Answer(c, Resolved(c, idem[Index(c)])) /\ UNCHANGED vars
      /\ UNCHANGED <<idem, transfers, reversals, saved, request>>
  BY DEF ReplayCall, records
<1>2. AnswersOK'
  BY <1>1, ResolvedIsFinal
<1>3. UNCHANGED <<pc, tx, journal>> /\ IndInv'
  BY <1>1, LedgerStutter DEF vars, TransferInv
<1>4. \A t \in Sessions : Kept(t, {}, {})
  BY <1>3 DEF Kept
<1>5. \A t \in Sessions : \E A, W : Kept(t, A, W)
  BY <1>4
<1>6. saved' \subseteq Beneficiaries
  BY <1>1 DEF TransferInv, TransferTypes
<1> QED BY <1>1, <1>2, <1>3, <1>5, <1>6, NobodyMovesInv

\* remove: the soft delete of a beneficiary.
LEMMA RemoveBeneficiaryInv ==
    ASSUME TransferInv, NEW b \in Beneficiaries, RemoveBeneficiary(b)
    PROVE  TransferInv'
<1>1. /\ UNCHANGED vars /\ UNCHANGED <<idem, transfers, reversals, request, answers>>
      /\ saved' = saved \ {b}
  BY DEF RemoveBeneficiary, records, clientVars
<1>2. UNCHANGED <<pc, tx, journal>> /\ IndInv'
  BY <1>1, LedgerStutter DEF vars, TransferInv
<1>3. \A t \in Sessions : Kept(t, {}, {})
  BY <1>2 DEF Kept
<1>4. \A t \in Sessions : \E A, W : Kept(t, A, W)
  BY <1>3
<1>5. saved' \subseteq Beneficiaries
  BY <1>1 DEF TransferInv, TransferTypes
<1> QED BY <1>1, <1>2, <1>4, <1>5, AnswersStay, NobodyMovesInv

\* A step of nobody changes nothing.
LEMMA TransferStutterInv ==
    ASSUME TransferInv, UNCHANGED transferVars
    PROVE  TransferInv'
<1>1. UNCHANGED vars /\ UNCHANGED <<idem, transfers, reversals, request, answers, saved>>
  BY DEF transferVars, records, clientVars
<1>2. UNCHANGED <<pc, tx, journal>> /\ IndInv'
  BY <1>1, LedgerStutter DEF vars, TransferInv
<1>3. \A t \in Sessions : Kept(t, {}, {})
  BY <1>2 DEF Kept
<1>4. \A t \in Sessions : \E A, W : Kept(t, A, W)
  BY <1>3
<1>5. saved' \subseteq Beneficiaries
  BY <1>1 DEF TransferInv, TransferTypes
<1> QED BY <1>1, <1>2, <1>4, <1>5, AnswersStay, NobodyMovesInv

-----------------------------------------------------------------------------
(* The ledger's own steps *)

\* A call of WalletsService, or none, knows nothing of transfers.
LEMMA QuietCall ==
    ASSUME TransferInv, NEW s \in Sessions, UNCHANGED <<transfers, reversals>>,
           request'[s] \in {request[s], NoRequest},
           pc'[s] \in {"idle", "closeAccount", "closeWallet", "closeDecide"}
    PROVE  CallOK(s)' /\ ~Claiming(s)'
<1>1. ~Claiming(s)'
  BY DEF Claiming
<1>2. pc'[s] \notin Booking /\ pc'[s] \in TransferLabels
  BY DEF Booking, TransferLabels, Labels
<1>3. request'[s].id # Absent => request'[s].id \notin DoneIds'
  BY NoRequestType DEF TransferInv, CallOK, DoneIds
<1> QED BY <1>1, <1>2, <1>3 DEF CallOK

\* The statements of the ledger, on behalf of a call.
LEMMA PostStepInv ==
    ASSUME TransferInv, NEW s \in Sessions, PostStep(s),
           UNCHANGED <<idem, records, saved, clientVars>>
    PROVE  TransferInv'
<1>1. /\ IndInv' /\ UNCHANGED tables
      /\ pc[s] \in {"lock", "insert", "update"}
      /\ pc'[s] \in {"lock", "rejected", "broken", "insert", "update", "posted"}
      /\ \A t \in Sessions \ {s} : pc'[t] = pc[t] /\ tx'[t] = tx[t]
      /\ tx'[s].entry = tx[s].entry
  BY PostStepFrame DEF TransferInv
<1>2. UNCHANGED <<request, saved, answers, journal, idem, transfers, reversals>>
  BY <1>1 DEF records, clientVars, tables
<1>3. \A t \in Sessions \ {s} : Kept(t, {}, {})
  BY <1>1 DEF Kept
<1>4. \A t \in Sessions \ {s} : pc'[t] = pc[t] /\ \E A, W : Kept(t, A, W)
  BY <1>1, <1>3
<1>5. Claiming(s) /\ Claiming(s)' /\ pc[s] \in Booking /\ pc'[s] \in TransferLabels
  BY <1>1 DEF Claiming, Booking, TransferLabels, Labels
<1>6. CallOf(s)' = CallOf(s) /\ IndexOf(s)' = IndexOf(s) /\ DoneIds' = DoneIds
  BY <1>2 DEF CallOf, IndexOf, DoneIds
<1>7. CallOK(s)'
  <2>1. CallOK(s)
    BY DEF TransferInv
  <2> QED BY <1>1, <1>2, <1>5, <1>6, <2>1 DEF CallOK
<1> QED BY <1>1, <1>2, <1>4, <1>5, <1>7, CallStepInv

\* Wallets are closed, frozen and unfrozen beside the transfers.
LEMMA LedgerStepInv ==
    ASSUME TransferInv, LedgerStep
    PROVE  TransferInv'
<1>1. IndInv /\ UNCHANGED <<idem, records, saved, clientVars>>
  BY DEF TransferInv, LedgerStep
<1>2. UNCHANGED <<request, saved, answers, idem, transfers, reversals>>
  BY <1>1 DEF records, clientVars
<1>3. ASSUME NEW s \in Sessions, CloseStep(s) \/ \E w \in Wallets : FindToClose(s, w)
      PROVE  TransferInv'
  <2>1. /\ IndInv' /\ journal' = journal
        /\ pc'[s] \in {"idle", "closeAccount", "closeWallet", "closeDecide"}
        /\ \A t \in Sessions \ {s} : pc'[t] = pc[t] /\ \E A, W : Kept(t, A, W)
    BY <1>1, <1>3, CloseFrame
  <2>2. CallOK(s)' /\ ~Claiming(s)'
    BY <1>2, <2>1, QuietCall
  <2> QED BY <1>2, <2>1, <2>2, CallStepInv
<1>4. ASSUME NEW w \in Wallets, SetFrozen(w) PROVE TransferInv'
  <2>1. IndInv' /\ UNCHANGED <<journal, pc>> /\ \A t \in Sessions : Kept(t, {}, {w})
    BY <1>1, <1>4, FreezeFrame
  <2>2. \A t \in Sessions : \E A, W : Kept(t, A, W)
    BY <2>1
  <2>3. saved' \subseteq Beneficiaries /\ AnswersOK'
    BY <1>2, AnswersStay DEF TransferInv, TransferTypes
  <2> QED BY <1>2, <2>1, <2>2, <2>3, NobodyMovesInv
<1> QED BY <1>1, <1>3, <1>4, PostStepInv DEF LedgerStep

-----------------------------------------------------------------------------
(* The statements before the ledger is called *)

\* A session that moves leaves the others where they were.
LEMMA MoveFrame ==
    ASSUME IndInv, NEW s \in Sessions, NEW to, NEW r, Goto(s, to), tx' = [tx EXCEPT ![s] = r]
    PROVE  /\ pc'[s] = to /\ tx'[s] = r
           /\ \A t \in Sessions \ {s} : pc'[t] = pc[t] /\ \E A, W : Kept(t, A, W)
<1>1. tx \in [Sessions -> Transactions] /\ DOMAIN pc = Sessions
  BY DEF IndInv, StoreOK
<1>2. /\ pc'[s] = to /\ tx'[s] = r
      /\ \A t \in Sessions \ {s} : pc'[t] = pc[t] /\ tx'[t] = tx[t]
  BY <1>1 DEF Goto
<1>3. \A t \in Sessions \ {s} : Kept(t, {}, {})
  BY <1>2 DEF Kept
<1> QED BY <1>2, <1>3

\* A new call has a snapshot of everything and has locked nothing.
LEMMA BeginCallInv ==
    ASSUME TransferInv, NEW s \in Sessions, NEW c \in Calls, BeginCall(s, c)
    PROVE  TransferInv'
<1>1. /\ IndInv /\ Goto(s, "claim") /\ WellFormed(c)
      /\ UNCHANGED <<tables, idem, transfers, reversals, saved, answers>>
  BY DEF TransferInv, BeginCall, records
<1> DEFINE x == [NoTx EXCEPT !.isolation = "Serializable", !.snap = Snapshot]
           r == [NoRequest EXCEPT !.call = {c}, !.transfers = transfers,
                                  !.reversals = reversals, !.saved = saved]
<1>2. tx' = [tx EXCEPT ![s] = x] /\ request' = [request EXCEPT ![s] = r]
  BY DEF BeginCall
<1>3. Snapshot \in Snapshots
  BY <1>1 DEF IndInv, StoreOK, Snapshot, Snapshots
<1>4. /\ x \in Transactions /\ x.isolation = "Serializable" /\ x.snap = Snapshot
      /\ x.accounts = {} /\ x.wallets = {} /\ x.written = {}
  BY <1>3, NoTxType DEF NoTx, Transactions
<1>5. /\ r \in Requests /\ r.call = {c} /\ r.id = Absent
  BY NoRequestType DEF NoRequest, Requests, TransferInv, TransferTypes
<1> HIDE DEF x, r
<1>6. IndInv'
  BY <1>1, <1>2, <1>4, SessionMoveInv
<1>7. /\ pc'[s] = "claim" /\ tx'[s] = x
      /\ \A t \in Sessions \ {s} : pc'[t] = pc[t] /\ \E A, W : Kept(t, A, W)
  BY <1>1, <1>2, MoveFrame
<1>8. request'[s] = r
  BY <1>2 DEF TransferInv, TransferTypes
<1>9. ~Claiming(s)' /\ pc'[s] \notin Booking /\ pc'[s] \in TransferLabels
  BY <1>7 DEF Claiming, Booking, TransferLabels
<1>10. CallOK(s)'
  BY <1>1, <1>4, <1>5, <1>7, <1>8, <1>9 DEF CallOK, Serializable
<1>11. ASSUME NEW t \in Sessions \ {s} PROVE Apart(s, t)'
  BY <1>5, <1>7, <1>8, <1>9 DEF Apart
<1>12. saved' \subseteq Beneficiaries /\ AnswersOK' /\ journal' = journal
  BY <1>1, AnswersStay DEF TransferInv, TransferTypes, tables
<1> QED BY <1>1, <1>2, <1>5, <1>6, <1>7, <1>10, <1>11, <1>12, CallMoveInv

\* Before the ledger is called a call moves with nothing locked.
LEMMA EarlyMove ==
    ASSUME TransferInv, NEW s \in Sessions, pc[s] \in {"claim", "lockTransfer", "lookup"},
           NEW to \in {"lockTransfer", "lookup", "rejected"}, Goto(s, to), UNCHANGED <<tables, tx>>
    PROVE  /\ IndInv' /\ pc'[s] = to
           /\ Serializable(s)' /\ tx'[s].accounts = {} /\ tx'[s].wallets = {} /\ tx'[s].written = {}
           /\ \A t \in Sessions \ {s} : pc'[t] = pc[t] /\ \E A, W : Kept(t, A, W)
<1>1. IndInv /\ tx \in [Sessions -> Transactions]
  BY DEF TransferInv, IndInv, StoreOK
<1>2. /\ Serializable(s) /\ tx[s].accounts = {} /\ tx[s].wallets = {} /\ tx[s].written = {}
  BY DEF TransferInv, CallOK
<1>3. tx' = [tx EXCEPT ![s] = tx[s]] /\ tx[s] \in Transactions /\ tx[s].isolation = "Serializable"
  BY <1>1, <1>2 DEF Serializable
<1>4. IndInv'
  BY <1>1, <1>2, <1>3, SessionMoveInv
<1> QED BY <1>1, <1>2, <1>3, <1>4, MoveFrame DEF Serializable

\* The claim: nobody else has an uncommitted record of the key.
LEMMA ClaimInv ==
    ASSUME TransferInv, NEW s \in Sessions, Claim(s)
    PROVE  TransferInv'
<1>1. PICK to \in {"lockTransfer", "lookup"} :
         /\ Goto(s, to) /\ pc[s] = "claim" /\ idem[IndexOf(s)] = NoRecord
         /\ \A t \in Sessions \ {s} : Claiming(t) => IndexOf(t) # IndexOf(s)
         /\ UNCHANGED <<tables, tx>>
  BY DEF Claim
<1>2. UNCHANGED <<journal, idem, transfers, reversals, saved, request, answers>>
  BY DEF Claim, records, clientVars, tables
<1>3. /\ IndInv' /\ pc'[s] = to
      /\ Serializable(s)' /\ tx'[s].accounts = {} /\ tx'[s].wallets = {} /\ tx'[s].written = {}
      /\ \A t \in Sessions \ {s} : pc'[t] = pc[t] /\ \E A, W : Kept(t, A, W)
  BY <1>1, EarlyMove
<1>4. \A t \in Sessions : CallOf(t)' = CallOf(t) /\ IndexOf(t)' = IndexOf(t)
  BY <1>2 DEF CallOf, IndexOf
<1>5. DoneIds' = DoneIds /\ Claiming(s)' /\ pc'[s] \notin Booking /\ pc'[s] \in TransferLabels
  BY <1>2, <1>3 DEF DoneIds, Claiming, Booking, TransferLabels
<1>6. CallOK(s)'
  <2>1. CallOK(s)
    BY DEF TransferInv
  <2>2. \E c \in Calls : request[s].call = {c} /\ WellFormed(c)
    BY <1>1, <2>1 DEF CallOK
  <2>3. request[s].id # Absent => request[s].id \notin DoneIds
    BY <2>1 DEF CallOK
  <2> QED BY <1>1, <1>2, <1>3, <1>4, <1>5, <2>2, <2>3 DEF CallOK
<1>7. ASSUME NEW t \in Sessions \ {s} PROVE Apart(s, t)'
  <2>1. Apart(s, t) /\ (Claiming(t) => IndexOf(t) # IndexOf(s)) /\ Claiming(t)' = Claiming(t)
    BY <1>1, <1>3 DEF TransferInv, Claiming
  <2> QED BY <1>2, <1>3, <1>4, <2>1 DEF Apart
<1>8. /\ request' = [request EXCEPT ![s] = request[s]] /\ request[s] \in Requests
      /\ saved' \subseteq Beneficiaries /\ AnswersOK'
  BY <1>2, AnswersStay DEF TransferInv, TransferTypes
<1> QED BY <1>2, <1>3, <1>6, <1>7, <1>8, CallMoveInv

\* The lock of the transfer, and the checks of the service that refuse the call.
LEMMA LookupMoveInv ==
    ASSUME TransferInv, NEW s \in Sessions, pc[s] \in {"lockTransfer", "lookup"},
           NEW to \in {"lookup", "rejected"}, Goto(s, to), UNCHANGED <<tables, tx, request>>,
           UNCHANGED <<idem, transfers, reversals, saved, answers>>
    PROVE  TransferInv'
<1>1. /\ IndInv' /\ pc'[s] = to
      /\ Serializable(s)' /\ tx'[s].accounts = {} /\ tx'[s].wallets = {} /\ tx'[s].written = {}
      /\ \A t \in Sessions \ {s} : pc'[t] = pc[t] /\ \E A, W : Kept(t, A, W)
  BY EarlyMove
<1>2. CallOf(s)' = CallOf(s) /\ IndexOf(s)' = IndexOf(s) /\ DoneIds' = DoneIds /\ journal' = journal
  BY DEF CallOf, IndexOf, DoneIds, tables
<1>3. Claiming(s) /\ Claiming(s)' /\ pc'[s] \notin Booking /\ pc'[s] \in TransferLabels
  BY <1>1 DEF Claiming, Booking, TransferLabels, Labels
<1>4. CallOK(s)'
  <2>1. CallOK(s)
    BY DEF TransferInv
  <2>2. /\ \E c \in Calls : request[s].call = {c} /\ WellFormed(c)
        /\ idem[IndexOf(s)] = NoRecord
        /\ request[s].id # Absent => request[s].id \notin DoneIds
    BY <1>3, <2>1 DEF CallOK
  <2> QED BY <1>1, <1>2, <1>3, <2>2 DEF CallOK
<1> QED BY <1>1, <1>2, <1>3, <1>4, CallStepInv

\* A movement that passes the checks is between two wallets.
LEMMA MovementType ==
    ASSUME TransferInv, NEW s \in Sessions, pc[s] = "lookup", NEW m \in Movements(s)
    PROVE  m.from \in Wallets /\ m.to \in Wallets /\ m.amount \in Int
<1>1. PICK c \in Calls : WellFormed(c) /\ CallOf(s) = c
  BY HasCall DEF Claiming
<1>2. request[s] \in Requests
  BY DEF TransferInv, TransferTypes
<1>3. CASE c.scope = ReversalScope
  <2>1. m \in ReversalMovement(s)
    BY <1>1, <1>3 DEF Movements
  <2>2. PICK t \in request[s].transfers :
           m = [from |-> t.destination, to |-> t.source, amount |-> t.amount]
    BY <2>1 DEF ReversalMovement
  <2>3. t \in TransferRows
    BY <1>2, <2>2 DEF Requests
  <2>4. t.destination \in Wallets /\ t.source \in Wallets /\ t.amount \in Int
    BY <2>3 DEF TransferRows
  <2> QED BY <2>2, <2>4
<1>4. CASE c.scope # ReversalScope
  <2>1. m \in TransferMovement(s) /\ c.scope = TransferScope
    BY <1>1, <1>4, CallsAssumption DEF Movements
  <2>2. PICK w \in Destination(s) : m = [from |-> c.source, to |-> w, amount |-> c.amount]
    BY <1>1, <2>1 DEF TransferMovement
  <2>3. c.source \in Wallets /\ c.destination \in Wallets \cup {Absent} /\ c.amount \in Int
    BY <2>1, CallsAssumption
  <2>4. w \in Wallets
    <3>1. CASE c.beneficiary # Absent
      <4>1. PICK b \in request[s].saved : w = BeneficiaryWallet[b]
        BY <1>1, <2>2, <3>1 DEF Destination
      <4>2. b \in Beneficiaries
        BY <1>2, <4>1 DEF Requests
      <4> QED BY <4>1, <4>2, CallsAssumption
    <3>2. CASE c.beneficiary = Absent
      <4>1. w = c.destination
        BY <1>1, <2>2, <3>2 DEF Destination
      <4>2. c.destination # Absent
        BY <1>1, <2>1, <3>2 DEF WellFormed
      <4> QED BY <2>3, <4>1, <4>2
    <3> QED BY <3>1, <3>2
  <2> QED BY <2>2, <2>3, <2>4
<1> QED BY <1>3, <1>4

\* The entry of a movement is an entry of the ledger, under a reference of its own.
LEMMA EntryForType ==
    ASSUME NEW scope \in {TransferScope, ReversalScope}, NEW id \in Ids, NEW m,
           m.from \in Wallets, m.to \in Wallets, m.amount \in Int
    PROVE  EntryFor(scope, m, id) \in Entries /\ EntryFor(scope, m, id).reference = <<scope, id>>
<1>1. <<scope, id>> \in References
  BY CallsAssumption
<1>2. CurrencyOf[m.from] \in Currencies
  BY AccountsAssumption, ColumnsAssumption
<1>3. -m.amount \in Int
  OBVIOUS
<1>4. [a \in Accounts |-> IF a = m.from THEN -m.amount
                          ELSE IF a = m.to THEN m.amount ELSE 0] \in [Accounts -> Int]
  BY <1>3
<1> QED BY <1>1, <1>2, <1>4 DEF EntryFor, Entries

\* The reads before the ledger is called; the id is nobody else's.
LEMMA LookupInv ==
    ASSUME TransferInv, NEW s \in Sessions, Lookup(s)
    PROVE  TransferInv'
<1>1. /\ pc[s] = "lookup" /\ IndInv
      /\ UNCHANGED <<tables, idem, transfers, reversals, saved, answers>>
  BY DEF TransferInv, Lookup, records
<1>2. CASE Goto(s, "rejected") /\ UNCHANGED <<tx, request>>
  BY <1>1, <1>2, LookupMoveInv
<1>3. CASE ~(Goto(s, "rejected") /\ UNCHANGED <<tx, request>>)
  <2>1. PICK m \in Movements(s), id \in Ids :
           /\ FreshId(id)
           /\ tx' = [tx EXCEPT ![s].entry = EntryFor(CallOf(s).scope, m, id)]
           /\ request' = [request EXCEPT ![s].id = id, ![s].to = m.to]
           /\ Goto(s, "lock")
    BY <1>3 DEF Lookup
  <2>2. PICK c \in Calls : WellFormed(c) /\ CallOf(s) = c /\ request[s].call = {c}
    BY <1>1, HasCall DEF Claiming
  <2>3. m.from \in Wallets /\ m.to \in Wallets /\ m.amount \in Int
    BY <1>1, MovementType
  <2>4. PICK e \in Entries : e = EntryFor(CallOf(s).scope, m, id) /\ e.reference = <<c.scope, id>>
    BY <2>2, <2>3, EntryForType, CallsAssumption
  <2>5. tx \in [Sessions -> Transactions] /\ request \in [Sessions -> Requests]
    BY DEF TransferInv, IndInv, StoreOK, TransferTypes
  <2> DEFINE x == [tx[s] EXCEPT !.entry = e]
             r == [request[s] EXCEPT !.id = id, !.to = m.to]
  <2>6. tx' = [tx EXCEPT ![s] = x] /\ request' = [request EXCEPT ![s] = r]
    BY <2>1, <2>4, <2>5
  <2>7. /\ x \in Transactions /\ x.isolation = tx[s].isolation /\ x.snap = tx[s].snap
        /\ x.accounts = tx[s].accounts /\ x.wallets = tx[s].wallets /\ x.written = tx[s].written
        /\ x.staleAccounts = tx[s].staleAccounts /\ x.staleWallets = tx[s].staleWallets
        /\ x.entry = e
    BY <2>5 DEF Transactions
  <2>8. r \in Requests /\ r.id = id /\ r.to = m.to /\ r.call = {c}
    BY <2>2, <2>3, <2>5 DEF Requests
  <2> HIDE DEF x, r
  <2>9. /\ Serializable(s) /\ tx[s].accounts = {} /\ tx[s].wallets = {} /\ tx[s].written = {}
        /\ idem[IndexOf(s)] = NoRecord
    BY <1>1 DEF TransferInv, CallOK, Claiming
  <2>10. IndInv'
    <3>1. /\ x.isolation = "Serializable" /\ x.accounts = {} /\ x.wallets = {} /\ x.written = {}
          /\ Serializable(s) /\ x.snap = tx[s].snap
          /\ x.staleAccounts = tx[s].staleAccounts /\ x.staleWallets = tx[s].staleWallets
      BY <2>7, <2>9 DEF Serializable
    <3> QED BY <1>1, <2>1, <2>6, <2>7, <3>1, SessionMoveInv
  <2>11. /\ pc'[s] = "lock" /\ tx'[s] = x
         /\ \A t \in Sessions \ {s} : pc'[t] = pc[t] /\ \E A, W : Kept(t, A, W)
    BY <1>1, <2>1, <2>6, MoveFrame
  <2>12. request'[s] = r /\ \A t \in Sessions \ {s} : request'[t] = request[t]
    BY <2>5, <2>6
  <2>13. /\ CallOf(s)' = c /\ IndexOf(s)' = IndexOf(s)
         /\ \A t \in Sessions \ {s} : CallOf(t)' = CallOf(t) /\ IndexOf(t)' = IndexOf(t)
    BY <2>2, <2>8, <2>12 DEF CallOf, IndexOf
  <2>14. /\ Claiming(s) /\ Claiming(s)' /\ pc'[s] \in TransferLabels
    BY <1>1, <2>11 DEF Claiming, TransferLabels, Labels
  <2>15. id \notin DoneIds /\ DoneIds' = DoneIds /\ \A t \in Sessions : request[t].id # id
    BY <1>1, <2>1 DEF FreshId, UsedIds, DoneIds
  <2>16. CallOK(s)'
    BY <1>1, <2>2, <2>3, <2>4, <2>7, <2>8, <2>9, <2>11, <2>12, <2>13, <2>14, <2>15 DEF CallOK
  <2>17. ASSUME NEW t \in Sessions \ {s} PROVE Apart(s, t)'
    <3>1. Apart(s, t) /\ Claiming(t)' = Claiming(t)
      BY <2>11 DEF TransferInv, Claiming
    <3> QED BY <2>8, <2>11, <2>12, <2>13, <2>14, <2>15, <3>1 DEF Apart
  <2>18. saved' \subseteq Beneficiaries /\ AnswersOK' /\ journal' = journal
    BY <1>1, AnswersStay DEF TransferInv, TransferTypes, tables
  <2> QED BY <1>1, <2>6, <2>8, <2>10, <2>11, <2>16, <2>17, <2>18, CallMoveInv
<1> QED BY <1>2, <1>3

-----------------------------------------------------------------------------
(* The result, and the ends of a call *)

\* The rows of the result: the unique index keeps two reversals of one transfer apart.
LEMMA RecordResultInv ==
    ASSUME TransferInv, NEW s \in Sessions, RecordResult(s)
    PROVE  TransferInv'
<1>1. /\ pc[s] = "posted" /\ Goto(s, "recorded") /\ IndInv /\ UNCHANGED <<tables, tx>>
      /\ Reverses(s) => ~ReversalHeld(s) /\ ~ReversalExists(s)
  BY DEF TransferInv, RecordResult, Reverses
<1>2. UNCHANGED <<journal, idem, transfers, reversals, saved, request, answers>>
  BY DEF RecordResult, records, clientVars, tables
<1>3. tx' = [tx EXCEPT ![s] = tx[s]] /\ tx'[s] = tx[s]
  BY <1>1 DEF IndInv, StoreOK
<1>4. IndInv'
  BY <1>1, LeaveLedgerInv
<1>5. /\ pc'[s] = "recorded"
      /\ \A t \in Sessions \ {s} : pc'[t] = pc[t] /\ \E A, W : Kept(t, A, W)
  BY <1>1, <1>3, MoveFrame
<1>6. \A t \in Sessions : /\ CallOf(t)' = CallOf(t) /\ IndexOf(t)' = IndexOf(t)
                          /\ Reverses(t)' = Reverses(t) /\ ReversalExists(t)' = ReversalExists(t)
  BY <1>2 DEF CallOf, IndexOf, Reverses, ReversalExists
<1>7. DoneIds' = DoneIds /\ Claiming(s) /\ Claiming(s)' /\ pc[s] \in Booking /\ pc'[s] \in TransferLabels
  BY <1>1, <1>2, <1>5 DEF DoneIds, Claiming, Booking, TransferLabels
<1>8. Sealed(s)'
  <2>1. Ready(s)
    BY <1>1, PostedIsReady
  <2>2. Sealed(s)
    BY <2>1 DEF Ready, Sealed
  <2> QED BY <1>1, <2>2 DEF Sealed, Serializable, PostedBy, Acceptable, NextBalance
<1>9. CallOK(s)'
  <2>1. CallOK(s)
    BY DEF TransferInv
  <2>2. /\ \E c \in Calls : request[s].call = {c} /\ WellFormed(c)
        /\ idem[IndexOf(s)] = NoRecord
        /\ request[s].id \in Ids /\ request[s].to \in Wallets
        /\ tx[s].entry.reference = <<CallOf(s).scope, request[s].id>>
        /\ request[s].id # Absent => request[s].id \notin DoneIds
    BY <1>7, <2>1 DEF CallOK
  <2> QED BY <1>1, <1>2, <1>3, <1>5, <1>6, <1>7, <1>8, <2>2 DEF CallOK
<1>10. ASSUME NEW t \in Sessions \ {s} PROVE Apart(s, t)'
  <2>1. Apart(s, t) /\ Claiming(t)' = Claiming(t) /\ pc'[t] = pc[t]
    BY <1>5 DEF TransferInv, Claiming
  <2>2. Reverses(s) /\ Reverses(t) /\ pc[t] = "recorded" => CallOf(s).transfer # CallOf(t).transfer
    BY <1>1 DEF ReversalHeld, Reverses
  <2> QED BY <1>2, <1>6, <1>7, <2>1, <2>2 DEF Apart
<1>11. /\ request' = [request EXCEPT ![s] = request[s]] /\ request[s] \in Requests
       /\ saved' \subseteq Beneficiaries /\ AnswersOK'
  BY <1>2, AnswersStay DEF TransferInv, TransferTypes
<1> QED BY <1>2, <1>4, <1>5, <1>9, <1>10, <1>11, CallMoveInv

\* The end of a transaction that publishes nothing.
LEMMA OutsideMove ==
    ASSUME IndInv, NEW s \in Sessions, NEW to \in {"idle", "replay", "beneficiary"}, Goto(s, to),
           Rollback(s) \/ (UNCHANGED tx /\ tx[s] = NoTx), UNCHANGED tables
    PROVE  /\ IndInv' /\ pc'[s] = to /\ tx'[s] = NoTx
           /\ \A t \in Sessions \ {s} : pc'[t] = pc[t] /\ \E A, W : Kept(t, A, W)
<1>1. tx \in [Sessions -> Transactions]
  BY DEF IndInv, StoreOK
<1>2. tx' = [tx EXCEPT ![s] = NoTx]
  BY <1>1 DEF Rollback
<1>3. NoTx.accounts = {} /\ NoTx.wallets = {} /\ NoTx.isolation # "Serializable"
  BY DEF NoTx
<1>4. IndInv'
  BY <1>2, <1>3, NoTxType, SessionMoveInv
<1> QED BY <1>2, <1>4, MoveFrame

\* A request is over: the answer has been given, or is lost.
LEMMA EndInv ==
    ASSUME TransferInv, NEW s \in Sessions, Goto(s, "idle"), EndRequest(s),
           Rollback(s) \/ (UNCHANGED tx /\ tx[s] = NoTx), UNCHANGED tables,
           saved' \subseteq Beneficiaries, AnswersOK', UNCHANGED <<idem, transfers, reversals>>
    PROVE  TransferInv'
<1>1. /\ IndInv' /\ pc'[s] = "idle"
      /\ \A t \in Sessions \ {s} : pc'[t] = pc[t] /\ \E A, W : Kept(t, A, W)
  BY OutsideMove DEF TransferInv
<1>2. request' = [request EXCEPT ![s] = NoRequest] /\ request'[s] = NoRequest /\ journal' = journal
  BY DEF EndRequest, tables, TransferInv, TransferTypes
<1>3. CallOK(s)' /\ ~Claiming(s)'
  BY <1>1, <1>2, QuietCall
<1>4. ASSUME NEW t \in Sessions \ {s} PROVE Apart(s, t)'
  BY <1>1, <1>2, <1>3, NoRequestType DEF Apart
<1> QED BY <1>1, <1>2, <1>3, <1>4, NoRequestType, CallMoveInv

\* 40001, P2002 or P2034: the claim is rolled back and the race is replayed.
LEMMA FailCallInv ==
    ASSUME TransferInv, NEW s \in Sessions, FailCall(s) \/ AbortCall(s)
    PROVE  TransferInv'
<1>1. /\ IndInv /\ Rollback(s) /\ Goto(s, "replay") /\ UNCHANGED tables
      /\ UNCHANGED <<journal, idem, transfers, reversals, saved, request, answers>>
  BY DEF TransferInv, FailCall, AbortCall, records, clientVars, tables
<1>2. Claiming(s) \/ pc[s] = "claim"
  <2>1. CASE AbortCall(s)
    <3>1. Serializable(s)
      BY <2>1 DEF AbortCall
    <3>2. /\ pc[s] \in TransferLabels /\ WalletCallConsistent(s) /\ (pc[s] = "idle" => tx[s] = NoTx)
          /\ pc[s] \in {"replay", "beneficiary"} => tx[s] = NoTx
      BY <1>1 DEF TransferInv, CallOK, IndInv
    <3>3. tx[s] # NoTx /\ tx[s].isolation # "ReadCommitted"
      BY <3>1 DEF Serializable, NoTx
    <3>4. pc[s] \notin {"idle", "replay", "beneficiary", "create", "closeAccount", "closeWallet", "closeDecide"}
      BY <3>2, <3>3 DEF WalletCallConsistent
    <3> QED BY <3>2, <3>4 DEF TransferLabels, Labels, Claiming
  <2>2. CASE FailCall(s)
    BY <2>2 DEF FailCall, SerializationConflict, DuplicateClaim, DuplicateReversal, Claiming
  <2> QED BY <2>1, <2>2
<1>3. /\ IndInv' /\ pc'[s] = "replay" /\ tx'[s] = NoTx
      /\ \A t \in Sessions \ {s} : pc'[t] = pc[t] /\ \E A, W : Kept(t, A, W)
  BY <1>1, OutsideMove
<1>4. ~Claiming(s)' /\ pc'[s] \notin Booking /\ pc'[s] \in TransferLabels /\ DoneIds' = DoneIds
  BY <1>1, <1>3 DEF Claiming, Booking, TransferLabels, DoneIds
<1>5. CallOK(s)'
  <2>1. CallOK(s)
    BY DEF TransferInv
  <2>2. /\ \E c \in Calls : request[s].call = {c} /\ WellFormed(c)
        /\ request[s].id # Absent => request[s].id \notin DoneIds
    BY <1>2, <2>1 DEF CallOK
  <2> QED BY <1>1, <1>3, <1>4, <2>2 DEF CallOK
<1> QED BY <1>1, <1>3, <1>4, <1>5, CallStepInv

\* After the race: the record, if it is there by now, answers.
LEMMA ReplayAfterRaceInv ==
    ASSUME TransferInv, NEW s \in Sessions, ReplayAfterRace(s)
    PROVE  TransferInv'
<1>1. PICK c \in Calls : CallOf(s) = c /\ IndexOf(s) = Index(c)
  BY HasCall DEF ReplayAfterRace
<1>2. /\ Answer(c, Resolved(c, idem[Index(c)])) /\ EndRequest(s) /\ Goto(s, "idle")
      /\ UNCHANGED <<tables, tx, idem, transfers, reversals, saved>>
  BY <1>1 DEF ReplayAfterRace, records
<1>3. tx[s] = NoTx
  BY DEF ReplayAfterRace, TransferInv, CallOK
<1>4. AnswersOK' /\ saved' \subseteq Beneficiaries
  BY <1>2, ResolvedIsFinal DEF TransferInv, TransferTypes
<1> QED BY <1>2, <1>3, <1>4, EndInv

\* A timeout, a lost connection or a crash leaves nothing behind.
LEMMA LoseCallInv ==
    ASSUME TransferInv, NEW s \in Sessions, LoseCall(s)
    PROVE  TransferInv'
<1>1. /\ Rollback(s) /\ EndRequest(s) /\ Goto(s, "idle") /\ UNCHANGED tables
      /\ UNCHANGED <<idem, transfers, reversals, saved, answers>>
  BY DEF LoseCall, records
<1>2. AnswersOK' /\ saved' \subseteq Beneficiaries
  BY <1>1, AnswersStay DEF TransferInv, TransferTypes
<1> QED BY <1>1, <1>2, EndInv

\* BeneficiariesService.create: the read of the wallet and the insert.
LEMMA BeneficiaryInv ==
    ASSUME TransferInv, NEW s \in Sessions,
           SaveBeneficiary(s) \/ \E b \in Beneficiaries : FindBeneficiaryWallet(s, b)
    PROVE  TransferInv'
<1>1. CASE SaveBeneficiary(s)
  <2>1. /\ EndRequest(s) /\ Goto(s, "idle") /\ pc[s] = "beneficiary"
        /\ UNCHANGED <<tables, tx, idem, transfers, reversals, answers>>
        /\ saved' = saved \cup {request[s].beneficiary}
    BY <1>1 DEF SaveBeneficiary, records
  <2>2. tx[s] = NoTx /\ request[s].beneficiary \in Beneficiaries
    BY <2>1 DEF TransferInv, CallOK
  <2>3. AnswersOK' /\ saved' \subseteq Beneficiaries
    BY <2>1, <2>2, AnswersStay DEF TransferInv, TransferTypes
  <2> QED BY <2>1, <2>2, <2>3, EndInv
<1>2. CASE \E b \in Beneficiaries : FindBeneficiaryWallet(s, b)
  <2>1. PICK b \in Beneficiaries : FindBeneficiaryWallet(s, b)
    BY <1>2
  <2>2. /\ pc[s] = "idle" /\ Goto(s, "beneficiary") /\ request' = [request EXCEPT ![s].beneficiary = b]
        /\ UNCHANGED <<tables, tx, idem, transfers, reversals, saved, answers>>
    BY <2>1 DEF FindBeneficiaryWallet, records
  <2> DEFINE r == [request[s] EXCEPT !.beneficiary = b]
  <2>3. /\ r \in Requests /\ r.beneficiary = b /\ r.id = request[s].id
        /\ request' = [request EXCEPT ![s] = r] /\ request'[s] = r
        /\ \A t \in Sessions \ {s} : request'[t] = request[t]
    BY <2>2 DEF TransferInv, TransferTypes, Requests
  <2> HIDE DEF r
  <2>4. IndInv /\ tx[s] = NoTx
    BY <2>2 DEF TransferInv, IndInv
  <2>5. /\ IndInv' /\ pc'[s] = "beneficiary" /\ tx'[s] = NoTx
        /\ \A t \in Sessions \ {s} : pc'[t] = pc[t] /\ \E A, W : Kept(t, A, W)
    BY <2>2, <2>4, OutsideMove
  <2>6. ~Claiming(s)' /\ pc'[s] \notin Booking /\ pc'[s] \in TransferLabels /\ DoneIds' = DoneIds
    BY <2>2, <2>5 DEF Claiming, Booking, TransferLabels, DoneIds
  <2>7. request[s].id # Absent => request[s].id \notin DoneIds
    BY DEF TransferInv, CallOK
  <2>8. CallOK(s)'
    BY <2>3, <2>5, <2>6, <2>7 DEF CallOK
  <2>9. ASSUME NEW t \in Sessions \ {s} PROVE Apart(s, t)'
    <3>1. Apart(s, t)
      BY DEF TransferInv
    <3> QED BY <2>3, <2>5, <2>6, <3>1 DEF Apart
  <2>10. AnswersOK' /\ saved' \subseteq Beneficiaries /\ journal' = journal
    BY <2>2, AnswersStay DEF TransferInv, TransferTypes, tables
  <2> QED BY <2>2, <2>3, <2>5, <2>8, <2>9, <2>10, CallMoveInv
<1> QED BY <1>1, <1>2

-----------------------------------------------------------------------------
(* The commits that decide a key *)

\* A session that decides its key c with outcome st and result, and ends.
Decides(s, c, st, result) ==
    /\ idem' = [idem EXCEPT ![Index(c)] = Record(c, st, result)]
    /\ Answer(c, {result})
    /\ EndRequest(s)
    /\ pc'[s] = "idle"
    /\ \A t \in Sessions \ {s} : pc'[t] = pc[t] /\ \E A, W : Kept(t, A, W)
    /\ UNCHANGED saved

\* The claim holds the key of a call open until the call decides it.
LEMMA OpenKey ==
    ASSUME TransferInv, NEW s \in Sessions, Claiming(s)
    PROVE  \E c \in Calls : /\ CallOf(s) = c /\ IndexOf(s) = Index(c) /\ Index(c) \in Indexes
                            /\ idem[Index(c)] = NoRecord
                            /\ \A t \in Sessions \ {s} : Claiming(t) => IndexOf(t) # Index(c)
<1>1. PICK c \in Calls : CallOf(s) = c /\ IndexOf(s) = Index(c) /\ Index(c) \in Indexes
  BY HasCall
<1>2. idem[Index(c)] = NoRecord
  BY <1>1 DEF TransferInv, CallOK
<1>3. \A t \in Sessions \ {s} : Claiming(t) => IndexOf(t) # Index(c)
  BY <1>1 DEF TransferInv, Apart
<1> QED BY <1>1, <1>2, <1>3

\* What every decision leaves in order: the key, the answers, and the calls of
\* others, as long as they are not to do what has been done.
LEMMA DecidesKeeps ==
    ASSUME TransferInv, NEW s \in Sessions, NEW c \in Calls, NEW st \in {"COMPLETED", "FAILED"},
           NEW result \in Results \ {NoRecord.result}, Decides(s, c, st, result),
           idem[Index(c)] = NoRecord,
           \A t \in Sessions \ {s} : Claiming(t) => IndexOf(t) # Index(c),
           \A t \in Sessions \ {s} :
              /\ request[t].id # Absent => request[t].id \notin DoneIds'
              /\ pc[t] = "recorded" /\ Reverses(t) => ~ReversalExists(t)'
    PROVE  /\ idem' \in [Indexes -> IdemRecords] /\ request' \in [Sessions -> Requests]
           /\ idem'[Index(c)].status = st /\ idem'[Index(c)].result = result
           /\ \A k \in Indexes \ {Index(c)} : idem'[k] = idem[k]
           /\ saved' \subseteq Beneficiaries
           /\ AnswersOK'
           /\ \A t \in Sessions : CallOK(t)'
           /\ \A t, u \in Sessions : t # u => Apart(t, u)'
<1>1. /\ idem \in [Indexes -> IdemRecords] /\ request \in [Sessions -> Requests]
      /\ saved' \subseteq Beneficiaries
  BY DEF TransferInv, TransferTypes, Decides
<1>2. Index(c) \in Indexes
  BY DEF Indexes
<1>3. PICK rec \in IdemRecords : rec = Record(c, st, result) /\ rec.status = st /\ rec.result = result
  <2>1. result \in Results /\ Hash(c) \in {Hash(d) : d \in Calls}
    OBVIOUS
  <2>2. Record(c, st, result) \in IdemRecords
    BY <2>1 DEF Record, IdemRecords
  <2>3. Record(c, st, result).status = st /\ Record(c, st, result).result = result
    BY DEF Record
  <2> QED BY <2>2, <2>3
<1>4. idem' = [idem EXCEPT ![Index(c)] = rec] /\ request' = [request EXCEPT ![s] = NoRequest]
  BY <1>3 DEF Decides, EndRequest
<1>5. /\ idem' \in [Indexes -> IdemRecords] /\ request' \in [Sessions -> Requests]
      /\ idem'[Index(c)] = rec /\ \A k \in Indexes \ {Index(c)} : idem'[k] = idem[k]
      /\ request'[s] = NoRequest /\ \A t \in Sessions \ {s} : request'[t] = request[t]
  BY <1>1, <1>2, <1>4, NoRequestType
<1>6. AnswersOK'
  <2>1. Answer(c, {result}) /\ {result} \in SUBSET (Results \ {NoRecord.result})
    BY DEF Decides
  <2>2. \A k \in Indexes : \/ idem'[k].result = idem[k].result
                           \/ k = Index(c) /\ idem[k].result = NoRecord.result
    BY <1>5
  <2>3. \A g \in {result} : g = idem'[Index(c)].result
    BY <1>3, <1>5
  <2> QED BY <2>1, <2>2, <2>3, AnswerIsFinal
<1>7. ASSUME NEW t \in Sessions PROVE CallOK(t)'
  <2>1. CASE t = s
    <3>1. pc'[s] = "idle"
      BY DEF Decides
    <3>2. ~Claiming(s)' /\ pc'[s] \notin Booking /\ pc'[s] \in TransferLabels
      BY <3>1 DEF Claiming, Booking, TransferLabels, Labels
    <3> QED BY <1>5, <2>1, <3>1, <3>2, NoRequestType DEF CallOK
  <2>2. CASE t # s
    <3>1. PICK A, W : Kept(t, A, W)
      BY <2>2 DEF Decides
    <3>2. pc'[t] = pc[t] /\ request'[t] = request[t]
      BY <1>5, <2>2 DEF Decides
    <3>3. Claiming(t) => idem'[IndexOf(t)] = idem[IndexOf(t)]
      <4> SUFFICES ASSUME Claiming(t) PROVE idem'[IndexOf(t)] = idem[IndexOf(t)]
        OBVIOUS
      <4>1. IndexOf(t) \in Indexes
        BY HasCall
      <4> QED BY <1>5, <2>2, <4>1
    <3> QED BY <2>2, <3>1, <3>2, <3>3, CallKeeps
  <2> QED BY <2>1, <2>2
<1>8. \A t, u \in Sessions : t # u => Apart(t, u)'
  <2>1. pc'[s] = "idle" /\ ~Claiming(s)' /\ \A t \in Sessions \ {s} : pc'[t] = pc[t]
    BY DEF Decides, Claiming
  <2>2. ASSUME NEW t \in Sessions \ {s} PROVE Apart(s, t)'
    BY <1>5, <2>1, NoRequestType DEF Apart
  <2> QED BY <1>4, <2>1, <2>2, NoRequestType, ApartMove
<1> QED BY <1>1, <1>3, <1>5, <1>6, <1>7, <1>8

\* persistFailure: the key is decided and nothing is moved.
LEMMA PersistFailureInv ==
    ASSUME TransferInv, NEW s \in Sessions, PersistFailure(s)
    PROVE  TransferInv'
<1>1. /\ pc[s] = "rejected" /\ Commit(s, {}, {}) /\ Goto(s, "idle") /\ UNCHANGED tables
      /\ UNCHANGED <<transfers, reversals, saved>> /\ EndRequest(s) /\ IndInv
  BY DEF PersistFailure, records, TransferInv
<1>2. PICK c \in Calls : /\ CallOf(s) = c /\ Index(c) \in Indexes
                         /\ idem[Index(c)] = NoRecord
                         /\ \A t \in Sessions \ {s} : Claiming(t) => IndexOf(t) # Index(c)
  BY <1>1, OpenKey DEF Claiming
<1>3. /\ IndInv' /\ pc'[s] = "idle"
      /\ \A t \in Sessions \ {s} : pc'[t] = pc[t] /\ \E A, W : Kept(t, A, W)
  BY <1>1, CommitNothing, OutsideMove
<1>4. Decides(s, c, "FAILED", <<"failure">>)
  BY <1>1, <1>2, <1>3 DEF PersistFailure, Decides
<1>5. <<"failure">> \in Results \ {NoRecord.result}
  BY ResultsDiffer DEF Results
<1>6. DoneIds' = DoneIds /\ journal' = journal
  BY <1>1 DEF DoneIds, tables
<1>7. \A t \in Sessions \ {s} :
         /\ request[t].id # Absent => request[t].id \notin DoneIds'
         /\ pc[t] = "recorded" /\ Reverses(t) => ~ReversalExists(t)'
  <2> SUFFICES ASSUME NEW t \in Sessions \ {s}
               PROVE  /\ request[t].id # Absent => request[t].id \notin DoneIds'
                      /\ pc[t] = "recorded" /\ Reverses(t) => ~ReversalExists(t)'
    OBVIOUS
  <2>1. CallOK(t) /\ request'[t] = request[t]
    BY <1>1 DEF TransferInv, TransferTypes, EndRequest
  <2>2. ReversalExists(t)' = ReversalExists(t)
    BY <1>1, <2>1 DEF ReversalExists, CallOf
  <2> QED BY <1>6, <2>1, <2>2 DEF CallOK
<1>8. /\ idem' \in [Indexes -> IdemRecords] /\ request' \in [Sessions -> Requests]
      /\ idem'[Index(c)].status = "FAILED" /\ idem'[Index(c)].result = <<"failure">>
      /\ \A k \in Indexes \ {Index(c)} : idem'[k] = idem[k]
      /\ saved' \subseteq Beneficiaries /\ AnswersOK'
      /\ \A t \in Sessions : CallOK(t)'
      /\ \A t, u \in Sessions : t # u => Apart(t, u)'
  BY <1>2, <1>4, <1>5, <1>7, DecidesKeeps
<1>9. TransferTypes'
  BY <1>1, <1>8 DEF TransferInv, TransferTypes
<1>10. ASSUME NEW k \in Indexes PROVE RecordOK(k)'
  <2>1. RecordOK(k)
    BY DEF TransferInv
  <2> QED BY <1>6, <1>8, <2>1 DEF RecordOK
<1>11. \A k \in Indexes : \A id : idem'[k].result = <<"done", id>> <=> idem[k].result = <<"done", id>>
  BY <1>2, <1>8, ResultsDiffer
<1>12. MovementsOK'
  BY <1>6, <1>11 DEF TransferInv, MovementsOK
<1> QED BY <1>3, <1>8, <1>9, <1>10, <1>12 DEF TransferInv

\* The scopes of the services are no references of the migration.
LEMMA ScopesDiffer ==
    ASSUME NEW scope \in {TransferScope, ReversalScope}, NEW id, NEW e \in OpeningJournal
    PROVE  e.reference # <<scope, id>>
<1>1. PICK w \in Migrated : e.reference = <<"migration:opening", w>>
  BY DEF OpeningJournal, OpeningEntry
<1>2. scope # "migration:opening"
  BY DEF TransferScope, ReversalScope
<1> QED BY <1>1, <1>2

\* A call that has recorded its result may publish its entry: the id, which is
\* nobody else's and has not been used, makes the reference its own.
LEMMA RecordedIsReady ==
    ASSUME TransferInv, NEW s \in Sessions, pc[s] = "recorded"
    PROVE  Ready(s)
<1>1. CallOK(s) /\ Sealed(s)
  BY DEF TransferInv, CallOK
<1>2. PICK id \in Ids : /\ id = request[s].id /\ id # Absent /\ id \notin DoneIds
                        /\ tx[s].entry.reference = <<CallOf(s).scope, id>>
  BY <1>1, CallsAssumption DEF CallOK, Booking
<1>3. CallOf(s).scope \in {TransferScope, ReversalScope}
  BY HasCall, CallsAssumption DEF Claiming
<1>4. ReferenceHolders(s) = {}
  <2> SUFFICES ASSUME NEW t \in Sessions \ {s}, Inserted(t),
                      tx[t].entry.reference = tx[s].entry.reference
               PROVE  FALSE
    BY DEF ReferenceHolders
  <2>1. pc[t] \in Booking
    BY DEF Inserted, Booking
  <2>2. tx[t].entry.reference = <<CallOf(t).scope, request[t].id>>
    BY <2>1 DEF TransferInv, CallOK
  <2>3. request[t].id # id
    BY <1>2 DEF TransferInv, Apart
  <2>4. <<CallOf(t).scope, request[t].id>>[2] = <<CallOf(s).scope, id>>[2]
    BY <1>2, <2>2
  <2> QED BY <2>3, <2>4
<1>5. ~ReferenceUsed(s)
  <2> SUFFICES ASSUME NEW e \in journal, e.reference = tx[s].entry.reference PROVE FALSE
    BY DEF ReferenceUsed
  <2>1. e \notin OpeningJournal
    BY <1>2, <1>3, ScopesDiffer
  <2>2. e.reference[2] \in DoneIds
    BY <2>1 DEF TransferInv, MovementsOK
  <2>3. e.reference[2] = id
    BY <1>2
  <2> QED BY <1>2, <2>2, <2>3
<1> QED BY <1>1, <1>4, <1>5 DEF Ready, Sealed

\* What the commit of a call writes: one row, whose id becomes one of DoneIds,
\* and one entry under that id.
LEMMA CommitCallFacts ==
    ASSUME TransferInv, NEW s \in Sessions, CommitCall(s)
    PROVE  \E c \in Calls, id \in Ids :
              /\ CallOf(s) = c /\ Index(c) \in Indexes /\ request[s].id = id
              /\ idem[Index(c)] = NoRecord
              /\ \A t \in Sessions \ {s} : Claiming(t) => IndexOf(t) # Index(c)
              /\ id # Absent /\ id \notin DoneIds
              /\ tx[s].entry.reference = <<c.scope, id>>
              /\ c.scope \in {TransferScope, ReversalScope}
              /\ transfers' \subseteq TransferRows /\ reversals' \subseteq ReversalRows
              /\ DoneIds' = DoneIds \cup {id}
              /\ reversals' = reversals
                 \/ (c.scope = ReversalScope /\ reversals' = reversals \cup {ReversalRow(s)})
              /\ Decides(s, c, "COMPLETED", <<"done", id>>)
<1>1. /\ pc[s] = "recorded" /\ PublishEntry(s) /\ Goto(s, "idle")
      /\ Claiming(s) /\ CallOK(s) /\ pc[s] \in Booking /\ IndInv
  BY DEF CommitCall, Claiming, TransferInv, Booking
<1>2. PICK c \in Calls : /\ CallOf(s) = c /\ Index(c) \in Indexes
                         /\ idem[Index(c)] = NoRecord
                         /\ \A t \in Sessions \ {s} : Claiming(t) => IndexOf(t) # Index(c)
  BY <1>1, OpenKey
<1>3. PICK id \in Ids : /\ id = request[s].id /\ id # Absent /\ id \notin DoneIds
                        /\ tx[s].entry.reference = <<c.scope, id>> /\ request[s].to \in Wallets
  BY <1>1, <1>2, CallsAssumption DEF CallOK
<1>4. c.scope \in {TransferScope, ReversalScope} /\ c.user \in Users
  BY CallsAssumption
<1>5. transfers \subseteq TransferRows /\ reversals \subseteq ReversalRows
  BY DEF TransferInv, TransferTypes
<1>6. /\ idem' = [idem EXCEPT ![Index(c)] = Record(c, "COMPLETED", <<"done", id>>)]
      /\ Answer(c, {<<"done", id>>}) /\ EndRequest(s) /\ UNCHANGED saved
  BY <1>2, <1>3 DEF CommitCall
<1>7. /\ pc'[s] = "idle"
      /\ \A t \in Sessions \ {s} : pc'[t] = pc[t] /\ \E A, W : Kept(t, A, W)
  <2>1. Commit(s, PostedBy(s), PostedBy(s) \cap Wallets)
    BY <1>1 DEF PublishEntry
  <2>2. /\ PostedBy(s) \in SUBSET Accounts /\ PostedBy(s) \cap Wallets \in SUBSET Wallets
        /\ tx \in [Sessions -> Transactions] /\ DOMAIN pc = Sessions
    BY <1>1 DEF PostedBy, Posted, IndInv, StoreOK
  <2>3. \A t \in Sessions \ {s} : Kept(t, PostedBy(s), PostedBy(s) \cap Wallets)
    BY <2>1, <2>2, CommitKeeps
  <2> QED BY <1>1, <2>2, <2>3 DEF Goto
<1>8. Decides(s, c, "COMPLETED", <<"done", id>>)
  BY <1>6, <1>7 DEF Decides
<1>9. CASE c.scope = ReversalScope
  <2>1. /\ ValidReversal(ReversalRow(s), tx[s].entry)
        /\ reversals' = reversals \cup {ReversalRow(s)} /\ transfers' = transfers
    BY <1>2, <1>9 DEF CommitCall
  <2>2. ReversalRow(s) = [id |-> id, transfer |-> c.transfer, actor |-> c.user]
    BY <1>2, <1>3 DEF ReversalRow
  <2>3. c.transfer \in Ids
    <3>1. PICK t \in transfers : t.id = c.transfer
      BY <2>1, <2>2 DEF ValidReversal
    <3> QED BY <1>5, <3>1 DEF TransferRows
  <2>4. ReversalRow(s) \in ReversalRows /\ ReversalRow(s).id = id
    BY <1>4, <2>2, <2>3 DEF ReversalRows
  <2>5. DoneIds' = DoneIds \cup {id}
    <3>1. {r.id : r \in reversals'} = {r.id : r \in reversals} \cup {id}
      BY <2>1, <2>4
    <3> QED BY <2>1, <3>1 DEF DoneIds
  <2> QED BY <1>2, <1>3, <1>4, <1>5, <1>8, <1>9, <2>1, <2>4, <2>5
<1>10. CASE c.scope # ReversalScope
  <2>1. c.source \in Wallets /\ c.amount \in Int
    BY <1>4, <1>10, CallsAssumption
  <2>2. transfers' = transfers \cup {TransferRow(s)} /\ reversals' = reversals
    BY <1>2, <1>10 DEF CommitCall
  <2>3. TransferRow(s) = [id |-> id, sender |-> c.user, source |-> c.source,
                          destination |-> request[s].to, amount |-> c.amount]
    BY <1>2, <1>3 DEF TransferRow
  <2>4. TransferRow(s) \in TransferRows /\ TransferRow(s).id = id
    BY <1>3, <1>4, <2>1, <2>3 DEF TransferRows
  <2>5. DoneIds' = DoneIds \cup {id}
    <3>1. {t.id : t \in transfers'} = {t.id : t \in transfers} \cup {id}
      BY <2>2, <2>4
    <3> QED BY <2>2, <3>1 DEF DoneIds
  <2> QED BY <1>2, <1>3, <1>4, <1>5, <1>8, <2>2, <2>4, <2>5
<1> QED BY <1>9, <1>10

\* The commit of a transfer or of a reversal.
LEMMA CommitCallInv ==
    ASSUME TransferInv, NEW s \in Sessions, CommitCall(s)
    PROVE  TransferInv'
<1>1. PICK c \in Calls, id \in Ids :
         /\ CallOf(s) = c /\ Index(c) \in Indexes /\ request[s].id = id
         /\ idem[Index(c)] = NoRecord
         /\ \A t \in Sessions \ {s} : Claiming(t) => IndexOf(t) # Index(c)
         /\ id # Absent /\ id \notin DoneIds
         /\ tx[s].entry.reference = <<c.scope, id>>
         /\ c.scope \in {TransferScope, ReversalScope}
         /\ transfers' \subseteq TransferRows /\ reversals' \subseteq ReversalRows
         /\ DoneIds' = DoneIds \cup {id}
         /\ reversals' = reversals
            \/ (c.scope = ReversalScope /\ reversals' = reversals \cup {ReversalRow(s)})
         /\ Decides(s, c, "COMPLETED", <<"done", id>>)
  BY CommitCallFacts
<1>2. pc[s] = "recorded" /\ PublishEntry(s) /\ Goto(s, "idle") /\ EndRequest(s)
  BY DEF CommitCall
<1>3. IndInv'
  BY <1>2, RecordedIsReady, PublishInv DEF TransferInv
<1>4. <<"done", id>> \in Results \ {NoRecord.result}
  BY ResultsDiffer DEF Results
<1>5. ASSUME NEW t \in Sessions \ {s}
      PROVE  /\ request[t].id # Absent => request[t].id \notin DoneIds'
             /\ pc[t] = "recorded" /\ Reverses(t) => ~ReversalExists(t)'
  <2>1. CallOK(t) /\ Apart(s, t) /\ request'[t] = request[t] /\ CallOf(t)' = CallOf(t)
    BY <1>2 DEF TransferInv, TransferTypes, EndRequest, CallOf
  <2>2. request[t].id # Absent => request[t].id \notin DoneIds'
    BY <1>1, <2>1 DEF CallOK, Apart
  <2>3. ASSUME pc[t] = "recorded", Reverses(t) PROVE ~ReversalExists(t)'
    <3>1. ~ReversalExists(t)
      BY <2>1, <2>3 DEF CallOK
    <3>2. c.scope = ReversalScope => ReversalRow(s).transfer # CallOf(t).transfer
      BY <1>1, <1>2, <2>1, <2>3 DEF Apart, Reverses, ReversalRow
    <3> QED BY <1>1, <2>1, <3>1, <3>2 DEF ReversalExists
  <2> QED BY <2>2, <2>3
<1>6. /\ idem' \in [Indexes -> IdemRecords] /\ request' \in [Sessions -> Requests]
      /\ idem'[Index(c)].status = "COMPLETED" /\ idem'[Index(c)].result = <<"done", id>>
      /\ \A k \in Indexes \ {Index(c)} : idem'[k] = idem[k]
      /\ saved' \subseteq Beneficiaries /\ AnswersOK'
      /\ \A t \in Sessions : CallOK(t)'
      /\ \A t, u \in Sessions : t # u => Apart(t, u)'
  BY <1>1, <1>4, <1>5, DecidesKeeps
<1>7. TransferTypes'
  BY <1>1, <1>6 DEF TransferTypes
<1>8. ASSUME NEW k \in Indexes PROVE RecordOK(k)'
  <2>1. RecordOK(k)
    BY DEF TransferInv
  <2> QED BY <1>1, <1>6, <2>1 DEF RecordOK
<1>9. \A k \in Indexes \ {Index(c)} : idem'[k].result # <<"done", id>>
  <2> SUFFICES ASSUME NEW k \in Indexes \ {Index(c)}, idem[k].result = <<"done", id>> PROVE FALSE
    BY <1>6
  <2>1. RecordOK(k)
    BY DEF TransferInv
  <2> QED BY <1>1, <2>1, ResultsDiffer DEF RecordOK
<1>10. \A i \in DoneIds : idem'[Index(c)].result # <<"done", i>> /\ idem[Index(c)].result # <<"done", i>>
  BY <1>1, <1>6, ResultsDiffer
<1>11. MovementsOK'
  <2>1. {e.reference[2] : e \in journal' \ OpeningJournal} = DoneIds'
    <3>1. journal' = journal \cup {tx[s].entry}
      BY <1>2 DEF PublishEntry
    <3>2. tx[s].entry \notin OpeningJournal /\ tx[s].entry.reference[2] = id
      BY <1>1, ScopesDiffer
    <3>3. {e.reference[2] : e \in journal' \ OpeningJournal}
            = {e.reference[2] : e \in journal \ OpeningJournal} \cup {id}
      BY <3>1, <3>2
    <3> QED BY <1>1, <3>3 DEF TransferInv, MovementsOK
  <2>2. ASSUME NEW i \in DoneIds' PROVE \E k \in Indexes : idem'[k].result = <<"done", i>>
    <3>1. CASE i = id
      BY <1>1, <1>6, <3>1
    <3>2. CASE i # id
      <4>1. i \in DoneIds
        BY <1>1, <3>2
      <4>2. PICK k \in Indexes : idem[k].result = <<"done", i>>
        BY <4>1 DEF TransferInv, MovementsOK
      <4>3. k # Index(c)
        BY <1>10, <4>1, <4>2
      <4> QED BY <1>6, <4>2, <4>3
    <3> QED BY <3>1, <3>2
  <2>3. \A j, k \in Indexes : \A i \in DoneIds' :
           idem'[j].result = <<"done", i>> /\ idem'[k].result = <<"done", i>> => j = k
    <3> SUFFICES ASSUME NEW j \in Indexes, NEW k \in Indexes, NEW i \in DoneIds',
                        idem'[j].result = <<"done", i>>, idem'[k].result = <<"done", i>>
                 PROVE  j = k
      OBVIOUS
    <3>1. CASE i = id
      BY <1>9, <3>1
    <3>2. CASE i # id
      <4>1. i \in DoneIds
        BY <1>1, <3>2
      <4>2. j # Index(c) /\ k # Index(c)
        BY <1>10, <4>1
      <4>3. idem[j].result = <<"done", i>> /\ idem[k].result = <<"done", i>>
        BY <1>6, <4>2
      <4> QED BY <4>1, <4>3 DEF TransferInv, MovementsOK
    <3> QED BY <3>1, <3>2
  <2> QED BY <2>1, <2>2, <2>3 DEF MovementsOK
<1> QED BY <1>3, <1>6, <1>7, <1>8, <1>11 DEF TransferInv

-----------------------------------------------------------------------------
(* The theorems *)

\* Before any call there are keys without records, no rows and no answers.
LEMMA TransferInitInv == TransferInit => TransferInv
<1> SUFFICES ASSUME TransferInit PROVE TransferInv
  OBVIOUS
<1>1. /\ Init /\ idem = [k \in Indexes |-> NoRecord] /\ transfers = {} /\ reversals = {}
      /\ saved = {} /\ request = [s \in Sessions |-> NoRequest] /\ answers = [k \in Indexes |-> {}]
      /\ pc = [s \in Sessions |-> "idle"] /\ journal = OpeningJournal
  BY DEF TransferInit, Init
<1>2. IndInv
  BY <1>1, InitInv
<1>3. TransferTypes
  BY <1>1, NoRequestType DEF TransferTypes
<1>4. ASSUME NEW s \in Sessions PROVE CallOK(s)
  <2>1. pc[s] = "idle" /\ request[s] = NoRequest
    BY <1>1
  <2>2. ~Claiming(s) /\ pc[s] \notin Booking /\ pc[s] \in TransferLabels
    BY <2>1 DEF Claiming, Booking, TransferLabels, Labels
  <2> QED BY <2>1, <2>2, NoRequestType DEF CallOK
<1>5. ASSUME NEW s \in Sessions, NEW t \in Sessions PROVE Apart(s, t)
  <2>1. pc[s] = "idle" /\ request[s] = NoRequest
    BY <1>1
  <2>2. ~Claiming(s)
    BY <2>1 DEF Claiming
  <2> QED BY <2>1, <2>2, NoRequestType DEF Apart
<1>6. DoneIds = {}
  BY <1>1 DEF DoneIds
<1>7. \A k \in Indexes : RecordOK(k)
  BY <1>1 DEF RecordOK
<1>8. MovementsOK
  BY <1>1, <1>6 DEF MovementsOK
<1>9. AnswersOK
  BY <1>1 DEF AnswersOK, AnswersAreFinal
<1> QED BY <1>2, <1>3, <1>4, <1>5, <1>7, <1>8, <1>9 DEF TransferInv

\* Every step of the services, of the ledger and of a wallet's owner.
LEMMA TransferStepInv == TransferInv /\ [TransferNext]_transferVars => TransferInv'
<1> SUFFICES ASSUME TransferInv, [TransferNext]_transferVars PROVE TransferInv'
  OBVIOUS
<1>1. ASSUME NEW s \in Sessions, NewCall(s) PROVE TransferInv'
  BY <1>1, ReplayCallInv, BeginCallInv, BeneficiaryInv DEF NewCall
<1>2. ASSUME NEW s \in Sessions, ServiceStep(s) PROVE TransferInv'
  <2>1. CASE LockTransfer(s)
    BY <2>1, LookupMoveInv DEF LockTransfer, records, clientVars
  <2> QED BY <1>2, <2>1, ClaimInv, LookupInv, RecordResultInv, CommitCallInv, PersistFailureInv,
             FailCallInv, ReplayAfterRaceInv, BeneficiaryInv DEF ServiceStep
<1>3. ASSUME NEW s \in Sessions, AbortCall(s) \/ LoseCall(s) PROVE TransferInv'
  BY <1>3, FailCallInv, LoseCallInv
<1>4. ASSUME LedgerStep PROVE TransferInv'
  BY <1>4, LedgerStepInv
<1>5. ASSUME NEW b \in Beneficiaries, RemoveBeneficiary(b) PROVE TransferInv'
  BY <1>5, RemoveBeneficiaryInv
<1>6. CASE UNCHANGED transferVars
  BY <1>6, TransferStutterInv
<1> QED BY <1>1, <1>2, <1>3, <1>4, <1>5, <1>6 DEF TransferNext

\* The invariant of the ledger, of the calls and of keys, rows and journal holds
\* in every state of the transfer, reversal and beneficiary services.
THEOREM TransferInductive == TransferSpec => []TransferInv
BY TransferInitInv, TransferStepInv, PTL DEF TransferSpec

\* Tables, requests and answers have their types, and the status of an
\* idempotency record goes with its result (IdempotencyRecord_terminal_check).
THEOREM TransferTypeCorrect == TransferSpec => []TransferTypeOK
<1>1. ASSUME TransferInv PROVE TransferTypeOK
  <2>1. /\ idem \in [Indexes -> IdemRecords] /\ request \in [Sessions -> Requests]
        /\ answers \in [Indexes -> SUBSET (Results \ {NoRecord.result})]
        /\ transfers \subseteq TransferRows /\ reversals \subseteq ReversalRows
        /\ saved \subseteq Beneficiaries
    BY <1>1 DEF TransferInv, TransferTypes, AnswersOK
  <2>2. ASSUME NEW k \in Indexes
        PROVE  /\ idem[k].result \in Results
               /\ idem[k].status = CASE idem[k].result = <<"none">>    -> "NONE"
                                     [] idem[k].result = <<"failure">> -> "FAILED"
                                     [] OTHER                          -> "COMPLETED"
               /\ answers[k] \subseteq Results
    <3>1. RecordOK(k)
      BY <1>1 DEF TransferInv
    <3>2. idem[k].result \in Results /\ answers[k] \subseteq Results
      BY <2>1 DEF IdemRecords
    <3>3. /\ idem[k].result = <<"none">> => idem[k].status = "NONE"
          /\ idem[k].result = <<"failure">> => idem[k].status = "FAILED"
          /\ idem[k].result \notin {<<"none">>, <<"failure">>} => idem[k].status = "COMPLETED"
      BY <3>1, ResultsDiffer DEF RecordOK
    <3> QED BY <3>2, <3>3, ResultsDiffer
  <2>3. ASSUME NEW s \in Sessions
        PROVE  /\ request[s] \in Requests
               /\ pc[s] \in Labels \cup {"claim", "lockTransfer", "lookup", "recorded",
                                        "replay", "beneficiary"}
    BY <1>1, <2>1 DEF TransferInv, CallOK, TransferLabels
  <2> QED BY <2>1, <2>2, <2>3 DEF TransferTypeOK
<1>2. TransferInv => TransferTypeOK
  BY <1>1
<1> QED BY <1>2, TransferInductive, PTL

\* Whatever a client was ever told under a key is what is stored for good: by
\* the first call, by a repeated one or by replayAfterIdempotencyRace.
THEOREM AnswersStayFinal == TransferSpec => []AnswersAreFinal
<1>1. TransferInv => AnswersAreFinal
  BY DEF TransferInv, AnswersOK
<1> QED BY <1>1, TransferInductive, PTL

\* Every entry of the journal is that of one transfer or reversal, and each of
\* those belongs to exactly one completed key: no retry moves money twice.
THEOREM MovementsAreAccounted == TransferSpec => []EveryMovementAccounted
<1>1. ASSUME TransferInv PROVE EveryMovementAccounted
  <2>1. MovementsOK
    BY <1>1 DEF TransferInv
  <2>2. ASSUME NEW id \in DoneIds
        PROVE  \E k \in Indexes :
                 /\ idem[k].result = <<"done", id>>
                 /\ \A j \in Indexes \ {k} : idem[j].result # <<"done", id>>
    <3>1. PICK k \in Indexes : idem[k].result = <<"done", id>>
      BY <2>1, <2>2 DEF MovementsOK
    <3>2. \A j \in Indexes \ {k} : idem[j].result # <<"done", id>>
      BY <2>1, <3>1 DEF MovementsOK
    <3> QED BY <3>1, <3>2
  <2>3. {e.reference[2] : e \in journal \ OpeningJournal} = DoneIds
    BY <2>1 DEF MovementsOK
  <2> QED BY <2>2, <2>3 DEF EveryMovementAccounted, DoneIds
<1>2. TransferInv => EveryMovementAccounted
  BY <1>1
<1> QED BY <1>2, TransferInductive, PTL

-----------------------------------------------------------------------------
(* No deadlock *)

\* The calls hold rows of wallets only under the rows of their accounts, and
\* rows of accounts only once they post.
LEMMA CallLocks ==
    ASSUME TransferInv
    PROVE  /\ WalletsUnderAccounts
           /\ \A t \in Sessions : pc[t] \in {"claim", "lockTransfer", "lookup"} => tx[t].accounts = {}
<1>1. ASSUME NEW t \in Sessions
      PROVE  /\ tx[t].wallets \subseteq tx[t].accounts
             /\ pc[t] \in {"claim", "lockTransfer", "lookup"} => tx[t].accounts = {}
  <2>1. /\ CallOK(t) /\ PostConsistent(t) /\ WalletCallConsistent(t) /\ (pc[t] = "idle" => tx[t] = NoTx)
    BY DEF TransferInv, IndInv
  <2>2. pc[t] \in {"idle", "replay", "beneficiary"} => tx[t].wallets = {}
    BY <2>1 DEF CallOK, NoTx
  <2>3. pc[t] \in {"claim", "lockTransfer", "lookup"} => tx[t].accounts = {} /\ tx[t].wallets = {}
    BY <2>1 DEF CallOK
  <2>4. pc[t] \in {"closeAccount", "closeWallet", "closeDecide"} => tx[t].wallets \subseteq tx[t].accounts
    BY <2>1 DEF WalletCallConsistent
  <2>5. pc[t] \in {"lock", "rejected", "broken", "insert", "update", "posted"} =>
           tx[t].wallets \subseteq tx[t].accounts
    BY <2>1 DEF PostConsistent, Inserted
  <2>6. pc[t] = "recorded" => tx[t].wallets \subseteq tx[t].accounts
    BY <2>1 DEF CallOK, Sealed
  <2>7. pc[t] \in TransferLabels
    BY <2>1 DEF CallOK
  <2> QED BY <2>2, <2>3, <2>4, <2>5, <2>6, <2>7 DEF TransferLabels, Labels
<1> QED BY <1>1 DEF WalletsUnderAccounts

\* Calls and closes never wait for each other in a circle, however many there
\* are: the key is claimed first, then the transfer locked, the rows of the
\* ledger follow in their order, and the unique reversal comes last.
THEOREM CallsNeverDeadlock ==
    ASSUME IsFiniteSet(Sessions)
    PROVE  TransferSpec => []NoCallDeadlock
<1>1. ASSUME TransferInv PROVE NoCallDeadlock
  <2> SUFFICES ASSUME NEW S \in (SUBSET Sessions) \ {{}}
               PROVE  \E s \in S : \A t \in S \ {s} : ~CallWaits(s, t)
    BY DEF NoCallDeadlock
  <2>0. /\ S \in SUBSET Sessions /\ S # {} /\ IndInv /\ WalletsUnderAccounts
        /\ \A t \in Sessions : pc[t] \in {"claim", "lockTransfer", "lookup"} => tx[t].accounts = {}
    BY <1>1, CallLocks DEF TransferInv
  <2> DEFINE InLedger == {"lock", "insert", "closeAccount"}
             Early == {"claim", "lockTransfer"}
             L == {s \in S : pc[s] \in InLedger}
  <2>1. CASE \E s \in S : pc[s] \notin InLedger \cup Early \cup {"posted"}
    <3>1. PICK s \in S : pc[s] \notin InLedger \cup Early \cup {"posted"}
      BY <2>1
    <3>2. \A t \in S \ {s} : ~Waits(s, t)
      BY <2>0, <3>1, WaitsOnlyEarly
    <3> QED BY <3>1, <3>2 DEF CallWaits
  <2>2. CASE (\A s \in S : pc[s] \in InLedger \cup Early \cup {"posted"}) /\ \E s \in S : pc[s] = "posted"
    <3>1. PICK s \in S : pc[s] = "posted"
      BY <2>2
    <3>2. \A t \in S \ {s} : ~Waits(s, t)
      BY <2>0, <3>1, WaitsOnlyEarly
    <3>3. \A t \in S : pc[t] # "recorded"
      BY <2>2
    <3> QED BY <3>1, <3>2, <3>3 DEF CallWaits
  <2>3. CASE (\A s \in S : pc[s] \in InLedger \cup Early) /\ L # {}
    <3>1. PICK s \in L : \A t \in L \ {s} : ~Waits(s, t)
      <4>1. L \in SUBSET Sessions /\ \A s \in L : pc[s] \in {"lock", "insert", "closeAccount"}
        BY <2>0
      <4> HIDE DEF L
      <4> QED BY <2>0, <2>3, <4>1, NoLedgerCircle
    <3>2. ASSUME NEW t \in S \ L PROVE ~Waits(s, t)
      <4>1. pc[t] \in Early /\ t \in Sessions \ {s} /\ s \in Sessions
        BY <2>0, <2>3
      <4>2. tx[t].accounts = {} /\ ~Inserted(t)
        BY <2>0, <4>1 DEF Inserted
      <4> QED BY <2>0, <4>1, <4>2, WaitsOnlyEarly
    <3>3. pc[s] \in InLedger /\ s \in S
      OBVIOUS
    <3>4. \A t \in S \ {s} : ~Waits(s, t)
      BY <3>1, <3>2
    <3> QED BY <3>3, <3>4 DEF CallWaits
  <2>4. CASE (\A s \in S : pc[s] \in Early) /\ \E s \in S : pc[s] = "lockTransfer"
    <3>1. PICK s \in S : pc[s] = "lockTransfer"
      BY <2>4
    <3>2. \A t \in S : \A id : ~TransferLocked(t, id)
      BY <2>4 DEF TransferLocked, Claiming
    <3>3. \A t \in S \ {s} : ~Waits(s, t)
      BY <2>0, <3>1, WaitsOnlyEarly
    <3> QED BY <3>1, <3>2, <3>3 DEF CallWaits
  <2>5. CASE \A s \in S : pc[s] = "claim"
    <3>1. PICK s \in S : TRUE
      BY <2>0
    <3>2. \A t \in S : ~Claiming(t)
      BY <2>5 DEF Claiming
    <3>3. \A t \in S \ {s} : ~Waits(s, t)
      BY <2>0, <2>5, <3>1, WaitsOnlyEarly
    <3> QED BY <2>5, <3>1, <3>2, <3>3 DEF CallWaits
  <2>6. (\A s \in S : pc[s] \in InLedger \cup Early) /\ L = {} => \A s \in S : pc[s] \in Early
    OBVIOUS
  <2> HIDE DEF L
  <2> QED BY <2>1, <2>2, <2>3, <2>4, <2>5, <2>6
<1>2. TransferInv => NoCallDeadlock
  BY <1>1
<1> QED BY <1>2, TransferInductive, PTL

-----------------------------------------------------------------------------
(* The promise to clients *)

Stays == UNCHANGED <<balance, status, journal, idem, transfers, reversals, audit, outbox>>

\* Where the committed tables stay as they are, so does the promise.
LEMMA StaysIsStutter == Stays => UNCHANGED Promise!promised
BY DEF Stays, Promise!promised, Promise!bookVars, Promise!recordVars

\* The book of the promise is the book of the ledger.
LEMMA PostIsPromisePost ==
    ASSUME NEW entry, Book!Post(entry)
    PROVE  Promise!Ledger!Post(entry)
<1>1. /\ Book!ValidAtCommit(entry) = Promise!Ledger!ValidAtCommit(entry)
      /\ Book!Posted(entry) = Promise!Ledger!Posted(entry)
  BY DEF Book!ValidAtCommit, Promise!Ledger!ValidAtCommit, Book!Posted, Promise!Ledger!Posted,
     Book!SumFunction, Promise!Ledger!SumFunction, Book!SumFunctionOnSet,
     Promise!Ledger!SumFunctionOnSet, Book!FoldFunctionOnSet, Promise!Ledger!FoldFunctionOnSet,
     Book!MapThenFoldSet, Promise!Ledger!MapThenFoldSet
<1>2. \A a, n : Book!BalanceAllowed(a, n) = Promise!Ledger!BalanceAllowed(a, n)
  BY DEF Book!BalanceAllowed, Promise!Ledger!BalanceAllowed, Book!InRange, Promise!Ledger!InRange,
     Book!AllowNegative, Promise!Ledger!AllowNegative
<1> QED BY <1>1, <1>2 DEF Book!Post, Promise!Ledger!Post

\* What a commit stores under its key is the decision of the promise.
LEMMA DecidesIsDecide ==
    ASSUME TransferInv, NEW s \in Sessions, NEW c \in Calls, Index(c) \in Indexes, NEW st, NEW result,
           Decides(s, c, st, result), idem[Index(c)] = NoRecord
    PROVE  Promise!Decide(Index(c), result)
<1>1. idem \in [Indexes -> IdemRecords]
  BY DEF TransferInv, TransferTypes
<1>2. idem[Index(c)].result = <<"none">>
  BY ResultsDiffer
<1>3. Record(c, st, result).result = result
  BY DEF Record
<1>4. /\ idem'[Index(c)].result = result
      /\ \A k \in Indexes \ {Index(c)} : idem'[k] = idem[k]
  BY <1>1, <1>3 DEF Decides
<1>5. [k \in Indexes |-> idem'[k].result]
        = [[k \in Indexes |-> idem[k].result] EXCEPT ![Index(c)] = result]
  BY <1>4
<1> QED BY <1>2, <1>5 DEF Promise!Decide

\* An entry that moves an amount and is valid at commit has two sides.
LEMMA MovesIsMovement ==
    ASSUME NEW entry, ValidAtCommit(entry), NEW from, NEW to, NEW amount, Moves(entry, from, to, amount)
    PROVE  Promise!Movement(entry, from, to, amount)
<1>1. from # to
  BY DEF ValidAtCommit, Moves
<1>2. Promise!Posted(entry) = Posted(entry)
  BY DEF Promise!Posted, Posted
<1> QED BY <1>1, <1>2 DEF Moves, Promise!Movement

\* The commit of a call is the transfer or the reversal of the promise.
LEMMA CommitIsPromised ==
    ASSUME TransferInv, NEW s \in Sessions, CommitCall(s)
    PROVE  Promise!Next
<1>1. PICK c \in Calls, id \in Ids :
         /\ CallOf(s) = c /\ Index(c) \in Indexes /\ request[s].id = id
         /\ idem[Index(c)] = NoRecord
         /\ id \notin DoneIds
         /\ Decides(s, c, "COMPLETED", <<"done", id>>)
  BY CommitCallFacts
<1>2. pc[s] = "recorded" /\ PublishEntry(s) /\ IndInv /\ CallOK(s)
  BY DEF CommitCall, TransferInv
<1>3. PICK entry \in journal' : /\ entry = tx[s].entry /\ Promise!Ledger!Post(entry)
                                /\ ValidAtCommit(entry)
  BY <1>2, RecordedIsReady, PublishIsPost, PostIsPromisePost DEF PublishEntry
<1>4. Promise!Decide(Index(c), <<"done", id>>)
  BY <1>1, DecidesIsDecide
<1>5. CASE c.scope = ReversalScope
  <2>0. /\ ReversalRow(s).id = id /\ ReversalRow(s).transfer = c.transfer
        /\ ReversalRow(s).actor = c.user
    BY <1>1 DEF ReversalRow
  <2>1. PICK r : r = ReversalRow(s) /\ r.id = id /\ r.transfer = c.transfer /\ r.actor = c.user
    BY <2>0, Zenon
  <2>2. /\ ValidReversal(r, entry) /\ reversals' = reversals \cup {r} /\ UNCHANGED transfers
        /\ audit' = audit \cup {<<"TRANSFER_REVERSED", r.transfer>>}
        /\ outbox' = outbox \cup {<<"TRANSFER_REVERSED", r.id>>}
    BY <1>1, <1>3, <1>5, <2>1 DEF CommitCall
  <2>3. PICK t \in transfers : /\ t.id = r.transfer /\ t.sender = r.actor
                               /\ Moves(entry, t.destination, t.source, t.amount)
    BY <2>2 DEF ValidReversal
  <2>4. Promise!Movement(entry, t.destination, t.source, t.amount)
    BY <1>3, <2>3, MovesIsMovement
  <2>5. \A q \in reversals : q.transfer # r.transfer
    BY <1>1, <1>2, <1>5, <2>1 DEF CallOK, Reverses, ReversalExists
  <2>6. Promise!Reverse(Index(c), r)
    BY <1>3, <1>4, <2>1, <2>2, <2>3, <2>4, <2>5 DEF Promise!Reverse
  <2> QED BY <1>1, <2>2, <2>6 DEF Promise!Next
<1>6. CASE c.scope # ReversalScope
  <2>0. TransferRow(s).id = id
    BY <1>1 DEF TransferRow
  <2>1. PICK t : t = TransferRow(s) /\ t.id = id
    BY <2>0, Zenon
  <2>2. /\ ValidTransfer(t, entry) /\ transfers' = transfers \cup {t} /\ UNCHANGED reversals
        /\ audit' = audit \cup {<<"TRANSFER_CREATED", t.id>>}
        /\ outbox' = outbox \cup {<<"TRANSFER_COMPLETED", t.id>>}
    BY <1>1, <1>3, <1>6, <2>1 DEF CommitCall
  <2>3. Moves(entry, t.source, t.destination, t.amount) /\ OwnerOf[t.source] = t.sender
    BY <2>2 DEF ValidTransfer
  <2>4. Promise!Movement(entry, t.source, t.destination, t.amount)
    BY <1>3, <2>3, MovesIsMovement
  <2>5. t \notin transfers
    BY <1>1, <2>1 DEF DoneIds
  <2>6. Promise!Transfer(Index(c), t)
    BY <1>3, <1>4, <2>1, <2>2, <2>3, <2>4, <2>5 DEF Promise!Transfer
  <2> QED BY <1>1, <2>2, <2>6 DEF Promise!Next
<1> QED BY <1>5, <1>6

\* A stored failure is the failure of the promise.
LEMMA FailureIsPromised ==
    ASSUME TransferInv, NEW s \in Sessions, PersistFailure(s)
    PROVE  Promise!Next
<1>1. /\ pc[s] = "rejected" /\ Commit(s, {}, {}) /\ Goto(s, "idle") /\ EndRequest(s) /\ IndInv
      /\ UNCHANGED <<tables, records, saved>>
  BY DEF PersistFailure, TransferInv
<1>2. PICK c \in Calls : /\ CallOf(s) = c /\ Index(c) \in Indexes /\ idem[Index(c)] = NoRecord
  BY <1>1, OpenKey DEF Claiming
<1>3. /\ pc'[s] = "idle"
      /\ \A t \in Sessions \ {s} : pc'[t] = pc[t] /\ \E A, W : Kept(t, A, W)
  BY <1>1, CommitNothing, OutsideMove
<1>4. Decides(s, c, "FAILED", <<"failure">>)
  BY <1>1, <1>2, <1>3 DEF PersistFailure, Decides
<1>5. Promise!Decide(Index(c), <<"failure">>)
  BY <1>2, <1>4, DecidesIsDecide
<1>6. Promise!Fail(Index(c))
  BY <1>1, <1>5 DEF Promise!Fail, tables, records, Promise!bookVars, Promise!recordVars
<1> QED BY <1>2, <1>6 DEF Promise!Next

\* The steps of which something shows in the committed tables.
LEMMA ShownSteps ==
    ASSUME TransferInv, [TransferNext]_transferVars
    PROVE  \/ Stays
           \/ \E s \in Sessions : CommitCall(s) \/ PersistFailure(s)
           \/ /\ UNCHANGED <<idem, transfers, reversals, audit, outbox>>
              /\ (\E w \in Wallets : SetFrozen(w)) \/ (\E s \in Sessions : CommitClose(s))
<1> USE DEF tables, records
<1>1. ASSUME NEW s \in Sessions, NewCall(s) PROVE Stays
  BY <1>1 DEF NewCall, ReplayCall, BeginCall, FindBeneficiaryWallet, vars, Stays
<1>2. ASSUME NEW s \in Sessions, ServiceStep(s), ~CommitCall(s), ~PersistFailure(s) PROVE Stays
  BY <1>2 DEF ServiceStep, Claim, LockTransfer, Lookup, RecordResult, FailCall,
     ReplayAfterRace, SaveBeneficiary, Stays
<1>3. ASSUME NEW s \in Sessions, AbortCall(s) \/ LoseCall(s) PROVE Stays
  BY <1>3 DEF AbortCall, LoseCall, Stays
<1>4. ASSUME LedgerStep
      PROVE  /\ UNCHANGED <<idem, transfers, reversals, audit, outbox>>
             /\ \/ Stays
                \/ (\E w \in Wallets : SetFrozen(w)) \/ (\E s \in Sessions : CommitClose(s))
  <2>1. UNCHANGED <<idem, transfers, reversals, audit, outbox>>
    BY <1>4 DEF LedgerStep
  <2>2. CASE ~(\E w \in Wallets : SetFrozen(w)) /\ ~(\E s \in Sessions : CommitClose(s))
    BY <1>4, <2>1, <2>2 DEF LedgerStep, PostStep, LockAccount, UpdateAccount, CheckPostings,
       InsertEntry, Seal, CloseStep, FindToClose, CloseLockAccount, CloseLockWallet,
       RefuseClose, Stays
  <2> QED BY <2>1, <2>2
<1>5. ASSUME NEW b \in Beneficiaries, RemoveBeneficiary(b) PROVE Stays
  BY <1>5 DEF RemoveBeneficiary, vars, Stays
<1>6. CASE UNCHANGED transferVars
  BY <1>6 DEF transferVars, vars, Stays
<1> QED BY <1>1, <1>2, <1>3, <1>4, <1>5, <1>6 DEF TransferNext

\* A close that commits is the close of the promise.
LEMMA CloseIsPromised ==
    ASSUME IndInv, NEW s \in Sessions, CommitClose(s)
    PROVE  Promise!Ledger!Close(Target(s)) /\ Target(s) \in Wallets
<1>1. Target(s) \in Wallets /\ balance[Target(s)] = 0
  BY DEF CommitClose, Closable, IndInv, WalletCallConsistent, WalletMirrorsAccount
<1> QED BY <1>1 DEF CommitClose, Closable, Promise!Ledger!Close

\* Every step is a step of the promise or does not show.
LEMMA StepIsPromiseStep ==
    TransferInv /\ [TransferNext]_transferVars => [Promise!Next]_(Promise!promised)
<1> SUFFICES ASSUME TransferInv, [TransferNext]_transferVars
             PROVE  Promise!Next \/ UNCHANGED Promise!promised
  OBVIOUS
<1>1. CASE Stays
  BY <1>1, StaysIsStutter
<1>2. ASSUME NEW s \in Sessions, CommitCall(s) \/ PersistFailure(s) PROVE Promise!Next
  BY <1>2, CommitIsPromised, FailureIsPromised
<1>3. ASSUME UNCHANGED <<idem, transfers, reversals, audit, outbox>>,
             (\E w \in Wallets : SetFrozen(w)) \/ (\E s \in Sessions : CommitClose(s))
      PROVE  Promise!Next
  <2>1. \E w \in Wallets : Promise!Ledger!Close(w) \/ Promise!Ledger!SetFrozen(w)
    BY <1>3, CloseIsPromised DEF SetFrozen, Promise!Ledger!SetFrozen, TransferInv
  <2> QED BY <1>3, <2>1 DEF Promise!WalletStep, Promise!Next, Promise!recordVars
<1> QED BY <1>1, <1>2, <1>3, ShownSteps

\* The transfer and reversal endpoints keep the promise of TransferBook: every
\* key is decided once and at one instant, with the whole movement or nothing.
THEOREM TransfersImplementPromise == TransferSpec => ImplementsPromise
<1>1. TransferInit => Promise!Init
  <2> SUFFICES ASSUME TransferInit PROVE Promise!Init
    OBVIOUS
  <2>1. Promise!Ledger!Init
    BY DEF TransferInit, Init, Promise!Ledger!Init, OpeningBalance, Promise!Ledger!OpeningBalance,
       MigratedWith, Promise!Ledger!MigratedWith, SumFunctionOnSet, Promise!Ledger!SumFunctionOnSet,
       FoldFunctionOnSet, Promise!Ledger!FoldFunctionOnSet, MapThenFoldSet,
       Promise!Ledger!MapThenFoldSet, OpeningJournal, Promise!Ledger!OpeningJournal,
       OpeningEntry, Promise!Ledger!OpeningEntry
  <2>2. /\ idem = [k \in Indexes |-> NoRecord]
        /\ transfers = {} /\ reversals = {} /\ audit = {} /\ outbox = {}
    BY DEF TransferInit
  <2>3. [k \in Indexes |-> idem[k].result] = [k \in Indexes |-> <<"none">>]
    BY <2>2, ResultsDiffer
  <2> QED BY <2>1, <2>2, <2>3 DEF Promise!Init
<1> QED BY <1>1, StepIsPromiseStep, TransferInductive, PTL
      DEF TransferSpec, ImplementsPromise, Promise!Spec

\* Every step keeps the books.
LEMMA TransferStepKeepsBooks ==
    ASSUME IsFiniteSet(Accounts), TransferInv, BooksInv, [TransferNext]_transferVars
    PROVE  BooksInv'
<1>1. status \in [Wallets -> Statuses]
  BY DEF TransferInv, IndInv, StoreOK
<1>2. CASE Stays \/ \E s \in Sessions : PersistFailure(s)
  <2>1. UNCHANGED <<balance, journal, status>>
    BY <1>2 DEF Stays, PersistFailure, tables
  <2> QED BY <2>1, StatusKeepsBooks
<1>3. ASSUME NEW s \in Sessions, CommitCall(s) PROVE BooksInv'
  <2>1. IndInv /\ Ready(s) /\ PublishEntry(s)
    BY <1>3, RecordedIsReady DEF CommitCall, TransferInv
  <2> QED BY <2>1, PublishKeepsBooks
<1>4. CASE \E w \in Wallets : SetFrozen(w)
  <2>1. UNCHANGED <<balance, journal>> /\ \A w \in Wallets : status'[w] = "NONE" => status[w] = "NONE"
    BY <1>1, <1>4 DEF SetFrozen
  <2> QED BY <2>1, StatusKeepsBooks
<1>5. CASE \E s \in Sessions : CommitClose(s)
  <2>1. UNCHANGED <<balance, journal>> /\ \A w \in Wallets : status'[w] = "NONE" => status[w] = "NONE"
    BY <1>1, <1>5 DEF CommitClose
  <2> QED BY <2>1, StatusKeepsBooks
<1> QED BY <1>2, <1>3, <1>4, <1>5, ShownSteps

\* The books balance under transfers and reversals too: the money of a transfer
\* that was retried, lost, refused or reversed is where its postings say.
THEOREM TransfersKeepTheBooks ==
    ASSUME IsFiniteSet(Accounts)
    PROVE  TransferSpec => []BooksReconcile
<1>1. TransferInit => BooksInv
  BY InitBooks DEF TransferInit
<1>2. TransferInv /\ BooksInv /\ [TransferNext]_transferVars => BooksInv'
  BY TransferStepKeepsBooks
<1>3. BooksInv => BooksReconcile
  BY DEF BooksInv, Reconciled, BooksReconcile, InCurrency
<1> QED BY <1>1, <1>2, <1>3, TransferInductive, PTL DEF TransferSpec
==============================================================================
