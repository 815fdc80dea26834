---------------------------- MODULE AccessProofs ----------------------------
(***************************************************************************)
(* Registration, login and the rate window for any number of requests,     *)
(* clients, emails and users, and any limit.  AccessInv is inductive: who  *)
(* is inserting a user holds the email and the id, uncommitted, and who is *)
(* about to be answered has a committed account with that very password.   *)
(***************************************************************************)
EXTENDS Access, FiniteSetTheorems, TLAPS

\* A call has its shape, and an input of its own as soon as it is admitted.
CallsOK ==
    /\ call \in [Requests -> [pc : {"idle", "find", "insert", "commit", "token"},
                              input : Inputs \cup {NoInput},
                              user : Ids \cup {0}]]
    /\ \A r \in Requests : call[r].pc # "idle" => call[r].input \in Inputs

\* A window counts at least what it let through, and never lets through more
\* than the limit although the counter goes on.
WindowsOK ==
    /\ DOMAIN window = Clients /\ admitted \in [Clients -> Nat]
    /\ \A c \in Clients : window[c].count \in Nat
    /\ \A c \in Clients : admitted[c] <= window[c].count /\ admitted[c] <= Limit

\* Committed rows: emails and ids are unique, and each user has one wallet.
RowsOK ==
    /\ \A u \in users : u.id \in Ids
    /\ \A u, v \in users : u.email = v.email \/ u.id = v.id => u = v
    /\ \A u \in users : \E w \in wallets :
         w.user = u.id /\ \A v \in wallets : v.user = u.id => v = w
    /\ \A w \in wallets : \E u \in users : u.id = w.user

\* An uncommitted insert has its email and its id to itself.
InsertsOK ==
    \A r \in Requests : Inserting(r) =>
        /\ call[r].user \in Ids
        /\ \A u \in users : u.email # Email(r) /\ u.id # call[r].user
        /\ \A q \in Requests \ {r} : Inserting(q) =>
             Email(q) # Email(r) /\ call[q].user # call[r].user

\* Who is to get a token has given the email and the password of its account.
AnswersOK ==
    \A r \in Requests : call[r].pc = "token" =>
        \E u \in users : /\ u.id = call[r].user /\ u.email = Email(r)
                         /\ u.password = call[r].input.password

AccessInv ==
    CallsOK /\ WindowsOK /\ RowsOK /\ InsertsOK /\ AnswersOK /\ TokensAreOwned

\* Before any request there is nothing to be wrong.
LEMMA AccessInitInv == AccessInit => AccessInv
BY AccessAssumption DEF AccessInit, AccessInv, CallsOK, WindowsOK, RowsOK, InsertsOK, AnswersOK,
   TokensAreOwned, NoCall, Inserting

\* The script counts a request and only ever raises the counter.
LEMMA IncrementCounts ==
    ASSUME WindowsOK, NEW c \in Clients, Increment(c)
    PROVE  /\ DOMAIN window' = Clients
           /\ \A d \in Clients : window'[d].count \in Nat /\ window'[d].count >= window[d].count
           /\ window'[c].count <= Limit => window'[c].count = window[c].count + 1
BY AccessAssumption DEF Increment, WindowsOK

\* A request that is let through is within the limit.
LEMMA AdmitInv ==
    ASSUME AccessInv, NEW r \in Requests, NEW i \in Inputs, Admit(r, i)
    PROVE  AccessInv'
<1>1. i.client \in Clients
  BY AccessAssumption
<1>2. WindowsOK'
  BY <1>1, IncrementCounts, AccessAssumption DEF Admit, AccessInv, WindowsOK
<1>3. CallsOK'
  BY DEF Admit, AccessInv, CallsOK, NoCall
<1>4. InsertsOK' /\ AnswersOK'
  BY DEF Admit, AccessInv, CallsOK, NoCall, InsertsOK, AnswersOK, Inserting, Email
<1> QED BY <1>2, <1>3, <1>4 DEF Admit, AccessInv, RowsOK, TokensAreOwned

\* A request that is refused, or not answered by Redis, raises the counter at most.
LEMMA RefuseInv ==
    ASSUME AccessInv, NEW r \in Requests, NEW i \in Inputs, TooMany(r, i) \/ Unavailable(r, i)
    PROVE  AccessInv'
<1>1. i.client \in Clients
  BY AccessAssumption
<1>2. WindowsOK'
  <2>1. CASE UNCHANGED window
    BY <2>1 DEF TooMany, Unavailable, AccessInv, WindowsOK
  <2>2. CASE Increment(i.client)
    BY <1>1, <2>2, IncrementCounts, AccessAssumption DEF TooMany, Unavailable, AccessInv, WindowsOK
  <2> QED BY <2>1, <2>2 DEF TooMany, Unavailable
<1>3. UNCHANGED <<users, wallets, tokens, call>>
  BY DEF TooMany, Unavailable
<1> QED BY <1>2, <1>3 DEF AccessInv, CallsOK, RowsOK, InsertsOK, AnswersOK, TokensAreOwned,
                          Inserting, Email

\* A new window starts from nothing.
LEMMA WindowEndsInv ==
    ASSUME AccessInv, NEW c \in Clients, WindowEnds(c)
    PROVE  AccessInv'
<1>1. WindowsOK'
  BY AccessAssumption DEF WindowEnds, AccessInv, WindowsOK
<1> QED BY <1>1 DEF WindowEnds, AccessInv, CallsOK, RowsOK, InsertsOK, AnswersOK, TokensAreOwned,
                    Inserting, Email

\* Request r moves on with user n.
MovesWith(r, to, n) == call' = [call EXCEPT ![r].pc = to, ![r].user = n]

\* A call that moves on with a user keeps its input.
LEMMA MoveWithUser ==
    ASSUME CallsOK, NEW r \in Requests, NEW n \in Ids, NEW to \in {"commit", "token"},
           call[r].pc # "idle", MovesWith(r, to, n)
    PROVE  /\ CallsOK'
           /\ call'[r].pc = to /\ call'[r].user = n /\ call'[r].input = call[r].input
           /\ \A q \in Requests \ {r} : call'[q] = call[q]
<1> DEFINE C == [pc : {"idle", "find", "insert", "commit", "token"},
                 input : Inputs \cup {NoInput}, user : Ids \cup {0}]
<1>1. call[r] \in C /\ call \in [Requests -> C]
  BY DEF CallsOK
<1>2. call' = [call EXCEPT ![r] = [call[r] EXCEPT !.pc = to, !.user = n]]
  BY <1>1 DEF MovesWith
<1>3. [call[r] EXCEPT !.pc = to, !.user = n] \in C
  BY <1>1
<1>4. call'[r] = [call[r] EXCEPT !.pc = to, !.user = n] /\ call' \in [Requests -> C]
  BY <1>1, <1>2, <1>3
<1>5. /\ call'[r].pc = to /\ call'[r].user = n /\ call'[r].input = call[r].input
      /\ \A q \in Requests \ {r} : call'[q] = call[q]
  BY <1>1, <1>2, <1>4
<1> QED BY <1>4, <1>5 DEF CallsOK

\* A lookup starts no insert, and finds the account a login is answered for.
LEMMA FindInv ==
    ASSUME AccessInv, NEW r \in Requests, Find(r)
    PROVE  AccessInv'
<1>0. UNCHANGED <<users, wallets, window, admitted, tokens>> /\ \A q \in Requests \ {r} : call'[q] = call[q]
  BY DEF Find, End, AccessInv, CallsOK
<1>1. WindowsOK' /\ RowsOK' /\ TokensAreOwned'
  BY <1>0 DEF AccessInv, WindowsOK, RowsOK, TokensAreOwned
<1>2. CASE call' = [call EXCEPT ![r] = NoCall] \/ call' = [call EXCEPT ![r].pc = "insert"]
  <2>1. CallsOK'
    BY <1>2 DEF Find, AccessInv, CallsOK, NoCall
  <2>2. call'[r].pc \notin {"commit", "token"}
    BY <1>2 DEF AccessInv, CallsOK, NoCall
  <2>3. InsertsOK' /\ AnswersOK'
    BY <1>0, <2>2 DEF AccessInv, InsertsOK, AnswersOK, Inserting, Email
  <2> QED BY <1>1, <2>1, <2>3 DEF AccessInv
<1>3. ASSUME NEW u \in WithEmail(Email(r)), u.password = call[r].input.password, u.id \in Ids,
             MovesWith(r, "token", u.id)
      PROVE  AccessInv'
  <2>1. CallsOK'
    BY <1>3, MoveWithUser DEF Find, AccessInv
  <2>2. call'[r].pc = "token" /\ call'[r].user = u.id /\ call'[r].input = call[r].input
    BY <1>3, MoveWithUser DEF Find, AccessInv
  <2>3. InsertsOK' /\ AnswersOK'
    BY <1>0, <1>3, <2>2 DEF AccessInv, InsertsOK, AnswersOK, Inserting, Email, WithEmail
  <2> QED BY <1>1, <2>1, <2>3 DEF AccessInv
<1> QED BY <1>2, <1>3 DEF Find, End, WithEmail, AccessInv, RowsOK, MovesWith

\* A call that ends without an answer leaves the rows as they are.
LEMMA EndsInv ==
    ASSUME AccessInv, NEW r \in Requests, EmailTaken(r) \/ Lose(r)
    PROVE  AccessInv'
<1>1. UNCHANGED <<users, wallets, window, admitted, tokens>> /\ call' = [call EXCEPT ![r] = NoCall]
  BY DEF EmailTaken, Lose, End
<1>2. WindowsOK' /\ RowsOK' /\ TokensAreOwned'
  BY <1>1 DEF AccessInv, WindowsOK, RowsOK, TokensAreOwned
<1>3. CallsOK'
  BY <1>1 DEF AccessInv, CallsOK, NoCall
<1>4. InsertsOK' /\ AnswersOK'
  BY <1>1 DEF AccessInv, CallsOK, InsertsOK, AnswersOK, Inserting, Email, NoCall
<1> QED BY <1>2, <1>3, <1>4 DEF AccessInv

\* The unique index lets one insert of an email through, with a fresh id.
LEMMA InsertUserInv ==
    ASSUME AccessInv, NEW r \in Requests, InsertUser(r)
    PROVE  AccessInv'
<1>0. PICK n \in Ids : FreshId(n) /\ MovesWith(r, "commit", n)
  BY DEF InsertUser, MovesWith
<1>1. WindowsOK' /\ RowsOK' /\ TokensAreOwned'
  BY DEF InsertUser, AccessInv, WindowsOK, RowsOK, TokensAreOwned
<1>2. CallsOK'
  BY <1>0, MoveWithUser DEF InsertUser, AccessInv
<1>3. /\ call'[r].pc = "commit" /\ call'[r].user = n /\ Email(r)' = Email(r)
      /\ \A q \in Requests \ {r} : call'[q] = call[q]
  BY <1>0, MoveWithUser DEF InsertUser, AccessInv, Email
<1>a. /\ UNCHANGED users
      /\ \A u \in users : u.email # Email(r) /\ u.id # n
      /\ \A q \in Requests \ {r} : Inserting(q) => Email(q) # Email(r) /\ call[q].user # n
  BY <1>0 DEF InsertUser, FreshId, WithEmail
<1>b. \A q \in Requests \ {r} : Email(q)' = Email(q) /\ Inserting(q)' = Inserting(q)
  BY <1>3 DEF Email, Inserting
<1>4. InsertsOK'
  BY <1>3, <1>a, <1>b DEF AccessInv, InsertsOK, Inserting
<1>5. AnswersOK'
  BY <1>3, <1>a, <1>b DEF AccessInv, AnswersOK
<1> QED BY <1>1, <1>2, <1>4, <1>5 DEF AccessInv

\* The user and its wallet appear together, and nobody has the email or the id.
LEMMA CommitUserInv ==
    ASSUME AccessInv, NEW r \in Requests, CommitUser(r)
    PROVE  AccessInv'
<1> DEFINE u == [id |-> call[r].user, email |-> Email(r), password |-> call[r].input.password]
           w == [user |-> call[r].user,
                 currency |-> IF call[r].input.currency = "" THEN "USD" ELSE call[r].input.currency]
<1>0. users' = users \cup {u} /\ wallets' = wallets \cup {w} /\ call' = [call EXCEPT ![r].pc = "token"]
  BY DEF CommitUser
<1>1. \A v \in users : v.email # u.email /\ v.id # u.id
  BY DEF CommitUser, AccessInv, InsertsOK, Inserting
<1>2. w.user = u.id /\ u.id \in Ids
  BY DEF CommitUser, AccessInv, InsertsOK, Inserting
<1>3. /\ call'[r].pc = "token" /\ call'[r].user = u.id /\ call'[r].input.password = u.password
      /\ Email(r)' = u.email
      /\ \A q \in Requests \ {r} : call'[q] = call[q]
  BY <1>0 DEF AccessInv, CallsOK, Email
<1>4. CallsOK' /\ WindowsOK'
  BY <1>0 DEF CommitUser, AccessInv, CallsOK, WindowsOK
<1> HIDE DEF u, w
<1>5. RowsOK'
  BY <1>0, <1>1, <1>2 DEF AccessInv, RowsOK
<1>6. \A q \in Requests \ {r} : Inserting(q) => Email(q) # u.email /\ call[q].user # u.id
  BY DEF u, CommitUser, AccessInv, InsertsOK, Inserting
<1>7. InsertsOK'
  BY <1>0, <1>3, <1>6 DEF AccessInv, InsertsOK, Inserting, Email
<1>8. AnswersOK'
  BY <1>0, <1>3 DEF AccessInv, AnswersOK, Email
<1>9. TokensAreOwned'
  BY <1>0 DEF CommitUser, AccessInv, TokensAreOwned
<1> QED BY <1>4, <1>5, <1>7, <1>8, <1>9 DEF AccessInv

\* A token is answered for an account that is committed.
LEMMA AnswerInv ==
    ASSUME AccessInv, NEW r \in Requests, Answer(r)
    PROVE  AccessInv'
<1>1. UNCHANGED <<users, wallets, window, admitted>> /\ call' = [call EXCEPT ![r] = NoCall]
  BY DEF Answer, End
<1>2. WindowsOK' /\ RowsOK' /\ CallsOK'
  BY <1>1 DEF AccessInv, WindowsOK, RowsOK, CallsOK, NoCall
<1>3. InsertsOK' /\ AnswersOK'
  BY <1>1 DEF AccessInv, CallsOK, InsertsOK, AnswersOK, Inserting, Email, NoCall
<1>4. TokensAreOwned'
  BY <1>1 DEF Answer, AccessInv, AnswersOK, TokensAreOwned, Email
<1> QED BY <1>2, <1>3, <1>4 DEF AccessInv

\* AccessInv holds always.
THEOREM AccessInductive == AccessSpec => []AccessInv
<1>1. AccessInv /\ [AccessNext]_accessVars => AccessInv'
  <2> SUFFICES ASSUME AccessInv, [AccessNext]_accessVars PROVE AccessInv'
    OBVIOUS
  <2>1. CASE UNCHANGED accessVars
    BY <2>1 DEF accessVars, AccessInv, CallsOK, WindowsOK, RowsOK, InsertsOK, AnswersOK,
                TokensAreOwned, Inserting, Email
  <2>2. CASE AccessNext
    BY <2>2, AdmitInv, RefuseInv, WindowEndsInv, FindInv, EndsInv, InsertUserInv, CommitUserInv,
       AnswerInv DEF AccessNext
  <2> QED BY <2>1, <2>2
<1> QED BY <1>1, AccessInitInv, PTL DEF AccessSpec

\* However registrations of one email race, one account comes of it, with its
\* initial wallet and no other.
THEOREM OneAccount == AccessSpec => []OneAccountWithItsWallet
<1>1. AccessInv => OneAccountWithItsWallet
  <2> SUFFICES ASSUME AccessInv, NEW u \in users
               PROVE  Cardinality({w \in wallets : w.user = u.id}) = 1
    BY DEF AccessInv, RowsOK, OneAccountWithItsWallet
  <2>1. PICK w \in wallets : w.user = u.id /\ \A v \in wallets : v.user = u.id => v = w
    BY DEF AccessInv, RowsOK
  <2>2. {v \in wallets : v.user = u.id} = {w}
    BY <2>1
  <2> QED BY <2>2, FS_Singleton
<1> QED BY <1>1, AccessInductive, PTL

\* Nobody gets a token for an account whose password was not given, the loser
\* of a race for an email included.
THEOREM TokensForOwners == AccessSpec => []TokensAreOwned
<1>1. AccessInv => TokensAreOwned
  BY DEF AccessInv
<1> QED BY <1>1, AccessInductive, PTL

\* Over any number of replicas, and with a Redis that counts without
\* answering, no more than Limit requests of a client pass in a window.
THEOREM RateLimited == AccessSpec => []LimitHolds
<1>1. AccessInv => LimitHolds
  BY DEF AccessInv, WindowsOK, LimitHolds
<1> QED BY <1>1, AccessInductive, PTL
==============================================================================
