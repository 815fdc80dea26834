------------------------------- MODULE Access -------------------------------
(***************************************************************************)
(* AuthService, UsersService and AuthRateGuard: registration and login.    *)
(* A request is first counted against its client's window in Redis, by one *)
(* script that all replicas of the API share; a registration then looks    *)
(* for the email, hashes the password and inserts the user with a ledger   *)
(* account and a wallet in one transaction (READ COMMITTED), under the     *)
(* unique email; a token is signed after the commit.                       *)
(*                                                                         *)
(* A count above the limit is as good as any other and is not kept apart;  *)
(* a password stands for its hash, whose salt makes no difference here.    *)
(***************************************************************************)
EXTENDS Integers, FiniteSets

CONSTANTS
    Requests,       \* that the replicas serve at a time
    Inputs,         \* [kind, client, email, password, currency]
    Clients,        \* socket addresses
    Canonical,      \* normalizeEmail: [emails as typed -> canonical emails]
    Ids,            \* for users to come
    Limit           \* AUTH_RATE_LIMIT

ASSUME AccessAssumption ==
    /\ Limit \in Nat \ {0}
    /\ \A i \in Inputs : i.kind \in {"register", "login"} /\ i.client \in Clients
                         /\ i.email \in DOMAIN Canonical

VARIABLES
    users,      \* User rows, committed
    wallets,    \* the Wallet of createWithInitialWallet, committed
    window,     \* [Clients -> the counter in Redis]
    admitted,   \* history: [Clients -> requests let through in this window]
    tokens,     \* history: the tokens answered, with the password they were got for
    call        \* [Requests -> where it is, and its input]

accessVars == <<users, wallets, window, admitted, tokens, call>>

NoInput == [kind |-> "", client |-> "", email |-> "", password |-> "", currency |-> ""]

NoCall == [pc |-> "idle", input |-> NoInput, user |-> 0]

Email(r) == Canonical[call[r].input.email]

WithEmail(email) == {u \in users : u.email = email}

-----------------------------------------------------------------------------
(* AuthRateGuard *)

\* Mutant of Increment: EXPIRE is a command of its own, which may be lost.
IncrementThenExpire(c) ==
    \E expires \in {window[c].expires, TRUE} :
        window' = [window EXCEPT ![c] = [count |-> IF @.count > Limit THEN @.count ELSE @.count + 1,
                                         expires |-> expires]]

\* The script: INCR, and EXPIRE with the first count.
Increment(c) ==
    window' = [window EXCEPT ![c] =
                 [count   |-> IF @.count > Limit THEN @.count ELSE @.count + 1,
                  expires |-> IF @.count = 0 THEN TRUE ELSE @.expires]]

Admit(r, i) ==
    /\ call[r].pc = "idle"
    /\ Increment(i.client)
    /\ window'[i.client].count <= Limit
    /\ call' = [call EXCEPT ![r] = [NoCall EXCEPT !.pc = "find", !.input = i]]
    /\ admitted' = [admitted EXCEPT ![i.client] = @ + 1]
    /\ UNCHANGED <<users, wallets, tokens>>

\* 429.
TooMany(r, i) ==
    /\ call[r].pc = "idle"
    /\ Increment(i.client)
    /\ window'[i.client].count > Limit
    /\ UNCHANGED <<users, wallets, admitted, tokens, call>>

\* Mutant of Unavailable: without an answer of Redis there is no limit.
AdmitUncounted(r, i) ==
    /\ call[r].pc = "idle"
    /\ Increment(i.client) \/ UNCHANGED window
    /\ call' = [call EXCEPT ![r] = [NoCall EXCEPT !.pc = "find", !.input = i]]
    /\ admitted' = [admitted EXCEPT ![i.client] = @ + 1]
    /\ UNCHANGED <<users, wallets, tokens>>

\* 503: Redis cannot be reached, or does not answer in time though it counted.
Unavailable(r, i) ==
    /\ call[r].pc = "idle"
    /\ Increment(i.client) \/ UNCHANGED window
    /\ UNCHANGED <<users, wallets, admitted, tokens, call>>

\* The sixty seconds of a counter that expires are over.
WindowEnds(c) ==
    /\ window[c].expires
    /\ window' = [window EXCEPT ![c] = [count |-> 0, expires |-> FALSE]]
    /\ admitted' = [admitted EXCEPT ![c] = 0]
    /\ UNCHANGED <<users, wallets, tokens, call>>

-----------------------------------------------------------------------------
(* AuthService *)

End(r) == call' = [call EXCEPT ![r] = NoCall]

\* findByEmailWithPassword.  Of a login, the password is the user's or not.
Find(r) ==
    LET found == WithEmail(Email(r))
        right == {u \in found : u.password = call[r].input.password}
    IN  /\ call[r].pc = "find"
        /\ IF call[r].input.kind = "register"
           THEN IF found = {} THEN call' = [call EXCEPT ![r].pc = "insert"] ELSE End(r)
           ELSE IF right = {} THEN End(r)
                ELSE \E u \in right : call' = [call EXCEPT ![r].pc = "token", ![r].user = u.id]
        /\ UNCHANGED <<users, wallets, window, admitted, tokens>>

Inserting(r) == call[r].pc = "commit"

FreshId(n) ==
    /\ \A u \in users : u.id # n
    /\ \A r \in Requests : Inserting(r) => call[r].user # n

\* Mutant of InsertUser: the email was looked for, and is not indexed.
InsertTwice(r) ==
    /\ call[r].pc = "insert"
    /\ \E n \in Ids : FreshId(n) /\ call' = [call EXCEPT ![r].pc = "commit", ![r].user = n]
    /\ UNCHANGED <<users, wallets, window, admitted, tokens>>

\* The user, uncommitted, against User_email_key, which waits for another's.
InsertUser(r) ==
    /\ call[r].pc = "insert"
    /\ WithEmail(Email(r)) = {}
    /\ \A q \in Requests : Inserting(q) => Email(q) # Email(r)
    /\ \E n \in Ids : FreshId(n) /\ call' = [call EXCEPT ![r].pc = "commit", ![r].user = n]
    /\ UNCHANGED <<users, wallets, window, admitted, tokens>>

\* Mutant of EmailTaken: a registration that was made before is answered again.
AnswerTaken(r) ==
    /\ call[r].pc = "insert"
    /\ \E u \in WithEmail(Email(r)) : call' = [call EXCEPT ![r].pc = "token", ![r].user = u.id]
    /\ UNCHANGED <<users, wallets, window, admitted, tokens>>

\* P2002: 409.
EmailTaken(r) ==
    /\ call[r].pc = "insert"
    /\ WithEmail(Email(r)) # {}
    /\ End(r)
    /\ UNCHANGED <<users, wallets, window, admitted, tokens>>

\* createWithInitialWallet commits, the wallet in dollars unless told otherwise.
CommitUser(r) ==
    LET i == call[r].input IN
    /\ call[r].pc = "commit"
    /\ users' = users \cup {[id |-> call[r].user, email |-> Email(r), password |-> i.password]}
    /\ wallets' = wallets \cup {[user |-> call[r].user,
                                 currency |-> IF i.currency = "" THEN "USD" ELSE i.currency]}
    /\ call' = [call EXCEPT ![r].pc = "token"]
    /\ UNCHANGED <<window, admitted, tokens>>

\* issueAccessToken, and the answer.
Answer(r) ==
    /\ call[r].pc = "token"
    /\ tokens' = tokens \cup {[user |-> call[r].user, email |-> Email(r),
                               password |-> call[r].input.password]}
    /\ End(r)
    /\ UNCHANGED <<users, wallets, window, admitted>>

\* A crash, a lost connection or the timeout of the transaction, at any point.
Lose(r) ==
    /\ call[r].pc # "idle"
    /\ End(r)
    /\ UNCHANGED <<users, wallets, window, admitted, tokens>>

-----------------------------------------------------------------------------

AccessInit ==
    /\ users = {} /\ wallets = {} /\ tokens = {}
    /\ window = [c \in Clients |-> [count |-> 0, expires |-> FALSE]]
    /\ admitted = [c \in Clients |-> 0]
    /\ call = [r \in Requests |-> NoCall]

AccessNext ==
    \/ \E r \in Requests, i \in Inputs : Admit(r, i) \/ TooMany(r, i) \/ Unavailable(r, i)
    \/ \E r \in Requests : Find(r) \/ InsertUser(r) \/ EmailTaken(r) \/ CommitUser(r)
                           \/ Answer(r) \/ Lose(r)
    \/ \E c \in Clients : WindowEnds(c)

\* Redis's clock goes on.
AccessSpec ==
    /\ AccessInit
    /\ [][AccessNext]_accessVars
    /\ \A c \in Clients : WF_accessVars(WindowEnds(c))

-----------------------------------------------------------------------------
(* Properties *)

\* Registrations of one email, however typed and at whatever time, make one
\* account, and a committed account has its initial wallet and one only.
OneAccountWithItsWallet ==
    /\ \A u, v \in users : u.email = v.email \/ u.id = v.id => u = v
    /\ \A u \in users : Cardinality({w \in wallets : w.user = u.id}) = 1
    /\ \A w \in wallets : \E u \in users : u.id = w.user

\* A token is the user's whose email was given, and only for the password that
\* account was registered with: who lost a race for an email gets none.
TokensAreOwned ==
    \A t \in tokens : \E u \in users :
        u.id = t.user /\ u.email = t.email /\ u.password = t.password

\* No more than Limit requests of a client get through in a window, over all
\* replicas, and also when Redis fails to answer.
LimitHolds == \A c \in Clients : admitted[c] <= Limit

\* A client that was refused is let in again some time, whatever it tries in
\* between: no counter stays without an expiry.
BlockedIsReadmitted ==
    \A c \in Clients : window[c].count > Limit ~> window[c].count = 0
==============================================================================
