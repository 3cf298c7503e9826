--------------------------- MODULE SavingsSessions ---------------------------
(***************************************************************************)
(* Savings requests as database sessions.  Each request runs in a session  *)
(* of its own (get_db) in FastAPI's thread pool: it reads the accounts it  *)
(* works on, computes absolute new balances from what it read, flushes the *)
(* UPDATEs and commits.  Nothing locks or versions what was read, so what  *)
(* happens between the read and the commit is up to the isolation level of *)
(* the database: PostgreSQL's default READ COMMITTED, or the SERIALIZABLE  *)
(* of CockroachDB, whose refused commits RetryingSession handles.          *)
(***************************************************************************)
EXTENDS Integers, Functions

CONSTANTS Accounts,        \* account ids, numbers ordered as the primary key is
          ProductOf,       \* [Accounts -> product]
          MinimumBalance,  \* [product -> Nat]
          Rate,            \* [product -> Nat], interest per annum in percent
          GlConfigured,    \* products whose GL accounts are configured
          Opening,         \* [Accounts -> Nat], balances at the start
          Amounts,         \* amounts a request may carry
          Requests,        \* requests; each runs once
          Operations,      \* operations enabled in this instance
          Isolation,       \* "read_committed" or "serializable"
          ServerIsUtc,     \* whether the server's local date is the UTC date
          MaxMonth         \* bound on the calendar

CreditTypes == {"deposit", "interest_posting", "transfer_in"}
DebitTypes  == {"withdrawal", "transfer_out", "penalty"}
TellerTypes == CreditTypes \cup DebitTypes
Kinds       == TellerTypes \cup {"transfer", "interest_run"}
NoKind      == "none"

ASSUME AccountsAssumption == Accounts \subseteq Nat
ASSUME ProductsAssumption ==
    /\ MinimumBalance \in [{ProductOf[a] : a \in Accounts} -> Nat]
    /\ Rate \in [{ProductOf[a] : a \in Accounts} -> Nat]
ASSUME OpeningAssumption == Opening \in [Accounts -> Nat]
ASSUME AmountsAssumption == Amounts \subseteq Nat \ {0}
ASSUME OperationsAssumption == Operations \subseteq Kinds
ASSUME IsolationAssumption == Isolation \in {"read_committed", "serializable"}
ASSUME CalendarAssumption == ServerIsUtc \in BOOLEAN /\ MaxMonth \in Nat

VARIABLES
    \* committed tables
    balance,      \* SavingsAccount.balance
    rowSum,       \* signed sum of the account's SavingsTransaction rows
    glCredit,     \* net credit of the journal lines posted for those rows
    lastInterest, \* month of SavingsAccount.last_interest_posted_at
    interestRows, \* interest rows posted for an account, by the month of the run
    \* sessions
    phase,        \* "idle", "half" (a transfer that read its sender), "writing", "answered"
    kind,         \* what the request does
    seen,         \* rows the session has read
    stale,        \* rows read that another session has changed since
    view,         \* balances as the session read them
    delta,        \* signed amount the session adds to each account
    held,         \* rows the session has written and holds locked
    clock,        \* month of date.today() and of utcnow() when an interest run starts
    answer,       \* "none", "ok" or "error"
    durable,      \* whether the session's rows were committed
    \* the calendar
    localMonth, utcMonth

tables   == <<balance, rowSum, glCredit, lastInterest, interestRows>>
sessions == <<phase, kind, seen, stale, view, delta, held, clock, answer, durable>>
months   == <<localMonth, utcMonth>>
vars     == <<tables, sessions, months>>

Months == 0 .. MaxMonth
Never  == -1

TypeOK ==
    /\ balance \in [Accounts -> Int]
    /\ rowSum \in [Accounts -> Int]
    /\ glCredit \in [Accounts -> Int]
    /\ lastInterest \in [Accounts -> Months \cup {Never}]
    /\ interestRows \in [Accounts -> [Months -> Nat]]
    /\ phase \in [Requests -> {"idle", "half", "writing", "answered"}]
    /\ kind \in [Requests -> Kinds \cup {NoKind}]
    /\ seen \in [Requests -> SUBSET Accounts]
    /\ stale \in [Requests -> SUBSET Accounts]
    /\ view \in [Requests -> [Accounts -> Int]]
    /\ delta \in [Requests -> [Accounts -> Int]]
    /\ held \in [Requests -> SUBSET Accounts]
    /\ clock \in [Requests -> [asOf : Months, stamp : Months]]
    /\ answer \in [Requests -> {"none", "ok", "error"}]
    /\ durable \in [Requests -> BOOLEAN]
    /\ localMonth \in Months
    /\ utcMonth \in Months

Zero == [a \in Accounts |-> 0]
NoClock == [asOf |-> 0, stamp |-> 0]

Init ==
    /\ balance = Opening
    /\ rowSum = Opening
    /\ glCredit = Opening
    /\ lastInterest = [a \in Accounts |-> Never]
    /\ interestRows = [a \in Accounts |-> [m \in Months |-> 0]]
    /\ phase = [r \in Requests |-> "idle"]
    /\ kind = [r \in Requests |-> NoKind]
    /\ seen = [r \in Requests |-> {}]
    /\ stale = [r \in Requests |-> {}]
    /\ view = [r \in Requests |-> Zero]
    /\ delta = [r \in Requests |-> Zero]
    /\ held = [r \in Requests |-> {}]
    /\ clock = [r \in Requests |-> NoClock]
    /\ answer = [r \in Requests |-> "none"]
    /\ durable = [r \in Requests |-> FALSE]
    /\ localMonth = 0
    /\ utcMonth = 0

-----------------------------------------------------------------------------
Minimum(a) == MinimumBalance[ProductOf[a]]

\* balance * rate / 100 / 12, rounded half up to the unit (the cent)
InterestOn(a, b) == (2 * b * Rate[ProductOf[a]] + 1200) \div 2400

Touched(r) == {a \in Accounts : delta[r][a] # 0}
Unwritten(r) == Touched(r) \ held[r]

\* The unit of work emits UPDATEs in primary key order; an interest run
\* flushes account by account, in the order of its SELECT, which has none.
MayWriteNext(r, a) ==
    /\ a \in Unwritten(r)
    /\ kind[r] # "interest_run" => \A b \in Unwritten(r) : a <= b

\* Mutant: a row waits for whoever is going to write it
WantedByOther(r, a) == \E q \in Requests \ {r} : phase[q] = "writing" /\ a \in Touched(q)

LockedByOther(r, a) == \E q \in Requests \ {r} : a \in held[q]

\* Mutant: withdrawals are not posted
PostsCredits(k, a) ==
    k \in {"deposit", "interest_posting", "interest_run"} /\ ProductOf[a] \in GlConfigured

\* post_savings_transaction_gl: deposits, withdrawals and interest are
\* posted, and only when the product's GL accounts are configured
PostsToGl(k, a) ==
    /\ k \in {"deposit", "withdrawal", "interest_posting", "interest_run"}
    /\ ProductOf[a] \in GlConfigured

\* Mutant: the rows are read in a transaction of their own
LoadApart(r, k, S, d, ph) ==
    /\ phase' = [phase EXCEPT ![r] = ph]
    /\ kind' = [kind EXCEPT ![r] = k]
    /\ seen' = [seen EXCEPT ![r] = {}]
    /\ view' = [view EXCEPT ![r] = [a \in Accounts |-> IF a \in S THEN balance[a] ELSE 0]]
    /\ delta' = [delta EXCEPT ![r] = d]

\* The session reads the rows S and starts working on the changes d
Load(r, k, S, d, ph) ==
    /\ phase' = [phase EXCEPT ![r] = ph]
    /\ kind' = [kind EXCEPT ![r] = k]
    /\ seen' = [seen EXCEPT ![r] = S]
    /\ view' = [view EXCEPT ![r] = [a \in Accounts |-> IF a \in S THEN balance[a] ELSE 0]]
    /\ delta' = [delta EXCEPT ![r] = d]

\* The request is answered; get_db closes the session, which forgets what
\* it read, rolls back what it did not commit and unlocks its rows
Finish(r, a) ==
    /\ phase' = [phase EXCEPT ![r] = "answered"]
    /\ answer' = [answer EXCEPT ![r] = a]
    /\ kind' = [kind EXCEPT ![r] = NoKind]
    /\ seen' = [seen EXCEPT ![r] = {}]
    /\ view' = [view EXCEPT ![r] = Zero]
    /\ delta' = [delta EXCEPT ![r] = Zero]
    /\ held' = [held EXCEPT ![r] = {}]
    /\ clock' = [clock EXCEPT ![r] = NoClock]

Fail(r) ==
    /\ Finish(r, "error")
    /\ stale' = [stale EXCEPT ![r] = {}]
    /\ UNCHANGED <<tables, months, durable>>

-----------------------------------------------------------------------------
(* post_savings_transaction                                                *)

TellerDelta(a, k, x) ==
    [b \in Accounts |-> IF b # a THEN 0 ELSE IF k \in CreditTypes THEN x ELSE -x]

PostLoad(r, a, k, x) ==
    /\ phase[r] = "idle"
    /\ k \in DebitTypes => balance[a] - x >= Minimum(a)
    /\ Load(r, k, {a}, TellerDelta(a, k, x), "writing")
    /\ UNCHANGED <<tables, months, stale, held, clock, answer, durable>>

PostRefused(r, a, k, x) ==
    /\ phase[r] = "idle"
    /\ k \in DebitTypes
    /\ balance[a] - x < Minimum(a)
    /\ Fail(r)

(* transfer_savings_internal: two SELECTs, sender first                    *)

TransferDelta(a, b, x) ==
    [c \in Accounts |-> IF c = a THEN -x ELSE IF c = b THEN x ELSE 0]

TransferLoadSender(r, a, b, x) ==
    /\ phase[r] = "idle"
    /\ a # b
    /\ Load(r, "transfer", {a}, TransferDelta(a, b, x), "half")
    /\ UNCHANGED <<tables, months, stale, held, clock, answer, durable>>

SenderOf(r) == CHOOSE a \in Accounts : delta[r][a] < 0

\* Mutant: the check forgets the amount
HasMinimum(r) == view[r][SenderOf(r)] >= Minimum(SenderOf(r))

\* the check uses the sender's balance as it was read in the first SELECT
Affordable(r) ==
    LET a == SenderOf(r) IN view[r][a] + delta[r][a] >= Minimum(a)

TransferLoadRecipient(r) ==
    /\ phase[r] = "half"
    /\ Affordable(r)
    /\ phase' = [phase EXCEPT ![r] = "writing"]
    /\ seen' = [seen EXCEPT ![r] = Touched(r)]
    /\ view' = [view EXCEPT ![r] =
                   [a \in Accounts |-> IF a \in seen[r] THEN view[r][a] ELSE balance[a]]]
    /\ UNCHANGED <<tables, months, kind, stale, delta, held, clock, answer, durable>>

TransferRefused(r) ==
    /\ phase[r] = "half"
    /\ ~ Affordable(r)
    /\ Fail(r)

(* post_savings_interest, run by the scheduler or by trigger_interest_posting *)

\* Mutant: accounts are not checked for interest they were already paid
EarnsInterest == {a \in Accounts : balance[a] > 0 /\ InterestOn(a, balance[a]) > 0}

InterestDue ==
    {a \in Accounts : /\ balance[a] > 0
                      /\ lastInterest[a] # localMonth
                      /\ InterestOn(a, balance[a]) > 0}

InterestLoad(r) ==
    /\ phase[r] = "idle"
    /\ Load(r, "interest_run", Accounts,
            [a \in Accounts |-> IF a \in InterestDue THEN InterestOn(a, balance[a]) ELSE 0],
            "writing")
    /\ clock' = [clock EXCEPT ![r] = [asOf |-> localMonth, stamp |-> utcMonth]]
    /\ UNCHANGED <<tables, months, stale, held, answer, durable>>

-----------------------------------------------------------------------------
(* Flush and commit                                                        *)

WriteRow(r, a) ==
    /\ phase[r] = "writing"
    /\ MayWriteNext(r, a)
    /\ ~ LockedByOther(r, a)
    /\ held' = [held EXCEPT ![r] = @ \cup {a}]
    /\ UNCHANGED <<tables, months, phase, kind, seen, stale, view, delta, clock, answer, durable>>

\* a serializable database may refuse the UPDATE of a row that changed
\* since it was read; outside commit() nobody retries
FlushRefused(r) ==
    /\ Isolation = "serializable"
    /\ phase[r] = "writing"
    /\ \E a \in Unwritten(r) \cap stale[r] : MayWriteNext(r, a)
    /\ Fail(r)

Flushed(r) == phase[r] = "writing" /\ Unwritten(r) = {}

Commit(r) ==
    /\ Flushed(r)
    /\ Isolation = "serializable" => stale[r] = {}
    /\ balance' = [a \in Accounts |-> IF a \in Touched(r) THEN view[r][a] + delta[r][a]
                                                          ELSE balance[a]]
    /\ rowSum' = [a \in Accounts |-> rowSum[a] + delta[r][a]]
    /\ glCredit' = [a \in Accounts |-> IF PostsToGl(kind[r], a) THEN glCredit[a] + delta[r][a]
                                                                ELSE glCredit[a]]
    /\ IF kind[r] = "interest_run"
       THEN /\ \E m \in clock[r].stamp .. utcMonth :
                  lastInterest' = [a \in Accounts |-> IF a \in Touched(r) THEN m ELSE lastInterest[a]]
            /\ interestRows' = [a \in Accounts |->
                  IF a \in Touched(r) THEN [interestRows[a] EXCEPT ![clock[r].asOf] = @ + 1]
                                      ELSE interestRows[a]]
       ELSE UNCHANGED <<lastInterest, interestRows>>
    /\ stale' = [q \in Requests |-> IF q = r THEN {}
                                             ELSE stale[q] \cup (seen[q] \cap Touched(r))]
    /\ durable' = [durable EXCEPT ![r] = TRUE]
    /\ Finish(r, "ok")
    /\ UNCHANGED months

\* RetryingSession.commit: the refused transaction is rolled back, which
\* empties the session, and the commit that is tried again commits nothing.
\* A handler that then refreshes its new row fails, the others answer "ok".
RetriedCommit(r) ==
    /\ Isolation = "serializable"
    /\ Flushed(r)
    /\ Finish(r, IF kind[r] \in TellerTypes THEN "error" ELSE "ok")
    /\ stale' = [stale EXCEPT ![r] = {}]
    /\ UNCHANGED <<tables, months, durable>>

\* the process, the connection or the handler fails before the commit
Abort(r) ==
    /\ phase[r] \in {"half", "writing"}
    /\ Fail(r)

\* Requests that wait for each other's rows
Deadlocked(r) ==
    \E S \in SUBSET Requests :
        /\ r \in S
        /\ \A q \in S :
              /\ phase[q] = "writing" /\ Unwritten(q) # {}
              /\ \A a \in Accounts : MayWriteNext(q, a) => \E p \in S \ {q} : a \in held[p]

\* the database breaks a cycle by failing one of the statements
DeadlockVictim(r) ==
    /\ Deadlocked(r)
    /\ Fail(r)

MonthTurns ==
    \/ /\ ServerIsUtc
       /\ localMonth < MaxMonth
       /\ localMonth' = localMonth + 1 /\ utcMonth' = utcMonth + 1
       /\ UNCHANGED <<tables, sessions>>
    \/ /\ ~ ServerIsUtc /\ localMonth = utcMonth /\ localMonth < MaxMonth
       /\ localMonth' = localMonth + 1
       /\ UNCHANGED <<tables, sessions, utcMonth>>
    \/ /\ ~ ServerIsUtc /\ utcMonth < localMonth
       /\ utcMonth' = localMonth
       /\ UNCHANGED <<tables, sessions, localMonth>>

-----------------------------------------------------------------------------
Arrive(r) ==
    \/ \E a \in Accounts, k \in TellerTypes \cap Operations, x \in Amounts :
          PostLoad(r, a, k, x) \/ PostRefused(r, a, k, x)
    \/ /\ "transfer" \in Operations
       /\ \E a, b \in Accounts, x \in Amounts : TransferLoadSender(r, a, b, x)
    \/ "interest_run" \in Operations /\ InterestLoad(r)

Proceed(r) ==
    \/ TransferLoadRecipient(r)
    \/ TransferRefused(r)
    \/ \E a \in Accounts : WriteRow(r, a)
    \/ FlushRefused(r)
    \/ Commit(r)
    \/ RetriedCommit(r)
    \/ DeadlockVictim(r)

Next ==
    \/ \E r \in Requests : Arrive(r) \/ Proceed(r) \/ Abort(r)
    \/ MonthTurns

Spec == Init /\ [][Next]_vars

\* a request that has started keeps running: its thread is scheduled and
\* the database answers; nothing obliges requests to arrive or to fail
FairSpec == Spec /\ \A r \in Requests : WF_vars(Proceed(r))

-----------------------------------------------------------------------------
(* Properties                                                              *)

\* The balance an account shows is the sum of its transaction rows: no
\* request's change is overwritten by another one that read before it.
BalanceMatchesRows == \A a \in Accounts : balance[a] = rowSum[a]

\* No interleaving of withdrawals, transfers and interest runs takes an
\* account that started at its product's minimum balance below it.
MinimumBalanceKept ==
    \A a \in Accounts : Opening[a] >= Minimum(a) => balance[a] >= Minimum(a)

\* Interest is paid at most once for an account and a month, however many
\* scheduled and manual runs overlap.
InterestOncePerMonth ==
    \A a \in Accounts, m \in Months : interestRows[a][m] <= 1

\* A request answered "ok" has its rows in the database.
AcknowledgedIsDurable == \A r \in Requests : answer[r] = "ok" => durable[r]

\* A product's liability account holds what its accounts' rows sum to.
LiabilityMatchesRows ==
    \A p \in GlConfigured :
        LET ofProduct == {a \in Accounts : ProductOf[a] = p}
        IN  SumFunctionOnSet(glCredit, ofProduct) = SumFunctionOnSet(rowSum, ofProduct)

\* Teller transactions and transfers never wait for each other's rows in a
\* circle: in every circle there is an interest run.
NoLockCycle ==
    \A r \in Requests : Deadlocked(r) => \E q \in Requests : kind[q] = "interest_run"

\* Every request that starts is answered.
EveryRequestAnswered ==
    \A r \in Requests : phase[r] # "idle" ~> phase[r] = "answered"

\* Locks delay a request and never stop one: transactions and transfers do not
\* wait in a circle, an interest run that does is broken up, and every request
\* that starts is answered.
RequestsGoOn == []NoLockCycle /\ EveryRequestAnswered

\* The savings endpoints are atomic: every step changes the balances and
\* the rows as one operation of AtomicSavings does, or not at all.
Atomic == INSTANCE AtomicSavings
AtomicSpec == Atomic!Spec
=============================================================================
