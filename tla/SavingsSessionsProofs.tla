------------------------ MODULE SavingsSessionsProofs ------------------------
(***************************************************************************)
(* Theorems about SavingsSessions, for any accounts, amounts, requests,    *)
(* rates and minimum balances.                                             *)
(***************************************************************************)
EXTENDS SavingsSessions, SumTheorems

\* UTC never runs ahead of the server's local date.
Calendar == utcMonth <= localMonth /\ (ServerIsUtc => utcMonth = localMonth)

\* Interest is a whole number of cents.
LEMMA InterestIsInt ==
    ASSUME NEW a \in Accounts, NEW b \in Int
    PROVE  InterestOn(a, b) \in Int
<1>1. Rate[ProductOf[a]] \in Nat
  BY ProductsAssumption
<1>2. \A q \in Int, n \in Nat : (2 * q * n + 1200) \in Int
  OBVIOUS
<1>3. \A n \in Int : n \div 2400 \in Int
  OBVIOUS
<1> QED
  BY <1>1, <1>2, <1>3 DEF InterestOn

\* The minimum of an account is an amount.
LEMMA MinimumIsNat == \A a \in Accounts : Minimum(a) \in Nat
  BY ProductsAssumption DEF Minimum

\* Every action keeps the variables in their types and the calendar in order.
THEOREM TypeCorrect == Spec => [](TypeOK /\ Calendar)
<1> USE OpeningAssumption, AmountsAssumption, CalendarAssumption
<1>1. Init => TypeOK /\ Calendar
  BY DEF Init, TypeOK, Calendar, Zero, NoClock, Months, Never
<1>2. TypeOK /\ Calendar /\ [Next]_vars => (TypeOK /\ Calendar)'
  <2> SUFFICES ASSUME TypeOK, Calendar, [Next]_vars
               PROVE  (TypeOK /\ Calendar)'
    OBVIOUS
  <2> USE DEF TypeOK
  <2>0. 0 \in Months /\ NoClock \in [asOf : Months, stamp : Months] /\ Zero \in [Accounts -> Int]
    BY DEF Months, NoClock, Zero
  <2>1. ASSUME NEW r \in Requests, Fail(r)
        PROVE  (TypeOK /\ Calendar)'
    BY <2>0, <2>1 DEF Fail, Finish, tables, months, Kinds, Calendar
  <2>2. ASSUME NEW r \in Requests, NEW a \in Accounts, NEW k \in TellerTypes \cap Operations,
               NEW x \in Amounts, PostLoad(r, a, k, x)
        PROVE  (TypeOK /\ Calendar)'
    <3>1. TellerDelta(a, k, x) \in [Accounts -> Int]
      BY DEF TellerDelta
    <3>2. QED
      BY <2>2, <3>1 DEF PostLoad, Load, tables, months, Kinds, Calendar
  <2>3. ASSUME NEW r \in Requests, NEW a \in Accounts, NEW b \in Accounts,
               NEW x \in Amounts, TransferLoadSender(r, a, b, x)
        PROVE  (TypeOK /\ Calendar)'
    <3>1. TransferDelta(a, b, x) \in [Accounts -> Int]
      BY DEF TransferDelta
    <3>2. QED
      BY <2>3, <3>1 DEF TransferLoadSender, Load, tables, months, Kinds, Calendar
  <2>4. ASSUME NEW r \in Requests, InterestLoad(r)
        PROVE  (TypeOK /\ Calendar)'
    <3>1. [a \in Accounts |-> IF a \in InterestDue THEN InterestOn(a, balance[a]) ELSE 0]
            \in [Accounts -> Int]
      BY InterestIsInt
    <3>2. [asOf |-> localMonth, stamp |-> utcMonth] \in [asOf : Months, stamp : Months]
      OBVIOUS
    <3>3. QED
      BY <2>4, <3>1, <3>2 DEF InterestLoad, Load, tables, months, Kinds, Calendar
  <2>5. ASSUME NEW r \in Requests, TransferLoadRecipient(r)
        PROVE  (TypeOK /\ Calendar)'
    BY <2>5 DEF TransferLoadRecipient, Touched, tables, months, Calendar
  <2>6. ASSUME NEW r \in Requests, NEW a \in Accounts, WriteRow(r, a)
        PROVE  (TypeOK /\ Calendar)'
    BY <2>6 DEF WriteRow, tables, months, Calendar
  <2>7. ASSUME NEW r \in Requests, Commit(r)
        PROVE  (TypeOK /\ Calendar)'
    <3>1. balance' \in [Accounts -> Int] /\ rowSum' \in [Accounts -> Int]
          /\ glCredit' \in [Accounts -> Int]
      BY <2>7 DEF Commit
    <3>2. lastInterest' \in [Accounts -> Months \cup {Never}]
      <4>1. CASE kind[r] = "interest_run"
        <5>1. PICK m \in clock[r].stamp .. utcMonth :
                lastInterest' = [a \in Accounts |-> IF a \in Touched(r) THEN m ELSE lastInterest[a]]
          BY <2>7, <4>1 DEF Commit
        <5>2. clock[r].stamp \in Months
          OBVIOUS
        <5>3. m \in Months
          BY <5>2 DEF Months
        <5> QED
          BY <5>1, <5>3
      <4>2. CASE kind[r] # "interest_run"
        BY <2>7, <4>2 DEF Commit
      <4> QED
        BY <4>1, <4>2
    <3>3. interestRows' \in [Accounts -> [Months -> Nat]]
      <4>1. CASE kind[r] = "interest_run"
        <5>1. \A a \in Accounts :
                [interestRows[a] EXCEPT ![clock[r].asOf] = @ + 1] \in [Months -> Nat]
          OBVIOUS
        <5>2. interestRows' = [a \in Accounts |->
                IF a \in Touched(r) THEN [interestRows[a] EXCEPT ![clock[r].asOf] = @ + 1]
                                    ELSE interestRows[a]]
          BY <2>7, <4>1 DEF Commit
        <5> QED
          BY <5>1, <5>2
      <4>2. CASE kind[r] # "interest_run"
        BY <2>7, <4>2 DEF Commit
      <4> QED
        BY <4>1, <4>2
    <3>4. stale' \in [Requests -> SUBSET Accounts] /\ durable' \in [Requests -> BOOLEAN]
      BY <2>7 DEF Commit
    <3>5. /\ phase' \in [Requests -> {"idle", "half", "writing", "answered"}]
          /\ kind' \in [Requests -> Kinds \cup {NoKind}]
          /\ seen' \in [Requests -> SUBSET Accounts]
          /\ view' \in [Requests -> [Accounts -> Int]]
          /\ delta' \in [Requests -> [Accounts -> Int]]
          /\ held' \in [Requests -> SUBSET Accounts]
          /\ clock' \in [Requests -> [asOf : Months, stamp : Months]]
          /\ answer' \in [Requests -> {"none", "ok", "error"}]
      BY <2>0, <2>7 DEF Commit, Finish
    <3>6. QED
      BY <2>7, <3>1, <3>2, <3>3, <3>4, <3>5 DEF Commit, months, Calendar
  <2>8. ASSUME NEW r \in Requests, RetriedCommit(r)
        PROVE  (TypeOK /\ Calendar)'
    BY <2>0, <2>8 DEF RetriedCommit, Finish, tables, months, Kinds, Calendar
  <2>9. CASE MonthTurns
    BY <2>9 DEF MonthTurns, tables, sessions, Months, Calendar
  <2>10. CASE UNCHANGED vars
    BY <2>10 DEF vars, tables, sessions, months, Calendar
  <2> QED
    BY <2>1, <2>2, <2>3, <2>4, <2>5, <2>6, <2>7, <2>8, <2>9, <2>10
       DEF Next, Arrive, Proceed, PostRefused, TransferRefused, FlushRefused, Abort, DeadlockVictim
<1> QED
  BY <1>1, <1>2, PTL DEF Spec

-----------------------------------------------------------------------------
(* The inductive invariant about sessions: what a request that is running  *)
(* read, what it is going to write, and that what it read still holds      *)
(* unless another session's commit marked it stale.                        *)

IsTeller(r) ==
    /\ kind[r] \in TellerTypes
    /\ phase[r] = "writing"
    /\ \E a \in Accounts, x \in Amounts :
          /\ delta[r] = TellerDelta(a, kind[r], x)
          /\ seen[r] = {a}
          /\ kind[r] \in DebitTypes => view[r][a] - x >= Minimum(a)

IsTransfer(r) ==
    /\ kind[r] = "transfer"
    /\ phase[r] \in {"half", "writing"}
    /\ \E a, b \in Accounts, x \in Amounts :
          /\ a # b
          /\ delta[r] = TransferDelta(a, b, x)
          /\ phase[r] = "half" => seen[r] = {a}
          /\ phase[r] = "writing" => seen[r] = {a, b} /\ view[r][a] - x >= Minimum(a)

IsInterest(r) ==
    /\ kind[r] = "interest_run"
    /\ phase[r] = "writing"
    /\ seen[r] = Accounts
    /\ \E due \in SUBSET Accounts :
          /\ \A a \in due : InterestOn(a, view[r][a]) > 0
          /\ delta[r] = [a \in Accounts |->
                           IF a \in due THEN InterestOn(a, view[r][a]) ELSE 0]

IsClosed(r) ==
    /\ phase[r] \in {"idle", "answered"}
    /\ kind[r] = NoKind
    /\ seen[r] = {}
    /\ delta[r] = Zero

SessionOK(r) ==
    /\ IsTeller(r) \/ IsTransfer(r) \/ IsInterest(r) \/ IsClosed(r)
    /\ stale[r] \subseteq seen[r]
    /\ \A a \in seen[r] \ stale[r] : view[r][a] = balance[a]

SessionInv == \A r \in Requests : SessionOK(r)

\* A transfer changes its two accounts, and its sender is the one it debits.
LEMMA TransferTouches ==
    ASSUME NEW r \in Requests, NEW a \in Accounts, NEW b \in Accounts, NEW x \in Amounts,
           a # b, delta[r] = TransferDelta(a, b, x)
    PROVE  /\ Touched(r) = {a, b}
           /\ SenderOf(r) = a
           /\ delta[r][a] = -x
<1>0. x \in Nat /\ x > 0 /\ -x < 0 /\ ~ (x < 0) /\ ~ (0 < 0)
  BY AmountsAssumption
<1>1. \A c \in Accounts : delta[r][c] = IF c = a THEN -x ELSE IF c = b THEN x ELSE 0
  BY DEF TransferDelta
<1>2. Touched(r) = {a, b}
  BY <1>0, <1>1 DEF Touched
<1>3. ASSUME NEW c \in Accounts
      PROVE  delta[r][c] < 0 <=> c = a
  <2>1. CASE c = a
    BY <1>0, <1>1, <2>1
  <2>2. CASE c # a /\ c = b
    BY <1>0, <1>1, <2>2
  <2>3. CASE c # a /\ c # b
    BY <1>0, <1>1, <2>3
  <2> QED
    BY <2>1, <2>2, <2>3
<1>4. SenderOf(r) = a
  BY <1>3 DEF SenderOf
<1> QED
  BY <1>1, <1>2, <1>4

\* Every row a request is about to write is a row it has read.
LEMMA WritesWhatItRead ==
    ASSUME NEW r \in Requests, SessionOK(r), phase[r] = "writing"
    PROVE  Touched(r) \subseteq seen[r]
<1>1. CASE IsTeller(r)
  BY <1>1 DEF IsTeller, TellerDelta, Touched
<1>2. CASE IsTransfer(r)
  BY <1>2, TransferTouches DEF IsTransfer
<1>3. CASE IsInterest(r)
  BY <1>3 DEF IsInterest, Touched
<1> QED
  BY <1>1, <1>2, <1>3 DEF SessionOK, IsClosed

\* A step that leaves a session's own state and the balances alone keeps
\* SessionOK for it.
LEMMA SessionUntouched ==
    ASSUME NEW q \in Requests, SessionOK(q),
           phase'[q] = phase[q], kind'[q] = kind[q], seen'[q] = seen[q],
           stale'[q] = stale[q], view'[q] = view[q], delta'[q] = delta[q],
           balance' = balance
    PROVE  SessionOK(q)'
<1>1. IsTeller(q) => IsTeller(q)'
  BY DEF IsTeller
<1>2. IsTransfer(q) => IsTransfer(q)'
  BY DEF IsTransfer
<1>3. IsInterest(q) => IsInterest(q)'
  BY DEF IsInterest
<1>4. IsClosed(q) => IsClosed(q)'
  BY DEF IsClosed
<1> QED
  BY <1>1, <1>2, <1>3, <1>4 DEF SessionOK

\* A request that is answered closes its session.
LEMMA ClosedSession ==
    ASSUME TypeOK, NEW r \in Requests, NEW a, Finish(r, a), stale'[r] = {}
    PROVE  SessionOK(r)'
  BY DEF SessionOK, IsClosed, Finish, TypeOK

\* SessionInv is an invariant: a session's plan stays as it was computed
\* from its reads, and a read is current until a commit makes it stale.
THEOREM SessionInvariant == Spec => []SessionInv
<1> USE AmountsAssumption
<1>1. Init => SessionInv
  BY DEF Init, SessionInv, SessionOK, IsClosed
<1>2. TypeOK /\ SessionInv /\ [Next]_vars => SessionInv'
  <2> SUFFICES ASSUME TypeOK, SessionInv, [Next]_vars, NEW q \in Requests
               PROVE  SessionOK(q)'
    BY DEF SessionInv
  <2>0. SessionOK(q)
    BY DEF SessionInv
  <2>1. ASSUME NEW r \in Requests, Fail(r)
        PROVE  SessionOK(q)'
    <3>1. CASE q = r
      BY <2>1, <3>1, ClosedSession DEF Fail, TypeOK
    <3>2. CASE q # r
      BY <2>0, <2>1, <3>2, SessionUntouched DEF Fail, Finish, tables, TypeOK
    <3> QED
      BY <3>1, <3>2
  <2>2. ASSUME NEW r \in Requests, NEW a \in Accounts, NEW k \in TellerTypes \cap Operations,
               NEW x \in Amounts, PostLoad(r, a, k, x)
        PROVE  SessionOK(q)'
    <3>1. CASE q = r
      <4>1. /\ phase'[r] = "writing" /\ kind'[r] = k /\ seen'[r] = {a}
            /\ stale'[r] = {} /\ balance' = balance /\ delta'[r] = TellerDelta(a, k, x)
            /\ view'[r][a] = balance[a]
        BY <2>0, <2>2, <3>1 DEF PostLoad, Load, tables, TypeOK, SessionOK, IsTeller,
           IsTransfer, IsInterest, IsClosed
      <4>2. k \in DebitTypes => view'[r][a] - x >= Minimum(a)
        BY <2>2, <4>1 DEF PostLoad
      <4> QED
        BY <3>1, <4>1, <4>2 DEF SessionOK, IsTeller
    <3>2. CASE q # r
      BY <2>0, <2>2, <3>2, SessionUntouched DEF PostLoad, Load, tables, TypeOK
    <3> QED
      BY <3>1, <3>2
  <2>3. ASSUME NEW r \in Requests, NEW a \in Accounts, NEW b \in Accounts,
               NEW x \in Amounts, TransferLoadSender(r, a, b, x)
        PROVE  SessionOK(q)'
    <3>1. CASE q = r
      <4>1. /\ phase'[r] = "half" /\ kind'[r] = "transfer" /\ seen'[r] = {a}
            /\ stale'[r] = {} /\ balance' = balance /\ delta'[r] = TransferDelta(a, b, x)
            /\ view'[r][a] = balance[a] /\ a # b
        BY <2>0, <2>3, <3>1 DEF TransferLoadSender, Load, tables, TypeOK, SessionOK, IsTeller,
           IsTransfer, IsInterest, IsClosed
      <4> QED
        BY <3>1, <4>1 DEF SessionOK, IsTransfer
    <3>2. CASE q # r
      BY <2>0, <2>3, <3>2, SessionUntouched DEF TransferLoadSender, Load, tables, TypeOK
    <3> QED
      BY <3>1, <3>2
  <2>4. ASSUME NEW r \in Requests, InterestLoad(r)
        PROVE  SessionOK(q)'
    <3>1. CASE q = r
      <4>1. /\ phase'[r] = "writing" /\ kind'[r] = "interest_run" /\ seen'[r] = Accounts
            /\ stale'[r] = {} /\ balance' = balance
            /\ \A a \in Accounts : view'[r][a] = balance[a]
            /\ delta'[r] = [a \in Accounts |->
                              IF a \in InterestDue THEN InterestOn(a, balance[a]) ELSE 0]
        BY <2>0, <2>4, <3>1 DEF InterestLoad, Load, tables, TypeOK, SessionOK, IsTeller,
           IsTransfer, IsInterest, IsClosed
      <4>2. InterestDue \in SUBSET Accounts /\ \A a \in InterestDue : InterestOn(a, balance[a]) > 0
        BY DEF InterestDue
      <4>3. delta'[r] = [a \in Accounts |->
                          IF a \in InterestDue THEN InterestOn(a, view'[r][a]) ELSE 0]
        BY <4>1
      <4>4. \A a \in InterestDue : InterestOn(a, view'[r][a]) > 0
        BY <4>1, <4>2
      <4>5. IsInterest(r)'
        BY <4>1, <4>2, <4>3, <4>4 DEF IsInterest
      <4> QED
        BY <3>1, <4>1, <4>5 DEF SessionOK
    <3>2. CASE q # r
      BY <2>0, <2>4, <3>2, SessionUntouched DEF InterestLoad, Load, tables, TypeOK
    <3> QED
      BY <3>1, <3>2
  <2>5. ASSUME NEW r \in Requests, TransferLoadRecipient(r)
        PROVE  SessionOK(q)'
    <3>1. CASE q = r
      <4>1. IsTransfer(r)
        BY <2>0, <2>5, <3>1 DEF TransferLoadRecipient, SessionOK, IsTeller, IsInterest, IsClosed
      <4>2. PICK a \in Accounts, b \in Accounts, x \in Amounts :
              a # b /\ delta[r] = TransferDelta(a, b, x) /\ seen[r] = {a}
        BY <2>5, <4>1 DEF IsTransfer, TransferLoadRecipient
      <4>3. Touched(r) = {a, b} /\ view[r][a] - x >= Minimum(a)
        BY <2>5, <4>2, TransferTouches DEF TransferLoadRecipient, Affordable, TypeOK
      <4>4. /\ phase'[r] = "writing" /\ kind'[r] = "transfer" /\ seen'[r] = {a, b}
            /\ stale'[r] = stale[r] /\ balance' = balance /\ delta'[r] = delta[r]
            /\ view'[r][a] = view[r][a] /\ view'[r][b] = balance[b]
        BY <2>5, <4>1, <4>2, <4>3 DEF TransferLoadRecipient, tables, TypeOK, IsTransfer
      <4>5. IsTransfer(r)'
        BY <4>2, <4>3, <4>4 DEF IsTransfer, TransferDelta
      <4> QED
        BY <2>0, <3>1, <4>2, <4>4, <4>5 DEF SessionOK
    <3>2. CASE q # r
      BY <2>0, <2>5, <3>2, SessionUntouched DEF TransferLoadRecipient, tables, TypeOK
    <3> QED
      BY <3>1, <3>2
  <2>6. ASSUME NEW r \in Requests, NEW a \in Accounts, WriteRow(r, a)
        PROVE  SessionOK(q)'
    BY <2>0, <2>6, SessionUntouched DEF WriteRow, tables
  <2>7. ASSUME NEW r \in Requests, Commit(r)
        PROVE  SessionOK(q)'
    <3>1. CASE q = r
      <4>1. stale'[r] = {}
        BY <2>7 DEF Commit
      <4>2. Finish(r, "ok")
        BY <2>7 DEF Commit
      <4> QED
        BY <3>1, <4>1, <4>2, ClosedSession
    <3>2. CASE q # r
      <4>1. /\ phase'[q] = phase[q] /\ kind'[q] = kind[q] /\ seen'[q] = seen[q]
            /\ view'[q] = view[q] /\ delta'[q] = delta[q]
        BY <2>7, <3>2 DEF Commit, Finish, TypeOK
      <4>2. stale'[q] = stale[q] \cup (seen[q] \cap Touched(r))
        BY <2>7, <3>2 DEF Commit
      <4>3. \A a \in Accounts \ Touched(r) : balance'[a] = balance[a]
        BY <2>7 DEF Commit
      <4>4. \A a \in seen'[q] \ stale'[q] : view'[q][a] = balance'[a]
        BY <2>0, <4>1, <4>2, <4>3 DEF SessionOK, TypeOK
      <4>5. (IsTeller(q) \/ IsTransfer(q) \/ IsInterest(q) \/ IsClosed(q))'
        BY <2>0, <4>1 DEF SessionOK, IsTeller, IsTransfer, IsInterest, IsClosed
      <4>6. stale'[q] \subseteq seen'[q]
        BY <2>0, <4>1, <4>2 DEF SessionOK
      <4> QED
        BY <4>4, <4>5, <4>6 DEF SessionOK
    <3> QED
      BY <3>1, <3>2
  <2>8. ASSUME NEW r \in Requests, RetriedCommit(r)
        PROVE  SessionOK(q)'
    <3>1. CASE q = r
      BY <2>8, <3>1, ClosedSession DEF RetriedCommit, TypeOK
    <3>2. CASE q # r
      BY <2>0, <2>8, <3>2, SessionUntouched DEF RetriedCommit, Finish, tables, TypeOK
    <3> QED
      BY <3>1, <3>2
  <2>9. CASE MonthTurns
    BY <2>0, <2>9, SessionUntouched DEF MonthTurns, tables, sessions
  <2>10. CASE UNCHANGED vars
    BY <2>0, <2>10, SessionUntouched DEF vars, tables, sessions
  <2> QED
    BY <2>1, <2>2, <2>3, <2>4, <2>5, <2>6, <2>7, <2>8, <2>9, <2>10
       DEF Next, Arrive, Proceed, PostRefused, TransferRefused, FlushRefused, Abort, DeadlockVictim
<1> QED
  BY <1>1, <1>2, TypeCorrect, PTL DEF Spec

-----------------------------------------------------------------------------
(* No lost update on a serializable database.                              *)

\* A serializable commit adds the request's change to the balance as it is
\* at the commit, although it writes what it computed from its read.
LEMMA SerializableCommit ==
    ASSUME Isolation = "serializable", TypeOK, SessionInv, NEW r \in Requests, Commit(r)
    PROVE  /\ \A a \in Touched(r) : view[r][a] = balance[a]
           /\ balance' = [a \in Accounts |-> balance[a] + delta[r][a]]
           /\ rowSum' = [a \in Accounts |-> rowSum[a] + delta[r][a]]
<1>1. stale[r] = {} /\ phase[r] = "writing" /\ SessionOK(r)
  BY DEF Commit, Flushed, SessionInv
<1>2. \A a \in Touched(r) : view[r][a] = balance[a]
  BY <1>1, WritesWhatItRead DEF SessionOK
<1>3. \A a \in Accounts \ Touched(r) : delta[r][a] = 0
  BY DEF Touched
<1>4. balance' = [a \in Accounts |-> balance[a] + delta[r][a]]
  BY <1>2, <1>3 DEF Commit, TypeOK
<1> QED
  BY <1>2, <1>4 DEF Commit

\* Only a commit changes the tables.
LEMMA OnlyCommitWrites ==
    ASSUME [Next]_vars, \A r \in Requests : ~ Commit(r)
    PROVE  UNCHANGED tables
  BY ZenonT(40) DEF Next, Arrive, Proceed, PostLoad, PostRefused, TransferLoadSender, TransferLoadRecipient,
     TransferRefused, InterestLoad, WriteRow, FlushRefused, RetriedCommit, Abort, DeadlockVictim,
     Fail, MonthTurns, vars

\* On a serializable database the balance of every account is the sum of its
\* transaction rows, whatever requests run together and wherever they fail.
THEOREM NoLostUpdate ==
    ASSUME Isolation = "serializable"
    PROVE  Spec => []BalanceMatchesRows
<1>1. Init => BalanceMatchesRows
  BY DEF Init, BalanceMatchesRows
<1>2. TypeOK /\ SessionInv /\ BalanceMatchesRows /\ [Next]_vars => BalanceMatchesRows'
  <2> SUFFICES ASSUME TypeOK, SessionInv, BalanceMatchesRows, [Next]_vars
               PROVE  BalanceMatchesRows'
    OBVIOUS
  <2>1. ASSUME NEW r \in Requests, Commit(r)
        PROVE  BalanceMatchesRows'
    BY <2>1, SerializableCommit DEF BalanceMatchesRows, TypeOK
  <2>2. CASE \A r \in Requests : ~ Commit(r)
    BY <2>2, OnlyCommitWrites DEF BalanceMatchesRows, tables
  <2> QED
    BY <2>1, <2>2
<1> QED
  BY <1>1, <1>2, TypeCorrect, SessionInvariant, PTL DEF Spec

-----------------------------------------------------------------------------
(* Minimum balances, on any database.                                      *)

\* What every balance, and every balance a session has read, satisfies.
KeepsMinimum ==
    /\ MinimumBalanceKept
    /\ \A r \in Requests : \A a \in seen[r] :
          Opening[a] >= Minimum(a) => view[r][a] >= Minimum(a)

\* The balance that a commit writes was checked against the minimum.
LEMMA CommitKeepsMinimum ==
    ASSUME TypeOK, SessionInv, KeepsMinimum, NEW r \in Requests, phase[r] = "writing",
           NEW a \in Touched(r), Opening[a] >= Minimum(a)
    PROVE  view[r][a] + delta[r][a] >= Minimum(a)
<1> USE AmountsAssumption, MinimumIsNat
<1>1. SessionOK(r) /\ a \in Accounts /\ a \in seen[r]
  BY WritesWhatItRead DEF SessionInv, Touched
<1>2. view[r][a] >= Minimum(a) /\ view[r][a] \in Int /\ Minimum(a) \in Int
  BY <1>1 DEF KeepsMinimum, TypeOK
<1>3. CASE IsTeller(r)
  <2>1. PICK b \in Accounts, x \in Amounts :
          /\ delta[r] = TellerDelta(b, kind[r], x)
          /\ kind[r] \in DebitTypes => view[r][b] - x >= Minimum(b)
    BY <1>3 DEF IsTeller
  <2>2. a = b
    BY <2>1 DEF Touched, TellerDelta
  <2>3. CASE kind[r] \in CreditTypes
    BY <1>1, <1>2, <2>1, <2>2, <2>3 DEF TellerDelta
  <2>4. CASE kind[r] \notin CreditTypes
    BY <1>1, <1>2, <1>3, <2>1, <2>2, <2>4 DEF TellerDelta, IsTeller, TellerTypes
  <2> QED
    BY <2>3, <2>4
<1>4. CASE IsTransfer(r)
  <2>1. PICK b \in Accounts, c \in Accounts, x \in Amounts :
          /\ b # c
          /\ delta[r] = TransferDelta(b, c, x)
          /\ view[r][b] - x >= Minimum(b)
    BY <1>4 DEF IsTransfer
  <2>2. Touched(r) = {b, c}
    BY <2>1, TransferTouches
  <2>3. CASE a = b
    BY <1>2, <2>1, <2>3, TransferTouches
  <2>4. CASE a = c
    <3>1. delta[r][c] = x
      BY <2>1 DEF TransferDelta
    <3> QED
      BY <1>2, <2>4, <3>1
  <2> QED
    BY <2>2, <2>3, <2>4
<1>5. CASE IsInterest(r)
  <2>1. delta[r][a] \in Int /\ delta[r][a] > 0
    BY <1>1, <1>5 DEF IsInterest, Touched, TypeOK
  <2> QED
    BY <1>2, <2>1
<1>6. ~ IsClosed(r)
  BY DEF IsClosed
<1> QED
  BY <1>1, <1>3, <1>4, <1>5, <1>6 DEF SessionOK

\* Whatever the isolation level, no interleaving of debits, transfers and
\* interest runs takes an account below its product's minimum balance: a
\* stale read loses a row's effect, but what is written passed the check.
THEOREM MinimumNeverBreached == Spec => []MinimumBalanceKept
<1>1. Init => KeepsMinimum
  BY DEF Init, KeepsMinimum, MinimumBalanceKept
<1>2. TypeOK /\ SessionInv /\ KeepsMinimum /\ [Next]_vars => KeepsMinimum'
  <2> SUFFICES ASSUME TypeOK, SessionInv, KeepsMinimum, [Next]_vars
               PROVE  KeepsMinimum'
    OBVIOUS
  <2>1. MinimumBalanceKept'
    <3>1. ASSUME NEW r \in Requests, Commit(r)
          PROVE  MinimumBalanceKept'
      <4>1. phase[r] = "writing"
        BY <3>1 DEF Commit, Flushed
      <4>2. ASSUME NEW a \in Accounts, Opening[a] >= Minimum(a)
            PROVE  balance'[a] >= Minimum(a)
        BY <3>1, <4>1, <4>2, CommitKeepsMinimum DEF Commit, KeepsMinimum, MinimumBalanceKept
      <4> QED
        BY <4>2 DEF Minimum, MinimumBalanceKept
    <3>2. CASE \A r \in Requests : ~ Commit(r)
      BY <3>2, OnlyCommitWrites DEF KeepsMinimum, tables, Minimum, MinimumBalanceKept
    <3> QED
      BY <3>1, <3>2
  <2>2. ASSUME NEW q \in Requests, NEW a \in seen'[q], Opening[a] >= Minimum(a)
        PROVE  view'[q][a] >= Minimum(a)
    <3>1. \/ a \in seen[q] /\ view'[q][a] = view[q][a]
          \/ a \in Accounts /\ view'[q][a] = balance[a]
      <4> USE DEF TypeOK
      <4>1. ASSUME NEW r \in Requests, NEW e, Finish(r, e)
            PROVE  a \in seen[q] /\ view'[q][a] = view[q][a]
        BY <4>1, <2>2 DEF Finish
      <4>2. ASSUME NEW r \in Requests, NEW k, NEW S \in SUBSET Accounts, NEW d, NEW ph,
                   Load(r, k, S, d, ph)
            PROVE  \/ a \in seen[q] /\ view'[q][a] = view[q][a]
                   \/ a \in Accounts /\ view'[q][a] = balance[a]
        BY <4>2, <2>2 DEF Load
      <4>3. ASSUME NEW r \in Requests, TransferLoadRecipient(r)
            PROVE  \/ a \in seen[q] /\ view'[q][a] = view[q][a]
                   \/ a \in Accounts /\ view'[q][a] = balance[a]
        BY <4>3, <2>2 DEF TransferLoadRecipient, Touched
      <4>4. CASE UNCHANGED <<seen, view>>
        BY <4>4, <2>2
      <4>5. ASSUME NEW r \in Requests, Arrive(r)
            PROVE  \/ \E k, d, ph : \E S \in SUBSET Accounts : Load(r, k, S, d, ph)
                   \/ Fail(r)
        <5>1. ASSUME NEW b \in Accounts, NEW k, NEW x, PostLoad(r, b, k, x)
              PROVE  \E kk, d, ph : \E S \in SUBSET Accounts : Load(r, kk, S, d, ph)
          BY <5>1 DEF PostLoad
        <5>2. ASSUME NEW b \in Accounts, NEW c, NEW x, TransferLoadSender(r, b, c, x)
              PROVE  \E kk, d, ph : \E S \in SUBSET Accounts : Load(r, kk, S, d, ph)
          BY <5>2 DEF TransferLoadSender
        <5>3. ASSUME InterestLoad(r)
              PROVE  \E kk, d, ph : \E S \in SUBSET Accounts : Load(r, kk, S, d, ph)
          BY <5>3 DEF InterestLoad
        <5> QED
          BY <4>5, <5>1, <5>2, <5>3 DEF Arrive, PostRefused
      <4> QED
        BY <4>1, <4>2, <4>3, <4>4, <4>5
           DEF Next, Proceed, Abort, TransferRefused, FlushRefused, RetriedCommit,
               DeadlockVictim, Commit, WriteRow, Fail, MonthTurns, vars, sessions
    <3> QED
      BY <2>2, <3>1 DEF KeepsMinimum, MinimumBalanceKept
  <2> QED
    BY <2>1, <2>2 DEF KeepsMinimum, Minimum
<1>3. KeepsMinimum => MinimumBalanceKept
  BY DEF KeepsMinimum
<1> QED
  BY <1>1, <1>2, <1>3, TypeCorrect, SessionInvariant, PTL DEF Spec

-----------------------------------------------------------------------------
(* One interest payment a month.                                           *)

\* An account paid for a month carries a stamp of that month or a later
\* one, and a run only plans to pay accounts stamped before its month.
InterestInv ==
    /\ \A a \in Accounts : lastInterest[a] <= utcMonth
    /\ \A a \in Accounts, m \in Months :
          /\ interestRows[a][m] <= 1
          /\ interestRows[a][m] = 1 => m <= lastInterest[a]
    /\ \A r \in Requests : kind[r] = "interest_run" =>
          /\ clock[r].asOf = clock[r].stamp
          /\ clock[r].stamp <= utcMonth
          /\ \A a \in Touched(r) \ stale[r] : lastInterest[a] < clock[r].asOf

\* On a serializable database whose server's clock shows UTC, an account is
\* paid interest at most once for a month, however the runs overlap.
THEOREM InterestPaidOnce ==
    ASSUME Isolation = "serializable", ServerIsUtc
    PROVE  Spec => []InterestOncePerMonth
<1> USE CalendarAssumption
<1>1. Init => InterestInv
  BY DEF Init, InterestInv, Never, Months, NoKind
<1>2. TypeOK /\ Calendar /\ SessionInv /\ InterestInv /\ [Next]_vars => InterestInv'
  <2> SUFFICES ASSUME TypeOK, Calendar, SessionInv, InterestInv, [Next]_vars
               PROVE  InterestInv'
    OBVIOUS
  <2> USE DEF Months, Never
  <2>0. utcMonth <= utcMonth' /\ utcMonth' \in Int
    <3>1. CASE MonthTurns
      BY <3>1 DEF MonthTurns, TypeOK
    <3>2. CASE UNCHANGED months
      BY <3>2 DEF months, TypeOK
    <3> QED
      BY <3>1, <3>2, ZenonT(40) DEF Next, Arrive, Proceed, PostLoad, PostRefused, TransferLoadSender,
         TransferLoadRecipient, TransferRefused, InterestLoad, WriteRow, FlushRefused, Commit,
         RetriedCommit, Abort, DeadlockVictim, Fail, vars
  <2>1. ASSUME NEW r \in Requests, Commit(r)
        PROVE  InterestInv'
    <3>1. utcMonth' = utcMonth /\ stale[r] = {}
      BY <2>1 DEF Commit, months
    <3>2. CASE kind[r] # "interest_run"
      <4>1. UNCHANGED <<lastInterest, interestRows>>
        BY <2>1, <3>2 DEF Commit
      <4>2. \A q \in Requests : kind'[q] = "interest_run" =>
              /\ kind[q] = "interest_run" /\ clock'[q] = clock[q] /\ delta'[q] = delta[q]
              /\ stale[q] \subseteq stale'[q]
        BY <2>1, <3>2 DEF Commit, Finish, TypeOK, NoKind
      <4> QED
        BY <3>1, <4>1, <4>2 DEF InterestInv, Touched
    <3>3. CASE kind[r] = "interest_run"
      <4>1. PICK m \in clock[r].stamp .. utcMonth :
              lastInterest' = [a \in Accounts |-> IF a \in Touched(r) THEN m ELSE lastInterest[a]]
        BY <2>1, <3>3 DEF Commit
      <4>2. interestRows' = [a \in Accounts |->
              IF a \in Touched(r) THEN [interestRows[a] EXCEPT ![clock[r].asOf] = @ + 1]
                                  ELSE interestRows[a]]
        BY <2>1, <3>3 DEF Commit
      <4>3. clock[r].asOf = clock[r].stamp /\ clock[r].asOf \in Months /\ m \in Int
            /\ clock[r].asOf <= m /\ m <= utcMonth /\ utcMonth \in Int
        BY <3>3, <4>1 DEF InterestInv, TypeOK
      <4>4. \A a \in Touched(r) : lastInterest[a] < clock[r].asOf
        BY <3>1, <3>3 DEF InterestInv
      <4>5. ASSUME NEW a \in Accounts
            PROVE  lastInterest'[a] <= utcMonth'
        BY <3>1, <4>1, <4>3 DEF InterestInv
      <4>6. ASSUME NEW a \in Accounts, NEW n \in Months
            PROVE  /\ interestRows'[a][n] <= 1
                   /\ interestRows'[a][n] = 1 => n <= lastInterest'[a]
        <5>0. interestRows[a][n] \in Nat /\ lastInterest[a] \in Int /\ n \in Int
          BY DEF TypeOK
        <5>1. CASE a \notin Touched(r)
          BY <4>1, <4>2, <5>1 DEF InterestInv
        <5>2. CASE a \in Touched(r) /\ n = clock[r].asOf
          <6>1. interestRows[a][n] = 0
            BY <4>3, <4>4, <5>0, <5>2 DEF InterestInv
          <6>2. interestRows'[a][n] = 1 /\ lastInterest'[a] = m
            BY <4>1, <4>2, <5>2, <6>1 DEF TypeOK
          <6> QED
            BY <4>3, <5>2, <6>2
        <5>3. CASE a \in Touched(r) /\ n # clock[r].asOf
          <6>1. interestRows'[a][n] = interestRows[a][n] /\ lastInterest'[a] = m
            BY <4>1, <4>2, <5>3 DEF TypeOK
          <6>2. lastInterest[a] < m
            BY <4>3, <4>4, <5>0, <5>3
          <6> QED
            BY <4>3, <5>0, <6>1, <6>2 DEF InterestInv
        <5> QED
          BY <5>1, <5>2, <5>3
      <4>7. ASSUME NEW q \in Requests, kind'[q] = "interest_run"
            PROVE  /\ clock'[q].asOf = clock'[q].stamp
                   /\ clock'[q].stamp <= utcMonth'
                   /\ \A a \in Touched(q)' \ stale'[q] : lastInterest'[a] < clock'[q].asOf
        <5>1. /\ q # r /\ kind[q] = "interest_run" /\ clock'[q] = clock[q]
              /\ delta'[q] = delta[q] /\ seen[q] = Accounts
              /\ stale'[q] = stale[q] \cup (seen[q] \cap Touched(r))
          <6>1. q # r
            BY <2>1, <4>7 DEF Commit, Finish, TypeOK, NoKind
          <6>2. /\ kind[q] = "interest_run" /\ clock'[q] = clock[q] /\ delta'[q] = delta[q]
                /\ stale'[q] = stale[q] \cup (seen[q] \cap Touched(r))
            BY <2>1, <4>7, <6>1 DEF Commit, Finish, TypeOK
          <6>3. seen[q] = Accounts
            <7>1. SessionOK(q)
              BY DEF SessionInv
            <7> QED
              BY <6>2, <7>1 DEF SessionOK, IsTeller, IsTransfer, IsInterest, IsClosed,
                 TellerTypes, CreditTypes, DebitTypes, NoKind
          <6> QED
            BY <6>1, <6>2, <6>3
        <5>2. \A a \in Touched(q)' \ stale'[q] : a \in Touched(q) \ stale[q]
          BY <5>1 DEF Touched
        <5>3. \A a \in Touched(q)' \ stale'[q] : lastInterest'[a] = lastInterest[a]
          BY <4>1, <5>1 DEF Touched
        <5> QED
          BY <3>1, <5>1, <5>2, <5>3 DEF InterestInv
      <4> QED
        BY <4>5, <4>6, <4>7 DEF InterestInv
    <3> QED
      BY <3>2, <3>3
  <2>2. CASE \A r \in Requests : ~ Commit(r)
    <3>1. UNCHANGED <<lastInterest, interestRows>>
      BY <2>2, OnlyCommitWrites DEF tables
    <3>2. ASSUME NEW q \in Requests, kind'[q] = "interest_run"
          PROVE  \/ /\ kind[q] = "interest_run" /\ clock'[q] = clock[q]
                    /\ delta'[q] = delta[q] /\ stale[q] \subseteq stale'[q]
                 \/ /\ clock'[q] = [asOf |-> localMonth, stamp |-> utcMonth]
                    /\ \A a \in Touched(q)' : a \in InterestDue
      <4> USE DEF TypeOK
      <4>1. ASSUME NEW r \in Requests, Arrive(r)
            PROVE  \/ Fail(r)
                   \/ InterestLoad(r)
                   \/ /\ UNCHANGED <<clock, stale>>
                      /\ \E k \in Kinds \ {"interest_run"} : \E S, d, ph : Load(r, k, S, d, ph)
        <5>1. ASSUME NEW b \in Accounts, NEW k \in TellerTypes \cap Operations, NEW x,
                     PostLoad(r, b, k, x)
              PROVE  /\ UNCHANGED <<clock, stale>>
                     /\ \E kk \in Kinds \ {"interest_run"} : \E S, d, ph : Load(r, kk, S, d, ph)
          <6>1. k \in Kinds \ {"interest_run"}
            BY DEF Kinds, TellerTypes, CreditTypes, DebitTypes
          <6> QED
            BY <5>1, <6>1 DEF PostLoad
        <5>2. ASSUME NEW b \in Accounts, NEW c, NEW x, TransferLoadSender(r, b, c, x)
              PROVE  /\ UNCHANGED <<clock, stale>>
                     /\ \E kk \in Kinds \ {"interest_run"} : \E S, d, ph : Load(r, kk, S, d, ph)
          <6>1. "transfer" \in Kinds \ {"interest_run"}
            BY DEF Kinds
          <6> QED
            BY <5>2, <6>1 DEF TransferLoadSender
        <5> QED
          BY <4>1, <5>1, <5>2 DEF Arrive, PostRefused
      <4>2. ASSUME NEW r \in Requests, NEW e, Finish(r, e), \A p \in Requests \ {r} : stale'[p] = stale[p]
            PROVE  /\ kind[q] = "interest_run" /\ clock'[q] = clock[q]
                   /\ delta'[q] = delta[q] /\ stale[q] \subseteq stale'[q]
        BY <4>2, <3>2 DEF Finish, NoKind
      <4>3. ASSUME NEW r \in Requests, InterestLoad(r)
            PROVE  \/ /\ kind[q] = "interest_run" /\ clock'[q] = clock[q]
                      /\ delta'[q] = delta[q] /\ stale[q] \subseteq stale'[q]
                   \/ /\ clock'[q] = [asOf |-> localMonth, stamp |-> utcMonth]
                      /\ \A a \in Touched(q)' : a \in InterestDue
        <5>1. CASE q = r
          BY <4>3, <5>1 DEF InterestLoad, Load, Touched
        <5>2. CASE q # r
          BY <4>3, <5>2, <3>2 DEF InterestLoad, Load
        <5> QED
          BY <5>1, <5>2
      <4>4. ASSUME NEW r \in Requests, UNCHANGED <<clock, stale>>,
                   NEW k \in Kinds \ {"interest_run"}, NEW S, NEW d, NEW ph, Load(r, k, S, d, ph)
            PROVE  /\ kind[q] = "interest_run" /\ clock'[q] = clock[q]
                   /\ delta'[q] = delta[q] /\ stale[q] \subseteq stale'[q]
        BY <4>4, <3>2 DEF Load
      <4>5. CASE UNCHANGED <<kind, clock, delta, stale>>
        BY <4>5, <3>2
      <4>6. ASSUME NEW r \in Requests, Fail(r)
            PROVE  /\ kind[q] = "interest_run" /\ clock'[q] = clock[q]
                   /\ delta'[q] = delta[q] /\ stale[q] \subseteq stale'[q]
        BY <4>6, <4>2 DEF Fail
      <4>7. ASSUME NEW r \in Requests, RetriedCommit(r)
            PROVE  /\ kind[q] = "interest_run" /\ clock'[q] = clock[q]
                   /\ delta'[q] = delta[q] /\ stale[q] \subseteq stale'[q]
        BY <4>7, <4>2 DEF RetriedCommit
      <4> QED
        BY <2>2, <4>1, <4>3, <4>4, <4>5, <4>6, <4>7
           DEF Next, Proceed, Abort, TransferRefused, FlushRefused, TransferLoadRecipient,
               DeadlockVictim, WriteRow, MonthTurns, vars, sessions
    <3>3. \A q \in Requests : kind'[q] = "interest_run" =>
            /\ clock'[q].asOf = clock'[q].stamp
            /\ clock'[q].stamp <= utcMonth'
            /\ \A a \in Touched(q)' \ stale'[q] : lastInterest'[a] < clock'[q].asOf
      <4> SUFFICES ASSUME NEW q \in Requests, kind'[q] = "interest_run"
                   PROVE  /\ clock'[q].asOf = clock'[q].stamp
                          /\ clock'[q].stamp <= utcMonth'
                          /\ \A a \in Touched(q)' \ stale'[q] : lastInterest'[a] < clock'[q].asOf
        OBVIOUS
      <4>1. CASE /\ kind[q] = "interest_run" /\ clock'[q] = clock[q]
                 /\ delta'[q] = delta[q] /\ stale[q] \subseteq stale'[q]
        BY <2>0, <3>1, <4>1 DEF InterestInv, Touched, TypeOK
      <4>2. CASE /\ clock'[q] = [asOf |-> localMonth, stamp |-> utcMonth]
                 /\ \A a \in Touched(q)' : a \in InterestDue
        <5>1. \A a \in InterestDue : a \in Accounts /\ lastInterest[a] # localMonth
          BY DEF InterestDue
        <5>2. \A a \in InterestDue : lastInterest[a] < localMonth
          <6>1. \A a \in Accounts : lastInterest[a] \in Int /\ lastInterest[a] <= utcMonth
            BY DEF InterestInv, TypeOK
          <6>2. utcMonth \in Int /\ localMonth \in Int /\ utcMonth <= localMonth
            BY DEF Calendar, TypeOK
          <6> QED
            BY <5>1, <6>1, <6>2
        <5> QED
          BY <2>0, <3>1, <4>2, <5>2 DEF Calendar, TypeOK
      <4> QED
        BY <3>2, <4>1, <4>2
    <3>4. \A a \in Accounts : lastInterest'[a] <= utcMonth'
      <4>1. \A a \in Accounts : lastInterest[a] \in Int /\ lastInterest[a] <= utcMonth
        BY DEF InterestInv, TypeOK
      <4>2. utcMonth \in Int
        BY DEF TypeOK
      <4> QED
        BY <2>0, <3>1, <4>1, <4>2
    <3> QED
      BY <3>1, <3>3, <3>4 DEF InterestInv
  <2> QED
    BY <2>1, <2>2
<1>3. InterestInv => InterestOncePerMonth
  BY DEF InterestInv, InterestOncePerMonth
<1> QED
  BY <1>1, <1>2, <1>3, TypeCorrect, SessionInvariant, PTL DEF Spec

-----------------------------------------------------------------------------
(* The refinement: on a serializable database a commit is one operation of *)
(* AtomicSavings and every other step is a stuttering step.                *)

\* A commit on a serializable database is the operation, all at once.
LEMMA CommitIsAtomic ==
    ASSUME Isolation = "serializable", TypeOK, SessionInv, NEW r \in Requests, Commit(r)
    PROVE  Atomic!Next
<1> USE AmountsAssumption, MinimumIsNat
<1>1. SessionOK(r) /\ phase[r] = "writing"
  BY DEF SessionInv, Commit, Flushed
<1>2. /\ \A a \in Touched(r) : view[r][a] = balance[a]
      /\ balance' = [a \in Accounts |-> balance[a] + delta[r][a]]
      /\ rowSum' = [a \in Accounts |-> rowSum[a] + delta[r][a]]
  BY SerializableCommit
<1>3. Atomic!Record(delta[r])
  BY <1>2 DEF Atomic!Record
<1>4. CASE IsTeller(r)
  <2>1. PICK a \in Accounts, x \in Amounts :
          /\ delta[r] = TellerDelta(a, kind[r], x)
          /\ kind[r] \in DebitTypes => view[r][a] - x >= Minimum(a)
    BY <1>4 DEF IsTeller
  <2>2. CASE kind[r] \in CreditTypes
    <3>1. delta[r] = Atomic!Only(a, x)
      BY <2>1, <2>2 DEF TellerDelta, Atomic!Only
    <3>2. Atomic!Credit(a, x)
      BY <1>3, <3>1 DEF Atomic!Credit
    <3> QED
      BY <3>2 DEF Atomic!Next
  <2>3. CASE kind[r] \notin CreditTypes
    <3>1. delta[r] = Atomic!Only(a, -x)
      BY <2>1, <2>3 DEF TellerDelta, Atomic!Only
    <3>2. a \in Touched(r)
      BY <2>1, <2>3 DEF TellerDelta, Touched
    <3>3. balance[a] - x >= Minimum(a)
      BY <1>2, <1>4, <2>1, <2>3, <3>2 DEF IsTeller, TellerTypes
    <3>4. Atomic!Debit(a, x)
      BY <1>3, <3>1, <3>3 DEF Atomic!Debit
    <3> QED
      BY <3>4 DEF Atomic!Next
  <2> QED
    BY <2>2, <2>3
<1>5. CASE IsTransfer(r)
  <2>1. PICK a \in Accounts, b \in Accounts, x \in Amounts :
          a # b /\ delta[r] = TransferDelta(a, b, x) /\ view[r][a] - x >= Minimum(a)
    BY <1>1, <1>5 DEF IsTransfer
  <2>2. a \in Touched(r)
    BY <2>1, TransferTouches
  <2>3. Atomic!Transfer(a, b, x)
    BY <1>2, <1>3, <2>1, <2>2 DEF Atomic!Transfer, TransferDelta
  <2> QED
    BY <2>3 DEF Atomic!Next
<1>6. CASE IsInterest(r)
  <2>1. PICK due \in SUBSET Accounts :
          /\ \A a \in due : InterestOn(a, view[r][a]) > 0
          /\ delta[r] = [a \in Accounts |-> IF a \in due THEN InterestOn(a, view[r][a]) ELSE 0]
    BY <1>6 DEF IsInterest
  <2>2. ASSUME NEW a \in due
        PROVE  a \in Touched(r)
    <3>1. delta[r][a] = InterestOn(a, view[r][a]) /\ InterestOn(a, view[r][a]) > 0
      BY <2>1, <2>2
    <3>2. delta[r][a] \in Int
      BY <2>2 DEF TypeOK
    <3> QED
      BY <2>2, <3>1, <3>2 DEF Touched
  <2>3. \A a \in due : view[r][a] = balance[a]
    BY <1>2, <2>2
  <2>4. delta[r] = [a \in Accounts |-> IF a \in due THEN InterestOn(a, balance[a]) ELSE 0]
    BY <2>1, <2>3
  <2>5. Atomic!PayInterest(due)
    BY <1>3, <2>4 DEF Atomic!PayInterest
  <2> QED
    BY <2>5 DEF Atomic!Next
<1> QED
  BY <1>1, <1>4, <1>5, <1>6 DEF SessionOK, IsClosed

\* On a serializable database the concurrent sessions implement the atomic
\* savings operations.
THEOREM SessionsAreAtomic ==
    ASSUME Isolation = "serializable"
    PROVE  Spec => AtomicSpec
<1>1. Init => Atomic!Init
  BY DEF Init, Atomic!Init
<1>2. TypeOK /\ SessionInv /\ [Next]_vars => [Atomic!Next]_<<balance, rowSum>>
  <2> SUFFICES ASSUME TypeOK, SessionInv, [Next]_vars
               PROVE  [Atomic!Next]_<<balance, rowSum>>
    OBVIOUS
  <2>1. CASE \E r \in Requests : Commit(r)
    BY <2>1, CommitIsAtomic
  <2>2. CASE \A r \in Requests : ~ Commit(r)
    BY <2>2, OnlyCommitWrites DEF tables
  <2> QED
    BY <2>1, <2>2
<1> QED
  BY <1>1, <1>2, TypeCorrect, SessionInvariant, PTL DEF Spec, AtomicSpec, Atomic!Spec

-----------------------------------------------------------------------------
(* What an answer is worth                                                 *)

\* A session only does what this instance lets it do.
KindsEnabled == \A r \in Requests : kind[r] \in Operations \cup {NoKind}

\* Sessions only begin operations that the instance has.
LEMMA KindsStep ==
    ASSUME TypeOK, KindsEnabled, [Next]_vars
    PROVE  KindsEnabled'
<1> USE DEF KindsEnabled, TypeOK
<1>1. ASSUME NEW r \in Requests, NEW a, Finish(r, a)
      PROVE  KindsEnabled'
  BY <1>1 DEF Finish
<1>2. ASSUME NEW r \in Requests, NEW k \in Operations, NEW S, NEW d, NEW ph, Load(r, k, S, d, ph)
      PROVE  KindsEnabled'
  BY <1>2 DEF Load
<1>3. ASSUME NEW r \in Requests, Arrive(r)
      PROVE  KindsEnabled'
  BY <1>1, <1>2, <1>3 DEF Arrive, PostLoad, PostRefused, Fail, TransferLoadSender, InterestLoad
<1>4. ASSUME NEW r \in Requests, Proceed(r) \/ Abort(r)
      PROVE  KindsEnabled'
  BY <1>1, <1>4 DEF Proceed, TransferLoadRecipient, TransferRefused, WriteRow, FlushRefused,
                    Commit, RetriedCommit, DeadlockVictim, Abort, Fail
<1>5. CASE MonthTurns \/ UNCHANGED vars
  BY <1>5 DEF MonthTurns, vars, sessions
<1> QED
  BY <1>3, <1>4, <1>5 DEF Next

\* A request that runs has a kind.
LEMMA WritersHaveAKind ==
    ASSUME SessionInv, KindsEnabled, NEW r \in Requests, phase[r] = "writing"
    PROVE  kind[r] \in Operations /\ kind[r] # NoKind
  BY DEF SessionInv, SessionOK, IsTeller, IsTransfer, IsInterest, IsClosed, KindsEnabled, NoKind,
         TellerTypes, CreditTypes, DebitTypes

\* Where no commit is ever refused (READ COMMITTED), or where only the counter
\* works, whose handlers refresh the row they wrote: a request answered "ok"
\* has its rows in the database.
THEOREM AcknowledgedStays ==
    ASSUME Isolation = "read_committed" \/ Operations \subseteq TellerTypes
    PROVE  Spec => []AcknowledgedIsDurable
<1>1. Init => KindsEnabled /\ AcknowledgedIsDurable
  BY DEF Init, KindsEnabled, AcknowledgedIsDurable
<1>2. TypeOK /\ SessionInv /\ KindsEnabled /\ AcknowledgedIsDurable /\ [Next]_vars
        => (KindsEnabled /\ AcknowledgedIsDurable)'
  <2> SUFFICES ASSUME TypeOK, SessionInv, KindsEnabled, AcknowledgedIsDurable, [Next]_vars
               PROVE  AcknowledgedIsDurable'
    BY KindsStep
  <2> USE DEF AcknowledgedIsDurable, TypeOK
  <2>1. ASSUME NEW r \in Requests, Fail(r)
        PROVE  AcknowledgedIsDurable'
    BY <2>1 DEF Fail, Finish
  <2>2. ASSUME NEW r \in Requests, Commit(r)
        PROVE  AcknowledgedIsDurable'
    BY <2>2 DEF Commit, Finish
  <2>3. ASSUME NEW r \in Requests, RetriedCommit(r)
        PROVE  AcknowledgedIsDurable'
    <3>1. kind[r] \in TellerTypes
      BY <2>3, WritersHaveAKind DEF RetriedCommit, Flushed
    <3> QED
      BY <2>3, <3>1 DEF RetriedCommit, Finish
  <2>4. ASSUME NEW r \in Requests, Arrive(r) \/ Proceed(r) \/ Abort(r),
               ~ Fail(r), ~ Commit(r), ~ RetriedCommit(r)
        PROVE  UNCHANGED <<answer, durable>>
    BY <2>4 DEF Arrive, Proceed, Abort, PostLoad, PostRefused, TransferLoadSender, InterestLoad,
                TransferLoadRecipient, TransferRefused, WriteRow, FlushRefused, DeadlockVictim
  <2>5. CASE MonthTurns \/ UNCHANGED vars
    BY <2>5 DEF MonthTurns, vars, sessions
  <2> QED
    BY <2>1, <2>2, <2>3, <2>4, <2>5 DEF Next
<1> QED
  BY <1>1, <1>2, TypeCorrect, SessionInvariant, PTL DEF Spec

-----------------------------------------------------------------------------
(* The liability accounts                                                  *)

\* The kinds whose rows post_savings_transaction_gl posts.
PostedKinds == {"deposit", "withdrawal", "interest_posting", "interest_run"}

\* What is moved from one element to another leaves the sum as it was.
LEMMA MovedWithin ==
    ASSUME NEW S, IsFiniteSet(S), NEW f, NEW g, NEW a \in S, NEW b \in S, a # b, NEW x \in Int,
           \A y \in S : f[y] \in Int,
           \A y \in S : g[y] = f[y] + (IF y = a THEN -x ELSE IF y = b THEN x ELSE 0)
    PROVE  SumFunctionOnSet(g, S) = SumFunctionOnSet(f, S)
<1> DEFINE h == [y \in S |-> IF y = a THEN f[y] - x ELSE f[y]]
<1>1. /\ \A y \in S : h[y] \in Int /\ g[y] \in Int
      /\ h[a] = f[a] - x /\ \A y \in S \ {a} : f[y] = h[y]
      /\ h[b] = f[b] /\ g[b] = f[b] + x /\ \A y \in S \ {b} : h[y] = g[y]
  OBVIOUS
<1> HIDE DEF h
<1>2. SumFunctionOnSet(h, S) = SumFunctionOnSet(f, S) + h[a] - f[a]
  BY <1>1, SumChange
<1>3. SumFunctionOnSet(g, S) = SumFunctionOnSet(h, S) + g[b] - h[b]
  BY <1>1, SumChange
<1>4. SumFunctionOnSet(f, S) \in Int /\ f[a] \in Int /\ f[b] \in Int
  BY SumTerms
<1> QED
  BY <1>1, <1>2, <1>3, <1>4

\* A commit of a posted kind moves the liability by what it moves the rows,
\* and a transfer moves neither within its product.
LEMMA LiabilityCommit ==
    ASSUME IsFiniteSet(Accounts), Operations \subseteq PostedKinds \cup {"transfer"},
           "transfer" \in Operations => \A a, b \in Accounts : ProductOf[a] = ProductOf[b],
           TypeOK, SessionInv, KindsEnabled, LiabilityMatchesRows,
           NEW r \in Requests, Commit(r), NEW p \in GlConfigured
    PROVE  LET ofProduct == {a \in Accounts : ProductOf[a] = p}
           IN  SumFunctionOnSet(glCredit', ofProduct) = SumFunctionOnSet(rowSum', ofProduct)
<1> DEFINE S == {a \in Accounts : ProductOf[a] = p}
           d == delta[r]
<1>1. SUFFICES SumFunctionOnSet(glCredit', S) = SumFunctionOnSet(rowSum', S)
  OBVIOUS
<1>2. /\ IsFiniteSet(S) /\ \A a \in S : a \in Accounts /\ ProductOf[a] = p
      /\ SumFunctionOnSet(glCredit, S) = SumFunctionOnSet(rowSum, S)
  BY FS_Subset DEF LiabilityMatchesRows
<1>3. /\ \A a \in S : glCredit[a] \in Int /\ rowSum[a] \in Int /\ d[a] \in Int
      /\ \A a \in S : rowSum'[a] = rowSum[a] + d[a]
      /\ \A a \in S : glCredit'[a] = IF PostsToGl(kind[r], a) THEN glCredit[a] + d[a] ELSE glCredit[a]
  BY <1>2 DEF Commit, TypeOK
<1>4. phase[r] = "writing" /\ SessionOK(r) /\ kind[r] \in Operations
  BY WritersHaveAKind DEF Commit, Flushed, SessionInv
<1>5. CASE kind[r] \in PostedKinds
  <2>1. \A a \in S : PostsToGl(kind[r], a)
    BY <1>2, <1>5 DEF PostsToGl, PostedKinds
  <2>2. \A a \in S : glCredit'[a] = glCredit[a] + d[a]
    BY <1>3, <2>1
  <2> HIDE DEF S, d
  <2>3. SumFunctionOnSet(glCredit', S) = SumFunctionOnSet(glCredit, S) + SumFunctionOnSet(d, S)
    BY ONLY <1>2, <1>3, <2>2, SumPlus
  <2>4. SumFunctionOnSet(rowSum', S) = SumFunctionOnSet(rowSum, S) + SumFunctionOnSet(d, S)
    BY ONLY <1>2, <1>3, SumPlus
  <2> QED
    BY <1>2, <2>3, <2>4
<1>6. CASE kind[r] = "transfer"
  <2>1. /\ \A a, b \in Accounts : ProductOf[a] = ProductOf[b]
        /\ \A a \in S : ~ PostsToGl(kind[r], a)
    BY <1>4, <1>6 DEF PostsToGl
  <2>2. IsTransfer(r)
    BY <1>4, <1>6 DEF SessionOK, IsTeller, IsInterest, IsClosed, TellerTypes, CreditTypes,
                      DebitTypes, NoKind
  <2>3. PICK a \in Accounts, b \in Accounts, x \in Amounts : a # b /\ d = TransferDelta(a, b, x)
    BY <2>2 DEF IsTransfer
  <2>4. x \in Int
    BY AmountsAssumption
  <2>5. \A y \in S : glCredit'[y] = glCredit[y] /\ glCredit'[y] \in Int
    BY <1>3, <2>1
  <2>6. \A y \in S : rowSum'[y] = rowSum[y] + (IF y = a THEN -x ELSE IF y = b THEN x ELSE 0)
    BY <1>2, <1>3, <2>3 DEF TransferDelta
  <2>7. (a \in S /\ b \in S) \/ S = {}
    BY <2>1
  <2> HIDE DEF S, d
  <2>8. SumFunctionOnSet(glCredit', S) = SumFunctionOnSet(glCredit, S)
    BY ONLY <1>2, <2>5, SumSame
  <2>9. CASE a \in S /\ b \in S
    <3>1. SumFunctionOnSet(rowSum', S) = SumFunctionOnSet(rowSum, S)
      <4>1. /\ IsFiniteSet(S) /\ a \in S /\ b \in S /\ a # b /\ x \in Int
            /\ \A y \in S : rowSum[y] \in Int
        BY <1>2, <1>3, <2>3, <2>4, <2>9
      <4> QED
        BY ONLY <2>6, <4>1, MovedWithin
    <3> QED
      BY <1>2, <2>8, <3>1
  <2>10. CASE S = {}
    <3>1. SumFunctionOnSet(rowSum', S) = 0 /\ SumFunctionOnSet(glCredit', S) = 0
      BY <2>10, SumEmpty
    <3> QED
      BY <3>1
  <2> QED
    BY <2>7, <2>9, <2>10
<1> QED
  BY <1>4, <1>5, <1>6

\* Whatever overlaps, under either isolation level, and as long as money only
\* moves between accounts of one product: a product's liability account holds
\* what the rows of its accounts sum to.
THEOREM LiabilityFollowsRows ==
    ASSUME IsFiniteSet(Accounts), Operations \subseteq PostedKinds \cup {"transfer"},
           "transfer" \in Operations => \A a, b \in Accounts : ProductOf[a] = ProductOf[b]
    PROVE  Spec => []LiabilityMatchesRows
<1>1. Init => KindsEnabled /\ LiabilityMatchesRows
  BY DEF Init, KindsEnabled, LiabilityMatchesRows
<1>2. TypeOK /\ SessionInv /\ KindsEnabled /\ LiabilityMatchesRows /\ [Next]_vars
        => (KindsEnabled /\ LiabilityMatchesRows)'
  <2> SUFFICES ASSUME TypeOK, SessionInv, KindsEnabled, LiabilityMatchesRows, [Next]_vars
               PROVE  LiabilityMatchesRows'
    BY KindsStep
  <2>1. CASE \E r \in Requests : Commit(r)
    BY <2>1, LiabilityCommit DEF LiabilityMatchesRows
  <2>2. CASE \A r \in Requests : ~ Commit(r)
    BY <2>2, OnlyCommitWrites DEF tables, LiabilityMatchesRows
  <2> QED
    BY <2>1, <2>2
<1> QED
  BY <1>1, <1>2, TypeCorrect, SessionInvariant, PTL DEF Spec

-----------------------------------------------------------------------------
(* Locks                                                                   *)

\* Account ids are numbers.
LEMMA AccountsInt == \A a \in Accounts : a \in Int
  BY AccountsAssumption

\* A teller transaction or transfer locks rows upwards, and a request that is
\* not writing holds none.
LocksUpwards ==
    \A q \in Requests :
        /\ phase[q] # "writing" => held[q] = {}
        /\ kind[q] # "interest_run" => \A b \in held[q], c \in Unwritten(q) : b < c

\* A session takes its row locks upwards.
LEMMA LocksStep ==
    ASSUME TypeOK, SessionInv, LocksUpwards, [Next]_vars
    PROVE  LocksUpwards'
<1> USE DEF LocksUpwards
<1> SUFFICES ASSUME NEW q \in Requests
             PROVE  /\ phase'[q] # "writing" => held'[q] = {}
                    /\ kind'[q] # "interest_run" =>
                          \A b \in held'[q], c \in Unwritten(q)' : b < c
  OBVIOUS
<1>1. ASSUME NEW r \in Requests, NEW a, Finish(r, a)
      PROVE  \/ held'[q] = {}
             \/ UNCHANGED <<phase[q], kind[q], held[q], delta[q]>>
  BY <1>1 DEF Finish, TypeOK
<1>2. ASSUME NEW r \in Requests, NEW k, NEW S, NEW d, NEW ph, Load(r, k, S, d, ph),
             phase[r] = "idle", held' = held
      PROVE  \/ held'[q] = {}
             \/ UNCHANGED <<phase[q], kind[q], held[q], delta[q]>>
  BY <1>2 DEF Load, TypeOK
<1>3. ASSUME NEW r \in Requests, TransferLoadRecipient(r)
      PROVE  \/ held'[q] = {}
             \/ UNCHANGED <<phase[q], kind[q], held[q], delta[q]>>
  BY <1>3 DEF TransferLoadRecipient, TypeOK
<1>4. ASSUME NEW r \in Requests, NEW a \in Accounts, WriteRow(r, a)
      PROVE  /\ phase'[q] # "writing" => held'[q] = {}
             /\ kind'[q] # "interest_run" => \A b \in held'[q], c \in Unwritten(q)' : b < c
  <2>1. /\ UNCHANGED <<phase, kind, delta>> /\ held' = [held EXCEPT ![r] = @ \cup {a}]
        /\ phase[r] = "writing" /\ MayWriteNext(r, a)
    BY <1>4 DEF WriteRow
  <2>2. Unwritten(q)' = Touched(q) \ held'[q] /\ Unwritten(q) = Touched(q) \ held[q]
    BY <2>1 DEF Unwritten, Touched
  <2>3. CASE q # r
    BY <2>1, <2>2, <2>3 DEF TypeOK
  <2>4. CASE q = r
    <3>1. held'[q] = held[q] \cup {a}
      BY <2>1, <2>4 DEF TypeOK
    <3>2. ASSUME kind[q] # "interest_run", NEW b \in held[q] \cup {a}, NEW c \in Unwritten(q)'
          PROVE  b < c
      <4>1. c \in Unwritten(q) /\ c # a
        BY <2>2, <3>1
      <4>2. a <= c
        BY <2>1, <2>4, <3>2, <4>1 DEF MayWriteNext
      <4>3. Unwritten(q) \subseteq Accounts
        BY DEF Unwritten, Touched
      <4>4. a \in Int /\ c \in Int
        BY <4>1, <4>3, AccountsInt
      <4> QED
        BY <3>2, <4>1, <4>2, <4>4
    <3> QED
      BY <2>1, <2>4, <3>1, <3>2
  <2> QED
    BY <2>3, <2>4
<1>5. CASE UNCHANGED <<phase[q], kind[q], held[q], delta[q]>>
  <2>1. Unwritten(q)' = Unwritten(q)
    BY <1>5 DEF Unwritten, Touched
  <2> QED
    BY <1>5, <2>1
<1>6. CASE held'[q] = {}
  BY <1>6
<1>7. ASSUME NEW r \in Requests, Arrive(r)
      PROVE  held'[q] = {} \/ UNCHANGED <<phase[q], kind[q], held[q], delta[q]>>
  BY <1>1, <1>2, <1>7 DEF Arrive, PostLoad, PostRefused, Fail, TransferLoadSender, InterestLoad
<1>8. ASSUME NEW r \in Requests, Proceed(r) \/ Abort(r), \A a \in Accounts : ~ WriteRow(r, a)
      PROVE  held'[q] = {} \/ UNCHANGED <<phase[q], kind[q], held[q], delta[q]>>
  BY <1>1, <1>3, <1>8 DEF Proceed, TransferRefused, FlushRefused, Commit, RetriedCommit,
                          DeadlockVictim, Abort, Fail
<1>9. ASSUME MonthTurns \/ UNCHANGED vars
      PROVE  UNCHANGED <<phase[q], kind[q], held[q], delta[q]>>
  BY <1>9 DEF MonthTurns, vars, sessions
<1> QED
  BY <1>4, <1>5, <1>6, <1>7, <1>8, <1>9 DEF Next, Proceed

\* A teller transaction or transfer with rows left to write has one to write next.
LEMMA NextExists ==
    ASSUME SessionInv, NEW q \in Requests, phase[q] = "writing", kind[q] # "interest_run",
           Unwritten(q) # {}
    PROVE  \E a \in Accounts : MayWriteNext(q, a)
<1>1. Unwritten(q) \subseteq Touched(q) /\ Touched(q) \subseteq Accounts /\ SessionOK(q)
  BY DEF Unwritten, Touched, SessionInv
<1>2. PICK a \in Accounts, b \in Accounts : Touched(q) \subseteq {a, b}
  <2>1. CASE IsTeller(q)
    BY <2>1 DEF IsTeller, TellerDelta, Touched
  <2>2. CASE IsTransfer(q)
    BY <2>2, TransferTouches DEF IsTransfer
  <2> QED
    BY <1>1, <2>1, <2>2 DEF SessionOK, IsInterest, IsClosed
<1>3. a \in Int /\ b \in Int /\ Unwritten(q) \subseteq {a, b}
  BY <1>1, <1>2, AccountsAssumption
<1>4. PICK c \in Unwritten(q) : \A e \in Unwritten(q) : c <= e
  <2>1. CASE Unwritten(q) = {a}
    BY <1>3, <2>1
  <2>2. CASE Unwritten(q) = {b}
    BY <1>3, <2>2
  <2>3. CASE Unwritten(q) = {a, b} /\ a <= b
    BY <1>3, <2>3
  <2>4. CASE Unwritten(q) = {a, b} /\ b <= a
    BY <1>3, <2>4
  <2>5. Unwritten(q) = {a} \/ Unwritten(q) = {b} \/ Unwritten(q) = {a, b}
    BY <1>3
  <2> QED
    BY <1>3, <2>1, <2>2, <2>3, <2>4, <2>5
<1> QED
  BY <1>1, <1>4 DEF MayWriteNext

\* No set of teller transactions and transfers waits in a circle: the one that
\* waits for the highest row would wait for somebody who waits for a higher one.
LEMMA NoCircle ==
    ASSUME IsFiniteSet(Accounts), SessionInv, LocksUpwards, NEW S \in SUBSET Requests, S # {},
           \A q \in S :
              /\ phase[q] = "writing" /\ Unwritten(q) # {} /\ kind[q] # "interest_run"
              /\ \A a \in Accounts : MayWriteNext(q, a) => \E p \in S \ {q} : a \in held[p]
    PROVE  FALSE
<1> DEFINE W == {a \in Accounts : \E q \in S : MayWriteNext(q, a)}
<1>0. W \subseteq Accounts /\ Accounts \subseteq Int
  BY AccountsInt
<1>1. IsFiniteSet(W) /\ W \in SUBSET Int
  <2> HIDE DEF W
  <2>1. IsFiniteSet(W)
    BY <1>0, FS_Subset
  <2> QED
    BY <1>0, <2>1
<1>2. W # {}
  BY NextExists
<1>3. PICK m \in W : \A x \in W : x <= m
  <2> HIDE DEF W
  <2> QED
    BY <1>1, <1>2, HasGreatest
<1>4. PICK p \in S : m \in held[p]
  BY <1>3
<1>5. PICK a \in Accounts : MayWriteNext(p, a)
  BY <1>4, NextExists
<1>6. a \in W /\ m < a
  BY <1>4, <1>5 DEF LocksUpwards, MayWriteNext
<1> QED
  BY <1>1, <1>3, <1>6

\* Under either isolation level and for any number of requests, teller
\* transactions and transfers never wait for each other's rows in a circle.
THEOREM LocksAreOrdered ==
    ASSUME IsFiniteSet(Accounts)
    PROVE  Spec => []NoLockCycle
<1>1. Init => LocksUpwards
  BY DEF Init, LocksUpwards
<1>2. TypeOK /\ SessionInv /\ LocksUpwards /\ [Next]_vars => LocksUpwards'
  BY LocksStep
<1>3. SessionInv /\ LocksUpwards => NoLockCycle
  <2> SUFFICES ASSUME SessionInv, LocksUpwards, NEW r \in Requests, Deadlocked(r),
                      \A q \in Requests : kind[q] # "interest_run"
               PROVE  FALSE
    BY DEF NoLockCycle
  <2>1. PICK S \in SUBSET Requests :
           /\ r \in S
           /\ \A q \in S :
                 /\ phase[q] = "writing" /\ Unwritten(q) # {}
                 /\ \A a \in Accounts : MayWriteNext(q, a) => \E p \in S \ {q} : a \in held[p]
    BY DEF Deadlocked
  <2>2. /\ S # {}
        /\ \A q \in S :
              /\ phase[q] = "writing" /\ Unwritten(q) # {} /\ kind[q] # "interest_run"
              /\ \A a \in Accounts : MayWriteNext(q, a) => \E p \in S \ {q} : a \in held[p]
    BY <2>1
  <2> QED
    BY <2>2, NoCircle, Zenon
<1> QED
  BY <1>1, <1>2, <1>3, TypeCorrect, SessionInvariant, PTL DEF Spec
=============================================================================
