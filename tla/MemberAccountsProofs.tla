------------------------ MODULE MemberAccountsProofs ------------------------
(***************************************************************************)
(* Proofs about the accounts that the member services keep: the balances,  *)
(* the share register, dividends, referrals and payroll files.             *)
(*                                                                         *)
(* A table says of each handler what it may be asked, what it reads and    *)
(* checks, which of that is guarded, and what it writes.  A commit writes  *)
(* from rows that are as they were where they are guarded; of the others   *)
(* the sessions' invariant says what stays true of a stale reading.  An    *)
(* invariant is then proved for the handlers that write the columns it     *)
(* speaks of.                                                              *)
(***************************************************************************)
EXTENDS MemberServicesProofs, SumTheorems

-----------------------------------------------------------------------------
Ops == OtherOps \cup Sweeps \cup VaultOps \cup {"exit"}

\* what the handler of op is asked, at any time
Jobs(op) ==
    CASE op = "share_transaction" -> ShareJobs
      [] op = "dividend"          -> DividendJobs
      [] op = "create_member"     -> [member : Members, at : 0 .. MaxTime]
      [] op = "update_member"     -> UpdateJobs
      [] op = "exit"              -> MemberJobs
      [] op = "disburse"          -> MemberJobs
      [] op \in Sweeps            -> [at : 0 .. MaxTime, sent : BOOLEAN]
      [] op = "register"          -> RegisterJobs
      [] op = "convert"           -> ConversionJobs
      [] op = "settings"          -> SettingsJobs
      [] op = "commission"        -> CommissionJobs
      [] op = "payroll_file"      -> FileJobs
      [] op = "create_vault"      -> [vault : VaultIds, at : 0 .. MaxTime]
      [] op = "vault_deposit"     -> DepositJobs
      [] op = "vault_withdraw"    -> [vault : VaultIds, n : 1 .. Target, force : BOOLEAN,
                                      at : 0 .. MaxTime]

\* what it reads
ReadBy(op, j, d) ==
    CASE op = "share_transaction" -> HoldingsRead(j, d)
      [] op = "dividend"          -> DividendReads(j, d)
      [] op = "create_member"     -> StatusRead(j, d)
      [] op = "update_member"     -> StatusRead(j, d)
      [] op = "exit"              -> ExitReads(j, d)
      [] op = "disburse"          -> BorrowerRead(j, d)
      [] op \in Sweeps            -> MembersRead(j, d)
      [] op = "register"          -> ReferrersRead(j, d)
      [] op = "convert"           -> ConversionReads(j, d)
      [] op = "settings"          -> NothingRead(j, d)
      [] op = "commission"        -> CommissionReads(j, d)
      [] op = "payroll_file"      -> FileReads(j, d)
      [] op \in VaultOps          -> VaultRead(j, d)

\* what it checks of that
Accepts(op, j, v) ==
    CASE op = "share_transaction" -> SharesAvailable(j, v)
      [] op = "dividend"          -> Declarable(j, v)
      [] op = "create_member"     -> IsNew(j, v)
      [] op = "update_member"     -> IsKnown(j, v)
      [] op = "exit"              -> Clear(j, v)
      [] op = "disburse"          -> NoLoanYet(j, v)
      [] op \in Sweeps            -> SomebodySilent(j, v)
      [] op = "register"          -> EmailIsFree(j, v)
      [] op = "convert"           -> SomethingPending(j, v)
      [] op = "settings"          -> AlwaysAccepted(j, v)
      [] op = "commission"        -> CommissionDue(j, v)
      [] op = "payroll_file"      -> Insertable(j, v)
      [] op = "create_vault"      -> NotCreated(j, v)
      [] op = "vault_deposit"     -> IsActive(j, v)
      [] op = "vault_withdraw"    -> Withdrawable(j, v)

\* which of the rows it read are the same when it commits
Same(op, j, v, rows) ==
    CASE op = "dividend"   -> SameCredited(j, v, rows)
      [] op = "exit"       -> SameStanding(j, v, rows)
      [] op \in Sweeps     -> SameSilent(j, v, rows)
      [] op = "register"   -> SameEmail(j, v, rows)
      [] op = "commission" -> SameReferral(j, v, rows)
      [] OTHER             -> rows = v

\* and what it makes of d
Written(op, j, v, d) ==
    CASE op = "share_transaction" -> SharesTraded(j, v, d)
      [] op = "dividend"          -> DividendsPaid(j, v, d)
      [] op = "create_member"     -> MemberAdded(j, v, d)
      [] op = "update_member"     -> StatusSet(j, v, d)
      [] op = "exit"              -> Left(j, v, d)
      [] op = "disburse"          -> LoanActive(j, v, d)
      [] op \in Sweeps            -> Swept(j, v, d)
      [] op = "register"          -> UserRegistered(j, v, d)
      [] op = "convert"           -> TiersCredited(j, v, d)
      [] op = "settings"          -> CommissionSet(j, v, d)
      [] op = "commission"        -> CommissionPaid(j, v, d)
      [] op = "payroll_file"      -> FileBooked(j, v, d)
      [] op = "create_vault"      -> VaultCreated(j, v, d)
      [] op = "vault_deposit"     -> Deposited(j, v, d)
      [] op = "vault_withdraw"    -> Withdrawn(j, v, d)

\* s opens a session for op, or commits it
Opens(s, op) ==
    /\ op \in desk /\ db' = db
    /\ \E j \in Jobs(op) :
          /\ Accepts(op, j, ReadBy(op, j, db))
          /\ session' = [session EXCEPT ![s] = [op |-> op, job |-> j, view |-> ReadBy(op, j, db)]]

CommitsIt(s, op) ==
    /\ session[s].op = op
    /\ MayCommit(s, Same(op, session[s].job, session[s].view, ReadBy(op, session[s].job, db)))
    /\ db' = Written(op, session[s].job, session[s].view, db)
    /\ session' = [session EXCEPT ![s] = Idle]

\* a request of s that the table describes
Served(s, op) ==
    /\ Opens(s, op) \/ CommitsIt(s, op)
    /\ served' \in {served} \cup (IF served < MaxRequests THEN {served + 1} ELSE {})
    /\ UNCHANGED <<desk, now>>

(* Every request is one of the table, but for the notices of a sweep.        *)
LEMMA RequestsServed ==
    ASSUME now \in 0 .. MaxTime, NEW s \in Sessions, Request(s)
    PROVE  SendNotices(s) \/ \E op \in Ops : Served(s, op)
<1> USE DEF Serves, ServesWhile, SameRows, Opened, Committed, Served, Opens, CommitsIt,
         Jobs, ReadBy, Accepts, Same, Written, Sweeps, VaultOps
<1>1. RecordShareTransaction(s) => Served(s, "share_transaction")
  BY DEF RecordShareTransaction
<1>2. DeclareDividend(s) => Served(s, "dividend")
  BY DEF DeclareDividend
<1>3. UpdateMember(s) => Served(s, "update_member")
  BY DEF UpdateMember
<1>4. ExitMember(s) => Served(s, "exit")
  BY DEF ExitMember
<1>5. DisburseLoan(s) => Served(s, "disburse")
  BY DEF DisburseLoan
<1>6. RegisterUser(s) => Served(s, "register")
  BY DEF RegisterUser
<1>7. Convert(s) => Served(s, "convert")
  BY DEF Convert
<1>8. UpdateSystemSettings(s) => Served(s, "settings")
  BY DEF UpdateSystemSettings
<1>9. PayCommission(s) => Served(s, "commission")
  BY DEF PayCommission
<1>10. UploadPayrollFile(s) => Served(s, "payroll_file")
  BY DEF UploadPayrollFile
<1>11. DepositIntoVault(s) => Served(s, "vault_deposit")
  BY DEF DepositIntoVault
<1>12. CreateMember(s) => Served(s, "create_member")
  BY DEF CreateMember, RegistrationJobs
<1>13. TriggerSweep(s) => Served(s, "sweep")
  BY DEF TriggerSweep, SweepJobs
<1>14. CreateTargetVault(s) => Served(s, "create_vault")
  BY DEF CreateTargetVault, CreateJobs
<1>15. WithdrawFromVault(s) => Served(s, "vault_withdraw")
  BY DEF WithdrawFromVault, WithdrawJobs
<1>16. FinishSweep(s) => \E op \in Sweeps : Served(s, op)
  BY DEF FinishSweep, Sweeping
<1> HIDE DEF Serves, ServesWhile, SameRows, Opened, Committed, Served, Opens, CommitsIt,
         Jobs, ReadBy, Accepts, Same, Written
<1>17. QED
  BY <1>1, <1>2, <1>3, <1>4, <1>5, <1>6, <1>7, <1>8, <1>9, <1>10, <1>11, <1>12, <1>13, <1>14,
     <1>15, <1>16 DEF Request, Ops, OtherOps

(* So is the scheduled sweep.                                                *)
LEMMA SweepServed ==
    ASSUME now \in 0 .. MaxTime, StartDailySweep \/ FinishSweep(Scheduler)
    PROVE  \E op \in Sweeps : Served(Scheduler, op)
<1> USE DEF Opened, Committed, Served, Opens, CommitsIt, Jobs, ReadBy, Accepts, Same, Written,
         Sweeps, VaultOps
<1>1. CASE StartDailySweep
  BY <1>1 DEF StartDailySweep, SweepJobs
<1>2. CASE FinishSweep(Scheduler)
  BY <1>2 DEF FinishSweep, Sweeping
<1>3. QED
  BY <1>1, <1>2

\* a session is idle, or serves a job that its handler has accepted
AtWork(w) ==
    /\ DOMAIN w = {"op", "job", "view"}
    /\ w.op \in desk \cap Ops
    /\ w.job \in Jobs(w.op)
    /\ Accepts(w.op, w.job, w.view)

SessionsAtWork ==
    /\ session = [s \in Sessions |-> session[s]]
    /\ \A s \in Sessions : session[s] = Idle \/ AtWork(session[s])

(* The sessions work on what the table allows.                               *)
WorkInv ==
    /\ SessionsAtWork
    /\ served \in 0 .. MaxRequests
    /\ desk \in Desks
    /\ now \in 0 .. MaxTime

(* Every step is a step of one request, sends the notices of a sweep, or     *)
(* leaves db alone and at most ends a session or moves the clock.            *)
LEMMA EveryStep ==
    ASSUME WorkInv, [Next]_vars
    PROVE  \/ \E s \in Sessions, op \in Ops : Served(s, op)
           \/ \E s \in Sessions : SendNotices(s)
           \/ /\ db' = db
              /\ UNCHANGED <<served, desk>> /\ now' \in 0 .. MaxTime
              /\ \/ session' = session
                 \/ \E s \in Sessions : session' = [session EXCEPT ![s] = Idle]
<1> USE DEF WorkInv, SessionsAtWork
<1>1. CASE \E s \in Sessions \ {Scheduler} : Request(s)
  BY <1>1, RequestsServed
<1>2. CASE \E s \in Sessions : Failed(s)
  BY <1>2 DEF Failed
<1>3. CASE StartDailySweep \/ SendNotices(Scheduler) \/ FinishSweep(Scheduler)
  BY <1>3, SweepServed, MembersAssumption DEF Ops, Sweeps
<1>4. CASE DatesMatter /\ TimePasses
  BY <1>4, RequestsAssumption DEF TimePasses
<1>5. CASE UNCHANGED vars
  BY <1>5 DEF vars, requests
<1>6. QED
  BY <1>1, <1>2, <1>3, <1>4, <1>5 DEF Next

(* Every step keeps the sessions at accepted work, at any isolation level.   *)
LEMMA WorkStep ==
    ASSUME WorkInv, [Next]_vars
    PROVE  WorkInv'
<1>1. ASSUME NEW s \in Sessions, NEW op \in Ops, Opens(s, op), desk' = desk
      PROVE  SessionsAtWork'
  BY <1>1 DEF WorkInv, SessionsAtWork, Opens, AtWork
<1>2. ASSUME NEW s \in Sessions, session' = [session EXCEPT ![s] = Idle], desk' = desk
      PROVE  SessionsAtWork'
  BY <1>2 DEF WorkInv, SessionsAtWork, AtWork
<1>3. CASE \E s \in Sessions, op \in Ops : Served(s, op)
  <2>1. PICK s \in Sessions, op \in Ops : Served(s, op)
    BY <1>3
  <2>2. served' \in 0 .. MaxRequests /\ desk' \in Desks /\ now' \in 0 .. MaxTime
    BY <2>1, RequestsAssumption DEF Served, WorkInv
  <2>3. SessionsAtWork'
    BY <1>1, <1>2, <2>1 DEF Served, CommitsIt
  <2>4. QED
    BY <2>2, <2>3 DEF WorkInv
<1>4. CASE UNCHANGED <<session, served, desk>> /\ now' \in 0 .. MaxTime
  <2>1. SessionsAtWork'
    BY <1>4 DEF WorkInv, SessionsAtWork, AtWork
  <2>2. QED
    BY <1>4, <2>1 DEF WorkInv
<1>5. CASE /\ \E s \in Sessions : session' = [session EXCEPT ![s] = Idle]
           /\ UNCHANGED <<served, desk>> /\ now' \in 0 .. MaxTime
  <2>1. SessionsAtWork'
    BY <1>2, <1>5
  <2>2. QED
    BY <1>5, <2>1 DEF WorkInv
<1>6. CASE \E s \in Sessions : SendNotices(s)
  <2>1. PICK s \in Sessions : SendNotices(s)
    BY <1>6
  <2> DEFINE j == session[s].job
             k == [j EXCEPT !.sent = TRUE]
             v == session[s].view
  <2>2. AtWork(session[s]) /\ session[s].op \in Sweeps
    BY <2>1 DEF WorkInv, SessionsAtWork, SendNotices, Sweeping, Idle, Sweeps
  <2>3. j \in [at : 0 .. MaxTime, sent : BOOLEAN] /\ SomebodySilent(j, v)
    BY <2>2 DEF AtWork, Jobs, Accepts, Sweeps
  <2>4. k \in [at : 0 .. MaxTime, sent : BOOLEAN] /\ k.at = j.at
    BY <2>3
  <2>5. \A m \in Members : Noticed(k, v, m) = Noticed(j, v, m)
    BY <2>4 DEF Noticed, Warned, FallsDormant, Escalated, SilentSince, SilentFor
  <2>6. SomebodySilent(k, v)
    BY <2>3, <2>5 DEF SomebodySilent
  <2>7. session' = [session EXCEPT ![s] = [session[s] EXCEPT !.job = k]]
    BY <2>1 DEF SendNotices
  <2>8. AtWork([session[s] EXCEPT !.job = k])
    <3> HIDE DEF k
    <3>1. QED
      BY <2>2, <2>4, <2>6 DEF AtWork, Jobs, Accepts, Sweeps
  <2>9. desk' = desk /\ served' = served /\ now' = now
    BY <2>1 DEF SendNotices
  <2>10. SessionsAtWork'
    <3> HIDE DEF k
    <3>1. QED
      BY <2>7, <2>8, <2>9 DEF WorkInv, SessionsAtWork, AtWork
  <2>11. QED
    BY <2>9, <2>10 DEF WorkInv
<1>7. QED
  BY <1>3, <1>4, <1>5, <1>6, EveryStep

(* The sessions work on what the table allows, whatever the isolation level: *)
(* a handler never goes on with a job it has refused.                        *)
THEOREM WorkIsAccepted == Spec => []WorkInv
<1>1. Init => WorkInv
  BY RequestsAssumption DEF Init, RequestsInit, WorkInv, SessionsAtWork
<1>2. WorkInv /\ [Next]_vars => WorkInv'
  BY WorkStep
<1>3. QED
  BY <1>1, <1>2, PTL DEF Spec

\* The handler of op writes from v, which it has accepted, and which is what
\* it would read now as far as it is guarded.
Alone(op, j, v) ==
    /\ j \in Jobs(op)
    /\ Accepts(op, j, v)
    /\ Same(op, j, v, ReadBy(op, j, db))
    /\ db' = Written(op, j, v, db)

\* Nothing is written but that notices were sent.
OnlySent ==
    /\ DOMAIN db' = DOMAIN db
    /\ \A c \in DOMAIN db \ {"sent"} : db'[c] = db[c]

(* A step that writes db is the commit of one session, or sends notices.     *)
LEMMA StepAlone ==
    ASSUME WorkInv, Isolation = "serializable", [Next]_vars
    PROVE  \/ OnlySent
           \/ \E s \in Sessions :
                 /\ session[s].op \in Ops
                 /\ Alone(session[s].op, session[s].job, session[s].view)
<1>1. ASSUME NEW s \in Sessions, NEW op \in Ops, CommitsIt(s, op)
      PROVE  session[s].op = op /\ Alone(op, session[s].job, session[s].view)
  <2>1. AtWork(session[s]) /\ session[s].op = op
    BY <1>1 DEF WorkInv, SessionsAtWork, CommitsIt, Idle, Ops, OtherOps, Sweeps, VaultOps
  <2>2. Same(op, session[s].job, session[s].view, ReadBy(op, session[s].job, db))
    BY <1>1 DEF CommitsIt, MayCommit
  <2>3. QED
    BY <1>1, <2>1, <2>2 DEF AtWork, CommitsIt, Alone
<1>2. ASSUME NEW s \in Sessions, SendNotices(s) PROVE OnlySent
  BY <1>2 DEF SendNotices, OnlySent
<1>3. CASE db' = db
  BY <1>3 DEF OnlySent
<1>4. QED
  BY <1>1, <1>2, <1>3, EveryStep DEF Served, Opens

-----------------------------------------------------------------------------
\* the columns of a savings account, and all columns
AccountColumns == {"balance", "rows", "liability"}

Columns == AccountColumns \cup {"holdings", "traded", "dividends",
    "status", "since", "stage", "notices", "sent", "borrows",
    "users", "tier", "legacy", "commission", "files", "vault", "moved"}

\* the columns that the handler of op writes
WrittenBy(op) ==
    CASE op = "share_transaction" -> {"holdings", "traded"}
      [] op = "dividend"          -> {"dividends"} \cup AccountColumns
      [] op = "create_member"     -> {"status", "since"}
      [] op \in {"update_member", "exit"} -> {"status"}
      [] op = "disburse"          -> {"borrows"}
      [] op \in Sweeps            -> {"status", "stage", "notices"}
      [] op = "register"          -> {"users", "tier"}
      [] op = "convert"           -> {"tier"} \cup AccountColumns
      [] op = "settings"          -> {"commission"}
      [] op = "commission"        -> {"legacy"} \cup AccountColumns
      [] op = "payroll_file"      -> {"files"} \cup AccountColumns
      [] op \in VaultOps          -> {"vault", "moved"}

(* The tables at the start, column by column.                                *)
LEMMA TheTables ==
    /\ DOMAIN Tables = Columns
    /\ \A c \in DOMAIN SavingsTables : Tables[c] = SavingsTables[c]
    /\ \A c \in DOMAIN ShareTables : Tables[c] = ShareTables[c]
    /\ \A c \in DOMAIN MemberTables : Tables[c] = MemberTables[c]
    /\ \A c \in DOMAIN ReferralTables : Tables[c] = ReferralTables[c]
    /\ \A c \in DOMAIN FileTables : Tables[c] = FileTables[c]
    /\ \A c \in DOMAIN VaultTables : Tables[c] = VaultTables[c]
<1>1. /\ DOMAIN SavingsTables = {"balance", "rows", "liability"}
      /\ DOMAIN ShareTables = {"holdings", "traded", "dividends"}
      /\ DOMAIN MemberTables = {"status", "since", "stage", "notices", "sent", "borrows"}
      /\ DOMAIN ReferralTables = {"users", "tier", "legacy", "commission"}
      /\ DOMAIN FileTables = {"files"}
      /\ DOMAIN VaultTables = {"vault", "moved"}
  BY DEF SavingsTables, ShareTables, MemberTables, ReferralTables, FileTables, VaultTables
<1>2. /\ DOMAIN AccountTables = {"balance", "rows", "liability", "holdings", "traded", "dividends",
                                 "status", "since", "stage", "notices", "sent", "borrows"}
      /\ \A c \in DOMAIN SavingsTables : AccountTables[c] = SavingsTables[c]
      /\ \A c \in DOMAIN ShareTables : AccountTables[c] = ShareTables[c]
      /\ \A c \in DOMAIN MemberTables : AccountTables[c] = MemberTables[c]
  BY <1>1 DEF AccountTables, Beside
<1>3. QED
  BY <1>1, <1>2 DEF Tables, Beside, Columns, AccountColumns

(* Only the dates of the last activities differ from the tables at the start. *)
LEMMA TheStart ==
    ASSUME Init
    PROVE  /\ DOMAIN db = Columns
           /\ \A c \in Columns \ {"since"} : db[c] = Tables[c]
           /\ \E undated : db.since = SinceStart(undated)
BY TheTables DEF Init, Columns

(* A handler writes its own columns and keeps the others.                    *)
LEMMA Frame ==
    ASSUME NEW op \in Ops, NEW j, NEW v, NEW d, DOMAIN d = Columns
    PROVE  /\ DOMAIN Written(op, j, v, d) = Columns
           /\ \A c \in Columns \ WrittenBy(op) : Written(op, j, v, d)[c] = d[c]
<1> USE DEF Ops, OtherOps, Sweeps, VaultOps, Written, WrittenBy, AccountColumns, Columns
<1>1. CASE op \in {"share_transaction", "create_member", "update_member", "exit", "disburse",
                   "sweep", "daily_sweep", "register", "settings"}
  BY <1>1 DEF SharesTraded, MemberAdded, StatusSet, Left, LoanActive, Swept, UserRegistered,
     CommissionSet
<1>2. CASE op \in VaultOps
  BY <1>2 DEF VaultCreated, Deposited, Withdrawn
<1>3. CASE op \in {"dividend", "convert", "commission", "payroll_file"}
  BY <1>3, CreditKeeps DEF DividendsPaid, TiersCredited, CommissionPaid, FileBooked
<1>4. QED
  BY <1>1, <1>2, <1>3

-----------------------------------------------------------------------------
\* the holdings of a member are none or one row
Holdings == {<<>>} \cup {<<n>> : n \in Nat}

\* what stays true of a reading however old it is: holdings were holdings, an
\* amount was a number, and the owner of a code stays a user whose own referrer
\* stays the same
Fits(op, j, v) ==
    /\ op = "dividend" => v.holdings \in [Members -> Holdings]
    /\ op = "commission" => v.amount \in Nat
    /\ op = "register" =>
          /\ v.ref \in db.users \cup {Nobody}
          /\ v.above = IF v.ref = Nobody THEN Nobody ELSE db.tier[v.ref][1].to

(* What one row or none adds up to.                                          *)
LEMMA HoldingSum ==
    /\ SumFunction(<<>>) = 0
    /\ \A n \in Nat : SumFunction(<<n>>) = n
<1>1. DOMAIN <<>> = {}
  OBVIOUS
<1>2. SumFunction(<<>>) = 0
  BY <1>1, SumEmpty DEF SumFunction
<1>3. ASSUME NEW n \in Nat PROVE SumFunction(<<n>>) = n
  <2> DEFINE h == <<n>>
  <2>1. DOMAIN h = {} \cup {1} /\ h[1] = n
    OBVIOUS
  <2>2. SumFunctionOnSet(h, {} \cup {1}) = h[1] + SumFunctionOnSet(h, {})
    <3> HIDE DEF h
    <3>1. \A y \in {} \cup {1} : h[y] \in Int
      BY <2>1
    <3>2. IsFiniteSet({}) /\ 1 \notin {}
      BY FS_EmptySet
    <3>3. QED
      BY <3>1, <3>2, SumAdd
  <2>3. SumFunction(h) = SumFunctionOnSet(h, {} \cup {1})
    BY <2>1 DEF SumFunction
  <2>4. SumFunctionOnSet(h, {}) = 0
    BY SumEmpty
  <2>5. QED
    BY <2>1, <2>2, <2>3, <2>4
<1>4. QED
  BY <1>2, <1>3

(* Each member has at most one holding, and it is what the transactions of   *)
(* the member add up to.                                                     *)
SharesInv ==
    /\ db.holdings \in [Members -> Holdings]
    /\ db.traded = [m \in Members |-> SumFunction(db.holdings[m])]

(* What a transaction makes of the holding of one member.                    *)
LEMMA HoldingTraded ==
    ASSUME NEW j \in ShareJobs, NEW m \in Parties(j), NEW v, NEW h \in Holdings, v[m] = h,
           m = j.member => SharesAvailable(j, v)
    PROVE  /\ Held(h, v, m, Gained(j, m)) \in Holdings
           /\ SumFunction(Held(h, v, m, Gained(j, m))) = SumFunction(h) + TradedBy(j, m)
<1>1. TradedBy(j, m) = Gained(j, m) /\ Gained(j, m) \in Int
  BY DEF TradedBy, Gained, Parties, ShareJobs
<1>2. Gained(j, m) \in Nat \/ (m = j.member /\ j.type # "subscription" /\ Gained(j, m) = -j.n)
  <2>1. j.n \in Nat /\ j.type \in {"subscription", "redemption", "transfer"}
    BY DEF ShareJobs
  <2>2. CASE j.type = "transfer"
    BY <2>1, <2>2 DEF Gained, Parties
  <2>3. CASE j.type # "transfer"
    <3>1. m = j.member
      BY <2>3 DEF Parties
    <3>2. QED
      BY <2>1, <2>3, <3>1 DEF Gained
  <2>4. QED
    BY <2>2, <2>3
<1>3. CASE h = <<>>
  <2>1. m = j.member => j.type = "subscription"
    BY <1>3 DEF SharesAvailable, FirstHolding, ShareJobs
  <2>2. Held(h, v, m, Gained(j, m)) = <<Gained(j, m)>>
    BY <1>3 DEF Held
  <2>3. QED
    BY <1>1, <1>2, <1>3, <2>1, <2>2, HoldingSum DEF Holdings
<1>4. CASE h # <<>>
  <2>1. PICK n \in Nat : h = <<n>>
    BY <1>4 DEF Holdings
  <2>2. m = j.member /\ j.type # "subscription" => j.n <= n
    <3>1. FirstHolding(v, m) = n
      BY <1>4, <2>1 DEF FirstHolding
    <3>2. QED
      BY <3>1 DEF SharesAvailable
  <2>3. n + Gained(j, m) \in Nat
    <3>1. j.n \in Nat
      BY DEF ShareJobs
    <3>2. QED
      BY <1>1, <1>2, <2>1, <2>2, <3>1
  <2>4. Held(h, v, m, Gained(j, m)) = <<n + Gained(j, m)>>
    BY <1>4, <2>1 DEF Held
  <2>5. QED
    BY <1>1, <2>1, <2>3, <2>4, HoldingSum DEF Holdings
<1>5. QED
  BY <1>3, <1>4

(* A transaction keeps one holding for each member, and its sum.             *)
LEMMA TransactionKeepsShares ==
    ASSUME DOMAIN db = Columns, SharesInv, NEW j, NEW w,
           Alone("share_transaction", j, w)
    PROVE  SharesInv'
<1> DEFINE v == HoldingsRead(j, db)
<1>1. j \in ShareJobs /\ SharesAvailable(j, v) /\ db' = SharesTraded(j, v, db)
  BY DEF Alone, Jobs, Accepts, ReadBy, Same, Written, Sweeps, VaultOps
<1>2. db.traded \in [Members -> Int] /\ \A m \in Members : db.traded[m] = SumFunction(db.holdings[m])
  BY HoldingSum DEF SharesInv, Holdings
<1>3. /\ db'.holdings = [m \in Members |-> IF m \in Parties(j)
                          THEN Held(db.holdings[m], v, m, Gained(j, m)) ELSE db.holdings[m]]
      /\ db'.traded = [m \in Members |->
                          IF m \in Parties(j) THEN db.traded[m] + TradedBy(j, m) ELSE db.traded[m]]
  BY <1>1 DEF SharesTraded, Columns
<1>4. ASSUME NEW m \in Members
      PROVE  db'.holdings[m] \in Holdings /\ db'.traded[m] = SumFunction(db'.holdings[m])
  <2>1. CASE m \in Parties(j)
    <3>1. v[m] = db.holdings[m]
      BY <2>1 DEF HoldingsRead
    <3>2. QED
      BY <1>1, <1>2, <1>3, <2>1, <3>1, HoldingTraded DEF SharesInv
  <2>2. CASE m \notin Parties(j)
    BY <1>2, <1>3, <2>2 DEF SharesInv
  <2>3. QED
    BY <2>1, <2>2
<1>5. QED
  BY <1>3, <1>4 DEF SharesInv

\* the columns there are
ColumnsInv == DOMAIN db = Columns

(* A request served alone keeps the columns it does not write.               *)
LEMMA Kept ==
    ASSUME ColumnsInv, NEW op \in Ops, NEW j, NEW w, Alone(op, j, w)
    PROVE  ColumnsInv' /\ \A c \in Columns \ WrittenBy(op) : db'[c] = db[c]
BY Frame DEF Alone, ColumnsInv

(* Only share transactions write the share register.                         *)
LEMMA SharesKept ==
    ASSUME ColumnsInv, NEW op \in Ops \ {"share_transaction"}, NEW j, NEW w,
           Alone(op, j, w)
    PROVE  db'.holdings = db.holdings /\ db'.traded = db.traded
<1>1. {"holdings", "traded"} \subseteq Columns \ WrittenBy(op)
  BY DEF Ops, OtherOps, Sweeps, VaultOps, WrittenBy, Columns, AccountColumns
<1>2. QED
  BY <1>1, Kept

(* At the start nobody has shares.                                           *)
LEMMA NoSharesYet == Init => ColumnsInv /\ SharesInv
<1>1. /\ ShareTables.holdings = [m \in Members |-> <<>>]
      /\ ShareTables.traded = [m \in Members |-> 0]
      /\ {"holdings", "traded"} \subseteq DOMAIN ShareTables
  BY DEF ShareTables, NoGain
<1>2. Init => /\ DOMAIN db = Columns
              /\ db.holdings = [m \in Members |-> <<>>] /\ db.traded = [m \in Members |-> 0]
  BY <1>1, TheTables, TheStart DEF Columns
<1>3. QED
  BY <1>2, HoldingSum DEF ColumnsInv, SharesInv, Holdings

(* That notices were sent shows in no column but one.                        *)
LEMMA SendingKeeps ==
    ASSUME ColumnsInv, OnlySent
    PROVE  ColumnsInv' /\ \A c \in Columns \ {"sent"} : db'[c] = db[c]
BY DEF ColumnsInv, OnlySent

(* Every step keeps the share register.                                      *)
LEMMA SharesStep ==
    ASSUME WorkInv, ColumnsInv, SharesInv, Isolation = "serializable", [Next]_vars
    PROVE  ColumnsInv' /\ SharesInv'
<1>1. CASE OnlySent
  BY <1>1, SendingKeeps DEF Columns, SharesInv
<1>2. ASSUME NEW op \in Ops, NEW j, NEW w, Alone(op, j, w)
      PROVE  ColumnsInv' /\ SharesInv'
  <2>1. CASE op = "share_transaction"
    BY <1>2, <2>1, Kept, TransactionKeepsShares DEF ColumnsInv
  <2>2. CASE op # "share_transaction"
    BY <1>2, <2>2, Kept, SharesKept DEF SharesInv
  <2>3. QED
    BY <2>1, <2>2
<1>3. QED
  BY <1>1, <1>2, StepAlone

(* On a serializable database a member never gets a second holding row, and  *)
(* the rows are what the transactions add up to (record_share_transaction).  *)
THEOREM OneHoldingEach ==
    ASSUME Isolation = "serializable"
    PROVE  Spec => [](WorkInv /\ ColumnsInv /\ SharesInv)
<1>1. ColumnsInv /\ SharesInv /\ WorkInv /\ [Next]_vars => (ColumnsInv /\ SharesInv)'
  BY SharesStep
<1>2. QED
  BY NoSharesYet, WorkIsAccepted, <1>1, PTL DEF Spec

(* A transaction alone is one of the register's.                             *)
LEMMA RegisterStep ==
    ASSUME ColumnsInv, SharesInv, NEW j, NEW w,
           Alone("share_transaction", j, w), SharesInv'
    PROVE  ShareBook!Next
<1> DEFINE v == HoldingsRead(j, db)
<1>1. j \in ShareJobs /\ SharesAvailable(j, v) /\ db' = SharesTraded(j, v, db)
  BY DEF Alone, Jobs, Accepts, ReadBy, Same, Written, Sweeps, VaultOps
<1>2. db'.traded = [m \in Members |->
                       IF m \in Parties(j) THEN db.traded[m] + TradedBy(j, m) ELSE db.traded[m]]
  BY <1>1 DEF SharesTraded, Columns, ColumnsInv
<1>3. db.traded \in [Members -> Nat]
  BY HoldingSum DEF SharesInv, Holdings
<1>4. Register = db.traded /\ Register' = db'.traded
  BY DEF Register, SharesOf, SharesInv
<1>5. j.member \in Members /\ j.n \in 1 .. MaxShares /\ j.n \in Nat
  BY <1>1 DEF ShareJobs
<1>6. j.type # "subscription" => j.n <= db.traded[j.member]
  <2>1. v[j.member] = db.holdings[j.member] /\ db.holdings[j.member] \in Holdings
    BY <1>5 DEF HoldingsRead, Parties, SharesInv
  <2>2. FirstHolding(v, j.member) = db.traded[j.member]
    BY <1>5, <2>1, HoldingSum DEF FirstHolding, SharesInv, Holdings
  <2>3. QED
    BY <1>1, <2>2 DEF SharesAvailable
<1>7. CASE j.type = "subscription"
  <2>1. db'.traded = [db.traded EXCEPT ![j.member] = @ + j.n]
    BY <1>2, <1>3, <1>7 DEF Parties, TradedBy
  <2>2. QED
    BY <1>4, <1>5, <2>1 DEF ShareBook!Next, ShareBook!Transaction, ShareBook!Issue
<1>8. CASE j.type = "redemption"
  <2>1. db'.traded = [db.traded EXCEPT ![j.member] = @ - j.n]
    BY <1>2, <1>3, <1>5, <1>8 DEF Parties, TradedBy
  <2>2. QED
    BY <1>4, <1>5, <1>6, <1>8, <2>1 DEF ShareBook!Next, ShareBook!Transaction, ShareBook!Redeem
<1>9. CASE j.type = "transfer"
  <2>1. j.to \in Members
    BY <1>1, <1>9 DEF ShareJobs
  <2>2. db'.traded = [db.traded EXCEPT ![j.member] = @ - j.n, ![j.to] = @ + j.n]
    BY <1>2, <1>3, <1>5, <1>9, <2>1 DEF Parties, TradedBy
  <2>3. QED
    BY <1>4, <1>5, <1>6, <1>9, <2>1, <2>2
       DEF ShareBook!Next, ShareBook!Transaction, ShareBook!Move
<1>10. QED
  BY <1>1, <1>7, <1>8, <1>9 DEF ShareJobs

(* What record_share_transaction promises: on a serializable database the    *)
(* holdings of all members go through the transactions of the register, one  *)
(* at a time, and the transaction rows tell what everybody has.              *)
THEOREM SharesImplementRegister ==
    ASSUME Isolation = "serializable"
    PROVE  Spec => RegisterSpec
<1>1. Init => ShareBook!Init
  <2>1. /\ ShareTables.holdings = [m \in Members |-> <<>>]
        /\ ShareTables.traded = [m \in Members |-> 0]
        /\ {"holdings", "traded"} \subseteq DOMAIN ShareTables
    BY DEF ShareTables, NoGain
  <2>2. Init => db.holdings = [m \in Members |-> <<>>] /\ db.traded = [m \in Members |-> 0]
    BY <2>1, TheTables, TheStart DEF Columns
  <2>3. QED
    BY <2>2, HoldingSum DEF ShareBook!Init, Register, SharesOf
<1>2. WorkInv /\ ColumnsInv /\ SharesInv /\ [Next]_vars => [ShareBook!Next]_(ShareBook!vars)
  <2> SUFFICES ASSUME WorkInv, ColumnsInv, SharesInv, [Next]_vars
               PROVE  ShareBook!Next \/ UNCHANGED ShareBook!vars
    OBVIOUS
  <2>1. CASE OnlySent
    BY <2>1, SendingKeeps DEF Columns, ShareBook!vars, Register
  <2>2. ASSUME NEW op \in Ops, NEW j, NEW w, Alone(op, j, w)
        PROVE  ShareBook!Next \/ UNCHANGED ShareBook!vars
    <3>1. CASE op = "share_transaction"
      BY <2>2, <3>1, SharesStep, RegisterStep
    <3>2. CASE op # "share_transaction"
      BY <2>2, <3>2, SharesKept DEF ShareBook!vars, Register
    <3>3. QED
      BY <3>1, <3>2
  <2>3. QED
    BY <2>1, <2>2, StepAlone
<1>3. QED
  BY OneHoldingEach, <1>1, <1>2, PTL DEF Spec, RegisterSpec, ShareBook!Spec

-----------------------------------------------------------------------------
(* The accounts in the columns of d have the balances and the liability that *)
(* their rows add up to.                                                     *)
AccountsMatch(d) ==
    /\ d.balance \in [Members -> Nat]
    /\ d.rows \in [Members -> [Narratives -> Nat]]
    /\ d.liability \in Nat
    /\ \A m \in Members : d.balance[m] = SumFunctionOnSet(d.rows[m], Narratives)
    /\ d.liability = SumFunctionOnSet(d.balance, Members)

\* d is e but for credits of gain in rows of the narrative k
CreditedBy(d, e, k, gain) ==
    /\ d.rows \in [Members -> [Narratives -> Nat]]
    /\ \A m \in Members :
          /\ \A q \in Narratives \ {k} : d.rows[m][q] = e.rows[m][q]
          /\ d.rows[m][k] = e.rows[m][k] + (IF m \in Savers THEN gain[m] ELSE 0)

(* There are finitely many narratives.                                       *)
LEMMA FourNarratives == IsFiniteSet(Narratives)
<1>1. /\ IsFiniteSet({"dividend"}) /\ IsFiniteSet({"commission"})
      /\ IsFiniteSet({"tier"}) /\ IsFiniteSet({"payroll"})
  BY FS_Singleton
<1>2. IsFiniteSet({"dividend"} \cup {"commission"}) /\ IsFiniteSet({"tier"} \cup {"payroll"})
  BY <1>1, FS_Union
<1>3. IsFiniteSet(({"dividend"} \cup {"commission"}) \cup ({"tier"} \cup {"payroll"}))
  BY <1>2, FS_Union
<1>4. Narratives = ({"dividend"} \cup {"commission"}) \cup ({"tier"} \cup {"payroll"})
  BY DEF Narratives
<1>5. QED
  BY <1>3, <1>4

(* A credit on top of the balances there are keeps balances, rows and        *)
(* liability together.                                                       *)
LEMMA CreditMatches ==
    ASSUME NEW d, DOMAIN d = Columns, AccountsMatch(d), NEW k \in Narratives,
           NEW gain \in [Members -> Nat], NEW seen,
           \A m \in Savers : gain[m] > 0 => seen[m] = d.balance[m]
    PROVE  /\ AccountsMatch(Credit(d, seen, k, gain))
           /\ CreditedBy(Credit(d, seen, k, gain), d, k, gain)
<1> DEFINE paid  == {m \in Savers : gain[m] > 0}
           added == [m \in Members |-> IF m \in paid THEN gain[m] ELSE 0]
           e     == Credit(d, seen, k, gain)
<1>1. IsFiniteSet(Members) /\ paid \in SUBSET Members
  BY SaversAssumption
<1>2. /\ e.balance = [m \in Members |-> IF m \in paid THEN seen[m] + gain[m] ELSE d.balance[m]]
      /\ e.rows = [m \in Members |-> IF m \in paid THEN [d.rows[m] EXCEPT ![k] = @ + gain[m]]
                                     ELSE d.rows[m]]
      /\ e.liability = d.liability + SumFunctionOnSet(gain, paid)
  <2>1. {"balance", "rows", "liability"} \subseteq DOMAIN d
    BY DEF Columns, AccountColumns
  <2>2. e.balance = [m \in Members |-> IF m \in paid THEN seen[m] + gain[m] ELSE d.balance[m]]
    BY <2>1 DEF Credit
  <2>3. e.rows = [m \in Members |-> IF m \in paid THEN [d.rows[m] EXCEPT ![k] = @ + gain[m]]
                                    ELSE d.rows[m]]
    BY <2>1 DEF Credit
  <2>4. e.liability = d.liability + SumFunctionOnSet(gain, paid)
    BY <2>1 DEF Credit
  <2>5. QED
    BY <2>2, <2>3, <2>4
<1>3. added \in [Members -> Nat]
  OBVIOUS
<1>4. /\ d.balance \in [Members -> Nat] /\ d.rows \in [Members -> [Narratives -> Nat]]
      /\ d.liability \in Nat /\ d.liability = SumFunctionOnSet(d.balance, Members)
      /\ \A m \in Members : d.balance[m] = SumFunctionOnSet(d.rows[m], Narratives)
  BY DEF AccountsMatch
<1>5. ASSUME NEW m \in Members
      PROVE  /\ e.balance[m] = d.balance[m] + added[m]
             /\ e.rows[m] \in [Narratives -> Nat]
             /\ e.rows[m][k] = d.rows[m][k] + added[m]
             /\ \A q \in Narratives \ {k} : e.rows[m][q] = d.rows[m][q]
  <2>1. CASE m \in paid
    BY <1>2, <1>4, <2>1
  <2>2. CASE m \notin paid
    BY <1>2, <1>4, <2>2
  <2>3. QED
    BY <2>1, <2>2
<1>6. e.balance \in [Members -> Nat] /\ e.rows \in [Members -> [Narratives -> Nat]]
  <2> HIDE DEF added
  <2>1. /\ e.balance = [m \in Members |-> e.balance[m]]
        /\ e.rows = [m \in Members |-> e.rows[m]]
    BY <1>2
  <2>2. \A m \in Members : e.balance[m] \in Nat
    BY <1>3, <1>4, <1>5
  <2>3. QED
    BY <1>5, <2>1, <2>2
<1>7. \A m \in Members : added[m] = IF m \in Savers THEN gain[m] ELSE 0
  OBVIOUS
<1> HIDE DEF e, added
<1>8. ASSUME NEW m \in Members
      PROVE  e.balance[m] = SumFunctionOnSet(e.rows[m], Narratives)
  <2> DEFINE before == d.rows[m]
             after  == e.rows[m]
  <2>1. IsFiniteSet(Narratives)
    BY FourNarratives
  <2>2. before \in [Narratives -> Nat] /\ after \in [Narratives -> Nat]
    BY <1>4, <1>6
  <2>3. \A q \in Narratives \ {k} : before[q] = after[q]
    BY <1>5
  <2>4. SumFunctionOnSet(after, Narratives)
          = SumFunctionOnSet(before, Narratives) + after[k] - before[k]
    <3> HIDE DEF before, after
    <3>1. QED
      BY <2>1, <2>2, <2>3, SumChange
  <2>5. after[k] = before[k] + added[m] /\ before[k] \in Nat /\ added[m] \in Nat
    BY <1>3, <1>5, <2>2
  <2>6. e.balance[m] = d.balance[m] + added[m] /\ d.balance[m] \in Nat
        /\ d.balance[m] = SumFunctionOnSet(before, Narratives)
    BY <1>4, <1>5
  <2> HIDE DEF before, after
  <2>7. e.balance[m] = SumFunctionOnSet(after, Narratives)
    BY <2>4, <2>5, <2>6
  <2>8. QED
    BY <2>7 DEF after
<1>9. e.liability = SumFunctionOnSet(e.balance, Members) /\ e.liability \in Nat
  <2>1. SumFunctionOnSet(added, Members) = SumFunctionOnSet(added, paid)
    <3>1. \A y \in Members \ paid : added[y] = 0
      BY DEF added
    <3>2. QED
      BY <1>1, <1>3, <3>1, SumSupport
  <2>2. SumFunctionOnSet(added, paid) = SumFunctionOnSet(gain, paid)
    <3>1. IsFiniteSet(paid)
      BY <1>1, FS_Subset
    <3>2. \A y \in paid : added[y] \in Int /\ added[y] = gain[y]
      BY <1>1 DEF added
    <3> HIDE DEF paid
    <3>3. QED
      BY <3>1, <3>2, SumSame
  <2>3. SumFunctionOnSet(e.balance, Members)
          = SumFunctionOnSet(d.balance, Members) + SumFunctionOnSet(added, Members)
    <3> DEFINE old == d.balance
               new == e.balance
    <3>1. \A y \in Members : old[y] \in Int /\ added[y] \in Int /\ new[y] = old[y] + added[y]
      BY <1>3, <1>4, <1>5
    <3> HIDE DEF old, new
    <3>2. SumFunctionOnSet(new, Members)
            = SumFunctionOnSet(old, Members) + SumFunctionOnSet(added, Members)
      BY <1>1, <3>1, SumPlus
    <3>3. QED
      BY <3>2 DEF old, new
  <2>4. SumFunctionOnSet(added, Members) \in Nat
    BY <1>1, <1>3, SumNat
  <2> HIDE DEF paid
  <2>5. QED
    BY <1>2, <1>4, <2>1, <2>2, <2>3, <2>4 DEF e, paid
<1>10. QED
  BY <1>5, <1>6, <1>7, <1>8, <1>9 DEF AccountsMatch, CreditedBy, e

-----------------------------------------------------------------------------
\* the operations that credit savings accounts, under which narrative
AccountOps == {"dividend", "convert", "commission", "payroll_file"}

NarrativeOf(op) ==
    CASE op = "dividend"     -> "dividend"
      [] op = "convert"      -> "tier"
      [] op = "commission"   -> "commission"
      [] op = "payroll_file" -> "payroll"

\* and what each member gets from it
GainsOf(op, j, v) ==
    CASE op = "dividend"     -> IF j.reinvest THEN Payout(j, v) ELSE NoGain
      [] op = "convert"      -> TierGains(db.tier[j.user])
      [] op = "commission"   -> [NoGain EXCEPT ![ReferrerOf[j.referral]] = v.amount]
      [] op = "payroll_file" -> LineGains(j)

(* The same credit in columns that have other values elsewhere.              *)
LEMMA CreditBeside ==
    ASSUME NEW d, DOMAIN d = Columns, AccountsMatch(d), NEW c, DOMAIN c = Columns,
           \A t \in AccountColumns : c[t] = d[t],
           NEW k \in Narratives, NEW gain \in [Members -> Nat], NEW seen,
           \A m \in Savers : gain[m] > 0 => seen[m] = d.balance[m]
    PROVE  /\ AccountsMatch(Credit(c, seen, k, gain))
           /\ CreditedBy(Credit(c, seen, k, gain), d, k, gain)
<1>1. c.balance = d.balance /\ c.rows = d.rows /\ c.liability = d.liability
  BY DEF AccountColumns
<1>2. AccountsMatch(c)
  BY <1>1 DEF AccountsMatch
<1>3. AccountsMatch(Credit(c, seen, k, gain)) /\ CreditedBy(Credit(c, seen, k, gain), c, k, gain)
  BY <1>1, <1>2, CreditMatches
<1>4. QED
  BY <1>1, <1>3 DEF CreditedBy

(* A dividend pays every member a number, however old its reading.           *)
LEMMA PayoutTyped ==
    ASSUME NEW v, v.holdings \in [Members -> Holdings], NEW j \in DividendJobs
    PROVE  Payout(j, v) \in [Members -> Nat]
<1>1. \A m \in Members : SumFunction(v.holdings[m]) \in Nat
  BY HoldingSum DEF Holdings
<1>2. j.rate = 1
  BY DEF DividendJobs
<1>3. QED
  BY <1>1, <1>2 DEF Payout, SharesOf

(* There are finitely many tiers.                                            *)
LEMMA TwoTiers == IsFiniteSet({1, 2})
<1>1. IsFiniteSet({1}) /\ IsFiniteSet({2}) /\ {1, 2} = {1} \cup {2}
  BY FS_Singleton
<1>2. QED
  BY <1>1, FS_Union

(* A conversion pays tiers to the members whose balance it has read.         *)
LEMMA TierGainsPaid ==
    ASSUME NEW rows
    PROVE  /\ TierGains(rows) \in [Members -> Nat]
           /\ \A m \in Members : TierGains(rows)[m] > 0 => m \in Paid(rows)
<1>1. ASSUME NEW m \in Members
      PROVE  TierGains(rows)[m] \in Nat /\ (TierGains(rows)[m] > 0 => m \in Paid(rows))
  <2> DEFINE due == {t \in PendingTiers(rows) : MemberOf[rows[t].to] = m}
  <2>1. IsFiniteSet(due)
    <3>1. IsFiniteSet({1, 2})
      BY TwoTiers
    <3>2. due \subseteq {1, 2}
      BY DEF PendingTiers, Tiers
    <3>3. QED
      BY <3>1, <3>2, FS_Subset
  <2>2. \A t \in due : TierPay[t] \in Nat
    BY DEF TierPay, PendingTiers, Tiers
  <2>3. TierGains(rows)[m] = SumFunctionOnSet(TierPay, due)
    BY DEF TierGains
  <2>4. m \notin Paid(rows) => due = {}
    BY DEF Paid
  <2> HIDE DEF due
  <2>5. SumFunctionOnSet(TierPay, due) \in Nat
    BY <2>1, <2>2, SumNat
  <2>6. due = {} => SumFunctionOnSet(TierPay, due) = 0
    BY SumEmpty
  <2>7. QED
    BY <2>3, <2>4, <2>5, <2>6
<1>2. TierGains(rows) = [m \in Members |-> TierGains(rows)[m]]
  BY DEF TierGains
<1>3. QED
  BY <1>1, <1>2

(* A file has a number of lines for each member.                             *)
LEMMA LinesCounted ==
    ASSUME NEW j \in FileJobs
    PROVE  LineGains(j) \in [Members -> Nat]
<1>1. PICK n \in Nat : DOMAIN j.to = 1 .. n
  BY DEF FileJobs
<1>2. ASSUME NEW m \in Members PROVE LinesFor(j.to, m) \in Nat
  <2>1. {i \in 1 .. n : j.to[i] = m} \in SUBSET (1 .. n) /\ IsFiniteSet(1 .. n)
    BY FS_Interval
  <2>2. IsFiniteSet({i \in 1 .. n : j.to[i] = m})
    BY <2>1, FS_Subset
  <2>3. QED
    BY <1>1, <2>2, FS_CardinalityType DEF LinesFor
<1>3. QED
  BY <1>2 DEF LineGains

(* A reinvested dividend credits what everybody is paid.                     *)
LEMMA DividendCredits ==
    ASSUME ColumnsInv, AccountsMatch(db), NEW j, NEW w, Alone("dividend", j, w),
           w.holdings \in [Members -> Holdings]
    PROVE  /\ AccountsMatch(db')
           /\ CreditedBy(db', db, "dividend", GainsOf("dividend", j, w))
           /\ db'.dividends = Append(db.dividends, [payout |-> Payout(j, w), reinvested |-> j.reinvest])
<1> DEFINE declared == [db EXCEPT !.dividends =
                           Append(@, [payout |-> Payout(j, w), reinvested |-> j.reinvest])]
<1>1. /\ j \in DividendJobs /\ db' = DividendsPaid(j, w, db)
      /\ SameCredited(j, w, DividendReads(j, db))
  BY DEF Alone, Jobs, ReadBy, Same, Written, Sweeps, VaultOps
<1>2. Payout(j, w) \in [Members -> Nat]
  BY <1>1, PayoutTyped
<1>3. /\ DOMAIN declared = Columns /\ \A t \in AccountColumns : declared[t] = db[t]
      /\ declared.dividends = Append(db.dividends, [payout |-> Payout(j, w), reinvested |-> j.reinvest])
  BY <1>2 DEF ColumnsInv, Columns, AccountColumns
<1>4. CASE j.reinvest
  <2>1. db' = Credit(declared, w.balance, "dividend", Payout(j, w))
    BY <1>1, <1>4 DEF DividendsPaid
  <2>2. \A m \in Savers : Payout(j, w)[m] > 0 => w.balance[m] = db.balance[m]
    BY <1>1, <1>4 DEF SameCredited, DividendReads
  <2>3. GainsOf("dividend", j, w) = Payout(j, w)
    BY <1>4 DEF GainsOf
  <2> HIDE DEF declared
  <2>4. AccountsMatch(db') /\ CreditedBy(db', db, "dividend", Payout(j, w))
    BY <1>2, <1>3, <2>1, <2>2, CreditBeside DEF ColumnsInv, Narratives
  <2>5. db'.dividends = declared.dividends
    BY <1>3, <2>1, CreditKeeps DEF Columns, AccountColumns
  <2>6. QED
    BY <1>3, <2>3, <2>4, <2>5
<1>5. CASE ~j.reinvest
  <2>1. db' = declared /\ GainsOf("dividend", j, w) = NoGain
    BY <1>1, <1>5 DEF DividendsPaid, GainsOf
  <2>2. db'.balance = db.balance /\ db'.rows = db.rows /\ db'.liability = db.liability
    BY <1>3, <2>1 DEF AccountColumns
  <2>3. AccountsMatch(db')
    BY <2>2 DEF AccountsMatch
  <2>4. CreditedBy(db', db, "dividend", NoGain)
    BY <2>2 DEF CreditedBy, NoGain, AccountsMatch, Narratives
  <2>5. QED
    BY <1>3, <2>1, <2>3, <2>4
<1>6. QED
  BY <1>1, <1>4, <1>5 DEF DividendJobs

(* A conversion credits the tiers that were pending.                         *)
LEMMA ConversionCredits ==
    ASSUME ColumnsInv, AccountsMatch(db), NEW j, NEW w, Alone("convert", j, w)
    PROVE  /\ AccountsMatch(db')
           /\ CreditedBy(db', db, "tier", GainsOf("convert", j, w))
           /\ db'.tier = [db.tier EXCEPT ![j.user] = Completed(db.tier[j.user])]
<1> DEFINE v    == ConversionReads(j, db)
           done == [db EXCEPT !.tier[j.user] = Completed(v.rows)]
<1>1. db' = Credit(done, v.balance, "tier", TierGains(v.rows))
  BY DEF Alone, ReadBy, Same, Written, Sweeps, VaultOps, TiersCredited
<1>2. v.rows = db.tier[j.user]
  BY DEF ConversionReads
<1>3. /\ DOMAIN done = Columns /\ \A t \in AccountColumns : done[t] = db[t]
      /\ done.tier = [db.tier EXCEPT ![j.user] = Completed(db.tier[j.user])]
  BY <1>2 DEF ColumnsInv, Columns, AccountColumns
<1>4. GainsOf("convert", j, w) = TierGains(v.rows)
  BY <1>2 DEF GainsOf
<1>5. TierGains(v.rows) \in [Members -> Nat]
  BY TierGainsPaid
<1>6. \A m \in Savers : TierGains(v.rows)[m] > 0 => v.balance[m] = db.balance[m]
  BY <1>2, TierGainsPaid, SaversAssumption DEF ConversionReads
<1> HIDE DEF done, v
<1>7. AccountsMatch(db') /\ CreditedBy(db', db, "tier", TierGains(v.rows))
  BY <1>1, <1>3, <1>5, <1>6, CreditBeside DEF ColumnsInv, Narratives
<1>8. db'.tier = done.tier
  BY <1>1, <1>3, CreditKeeps DEF Columns, AccountColumns
<1>9. QED
  BY <1>3, <1>4, <1>7, <1>8

(* A commission credits what the settings said.                              *)
LEMMA CommissionCredits ==
    ASSUME ColumnsInv, AccountsMatch(db), NEW j, NEW w, Alone("commission", j, w),
           w.amount \in Nat
    PROVE  /\ AccountsMatch(db')
           /\ CreditedBy(db', db, "commission", GainsOf("commission", j, w))
           /\ db'.legacy = [db.legacy EXCEPT ![j.referral] =
                               [status |-> "commission_paid", amount |-> w.amount]]
<1> DEFINE m    == ReferrerOf[j.referral]
           done == [db EXCEPT !.legacy[j.referral] =
                       [status |-> "commission_paid", amount |-> w.amount]]
           seen == [NoGain EXCEPT ![m] = w.balance]
           gain == [NoGain EXCEPT ![m] = w.amount]
<1>1. /\ db' = Credit(done, seen, "commission", gain) /\ j \in CommissionJobs
      /\ SameReferral(j, w, CommissionReads(j, db))
  BY DEF Alone, Jobs, ReadBy, Same, Written, Sweeps, VaultOps, CommissionPaid
<1>2. w.balance = db.balance[m] /\ m \in Members
  BY <1>1, ReferralsAssumption DEF SameReferral, CommissionReads, CommissionJobs
<1>3. /\ DOMAIN done = Columns /\ \A t \in AccountColumns : done[t] = db[t]
      /\ done.legacy = [db.legacy EXCEPT ![j.referral] =
                           [status |-> "commission_paid", amount |-> w.amount]]
  BY DEF ColumnsInv, Columns, AccountColumns
<1>4. GainsOf("commission", j, w) = gain
  BY DEF GainsOf
<1>5. gain \in [Members -> Nat]
  BY <1>2 DEF NoGain
<1>6. \A n \in Savers : gain[n] > 0 => seen[n] = db.balance[n]
  BY <1>2, SaversAssumption DEF NoGain
<1> HIDE DEF done, seen, gain
<1>7. AccountsMatch(db') /\ CreditedBy(db', db, "commission", gain)
  BY <1>1, <1>3, <1>5, <1>6, CreditBeside DEF ColumnsInv, Narratives
<1>8. db'.legacy = done.legacy
  BY <1>1, <1>3, CreditKeeps DEF Columns, AccountColumns
<1>9. QED
  BY <1>3, <1>4, <1>7, <1>8

\* the row of an uploaded file
FileRow(to) == [to |-> to, status |-> [i \in DOMAIN to |->
                   IF to[i] = "untargeted" THEN "exception" ELSE "reconciled"]]

(* A file credits its lines.                                                 *)
LEMMA FileCredits ==
    ASSUME ColumnsInv, AccountsMatch(db), NEW j, NEW w, Alone("payroll_file", j, w)
    PROVE  /\ AccountsMatch(db')
           /\ CreditedBy(db', db, "payroll", GainsOf("payroll_file", j, w))
           /\ db'.files = Append(db.files, FileRow(j.to))
<1> DEFINE v    == FileReads(j, db)
           done == [db EXCEPT !.files = Append(@, FileRow(j.to))]
<1>1. db' = Credit(done, v, "payroll", LineGains(j)) /\ j \in FileJobs
  BY DEF Alone, Jobs, ReadBy, Same, Written, Sweeps, VaultOps, FileBooked, FileRow
<1>2. /\ DOMAIN done = Columns /\ \A t \in AccountColumns : done[t] = db[t]
      /\ done.files = Append(db.files, FileRow(j.to))
  BY DEF ColumnsInv, Columns, AccountColumns
<1>3. GainsOf("payroll_file", j, w) = LineGains(j)
  BY DEF GainsOf
<1>4. LineGains(j) \in [Members -> Nat]
  BY <1>1, LinesCounted
<1>5. \A m \in Savers : LineGains(j)[m] > 0 => v[m] = db.balance[m]
  BY SaversAssumption DEF FileReads, LineGains
<1> HIDE DEF done, v
<1>6. AccountsMatch(db') /\ CreditedBy(db', db, "payroll", LineGains(j))
  BY <1>1, <1>2, <1>4, <1>5, CreditBeside DEF ColumnsInv, Narratives
<1>7. db'.files = done.files
  BY <1>1, <1>2, CreditKeeps DEF Columns, AccountColumns
<1>8. QED
  BY <1>2, <1>3, <1>6, <1>7

-----------------------------------------------------------------------------
(* The accounts follow the dividends.                                        *)
DividendsInv ==
    /\ db.dividends \in Seq([payout : [Members -> Nat], reinvested : BOOLEAN])
    /\ ReinvestedIsCredited

(* They follow the payroll files.                                            *)
FilesInv ==
    /\ db.files \in Seq([to : Seq(Targets), status : Seq(Statuses)])
    /\ FilesBookTheirLines

\* what the dividends paid to m
PaidTo(dividends, m) ==
    [i \in DOMAIN dividends |-> IF dividends[i].reinvested THEN dividends[i].payout[m] ELSE 0]

(* A declaration adds its payouts.                                           *)
LEMMA DividendExplained ==
    ASSUME ColumnsInv, AccountsMatch(db), DividendsInv, NEW j, NEW w, Alone("dividend", j, w),
           w.holdings \in [Members -> Holdings]
    PROVE  DividendsInv'
<1> DEFINE row  == [payout |-> Payout(j, w), reinvested |-> j.reinvest]
           n    == Len(db.dividends)
           Rows == [payout : [Members -> Nat], reinvested : BOOLEAN]
<1>1. j \in DividendJobs
  BY DEF Alone, Jobs, Sweeps, VaultOps
<1>2. /\ CreditedBy(db', db, "dividend", GainsOf("dividend", j, w))
      /\ db'.dividends = Append(db.dividends, row)
  BY DividendCredits
<1>3. Payout(j, w) \in [Members -> Nat]
  BY <1>1, PayoutTyped
<1>4. row \in Rows
  BY <1>1, <1>3 DEF DividendJobs
<1>5. db.dividends \in Seq(Rows)
  BY DEF DividendsInv
<1>6. /\ n \in Nat /\ DOMAIN db.dividends = 1 .. n
      /\ \A i \in 1 .. n : db.dividends[i] \in Rows
      /\ db'.dividends \in Seq(Rows)
      /\ DOMAIN db'.dividends = 1 .. n + 1 /\ db'.dividends[n + 1] = row
      /\ \A i \in 1 .. n : db'.dividends[i] = db.dividends[i]
  <2> HIDE DEF row, Rows
  <2>1. QED
    BY <1>2, <1>4, <1>5, OneMoreRow
<1>7. ASSUME NEW m \in Savers
      PROVE  db'.rows[m]["dividend"] = SumFunction(PaidTo(db'.dividends, m))
  <2> DEFINE f == PaidTo(db.dividends, m)
             g == PaidTo(db'.dividends, m)
  <2>1. m \in Members
    BY SaversAssumption
  <2>2. /\ DOMAIN f = 1 .. n /\ DOMAIN g = 1 .. n + 1
        /\ \A i \in 1 .. n : f[i] \in Int /\ g[i] = f[i]
    BY <1>6, <2>1, SMTT(40) DEF PaidTo
  <2>3. g[n + 1] = (IF j.reinvest THEN Payout(j, w)[m] ELSE 0) /\ g[n + 1] \in Int
    BY <1>3, <1>6, <2>1 DEF PaidTo
  <2>4. GainsOf("dividend", j, w)[m] = IF j.reinvest THEN Payout(j, w)[m] ELSE 0
    BY <1>3, <2>1 DEF GainsOf, NoGain
  <2>5. db.rows[m]["dividend"] = SumFunction(f)
    BY DEF DividendsInv, ReinvestedIsCredited, PaidTo
  <2>6. db'.rows[m]["dividend"] = db.rows[m]["dividend"] + g[n + 1]
    BY <1>2, <2>1, <2>3, <2>4 DEF CreditedBy
  <2> HIDE DEF f, g, n
  <2>7. SumFunction(g) = SumFunction(f) + g[n + 1]
    BY <1>6, <2>2, <2>3, SumOneMore
  <2>8. QED
    BY <2>5, <2>6, <2>7 DEF g
<1>8. QED
  BY <1>6, <1>7 DEF DividendsInv, ReinvestedIsCredited, PaidTo

(* A file adds its lines.                                                    *)
LEMMA FileExplained ==
    ASSUME ColumnsInv, AccountsMatch(db), FilesInv, NEW j, NEW w, Alone("payroll_file", j, w)
    PROVE  FilesInv'
<1> DEFINE row   == FileRow(j.to)
           n     == Len(db.files)
           Lines == [to : Seq(Targets), status : Seq(Statuses)]
<1>1. j \in FileJobs
  BY DEF Alone, Jobs, Sweeps, VaultOps
<1>2. /\ CreditedBy(db', db, "payroll", GainsOf("payroll_file", j, w))
      /\ db'.files = Append(db.files, row)
  BY FileCredits
<1>3. row \in Lines
  <2>1. PICK k \in Nat : j.to \in [1 .. k -> Targets]
    BY <1>1 DEF FileJobs
  <2>2. j.to \in Seq(Targets) /\ row.to = j.to
    BY <2>1 DEF FileRow
  <2>3. row.status \in [1 .. k -> Statuses]
    BY <2>1 DEF FileRow, Statuses
  <2>4. row.status \in Seq(Statuses)
    BY <2>1, <2>3
  <2>5. QED
    BY <2>2, <2>4 DEF FileRow
<1>4. db.files \in Seq(Lines)
  BY DEF FilesInv
<1> HIDE DEF row
<1>5. /\ n \in Nat /\ DOMAIN db.files = 1 .. n /\ \A i \in 1 .. n : db.files[i] \in Lines
      /\ db'.files \in Seq(Lines)
      /\ DOMAIN db'.files = 1 .. n + 1 /\ db'.files[n + 1] = row
      /\ \A i \in 1 .. n : db'.files[i] = db.files[i]
  <2> HIDE DEF Lines
  <2>1. QED
    BY <1>2, <1>3, <1>4, OneMoreRow
<1>6. ASSUME NEW m \in Savers, NEW file \in Lines
      PROVE  Reconciled(file, m) \in Nat
  <2> DEFINE of == {i \in DOMAIN file.to : file.to[i] = m /\ file.status[i] = "reconciled"}
  <2>1. DOMAIN file.to = 1 .. Len(file.to) /\ Len(file.to) \in Nat
    OBVIOUS
  <2>2. IsFiniteSet(1 .. Len(file.to)) /\ of \subseteq 1 .. Len(file.to)
    BY <2>1, FS_Interval
  <2>3. IsFiniteSet(of)
    BY <2>2, FS_Subset
  <2>4. QED
    BY <2>3, FS_CardinalityType DEF Reconciled
<1>7. ASSUME NEW m \in Savers
      PROVE  Reconciled(row, m) = LinesFor(j.to, m)
  <2>1. m # "untargeted"
    BY FilesAssumption
  <2>2. {i \in DOMAIN row.to : row.to[i] = m /\ row.status[i] = "reconciled"}
          = {i \in DOMAIN j.to : j.to[i] = m}
    BY <2>1 DEF row, FileRow
  <2>3. QED
    BY <2>2 DEF Reconciled, LinesFor
<1>8. ASSUME NEW m \in Savers
      PROVE  db'.rows[m]["payroll"]
               = SumFunction([i \in DOMAIN db'.files |-> Reconciled(db'.files[i], m)])
  <2> DEFINE f == [i \in DOMAIN db.files |-> Reconciled(db.files[i], m)]
             g == [i \in DOMAIN db'.files |-> Reconciled(db'.files[i], m)]
  <2>1. m \in Members
    BY SaversAssumption
  <2>2. /\ DOMAIN f = 1 .. n /\ DOMAIN g = 1 .. n + 1
        /\ \A i \in 1 .. n : f[i] \in Int /\ g[i] = f[i]
    <3>1. DOMAIN f = 1 .. n /\ DOMAIN g = 1 .. n + 1
      BY <1>5
    <3>2. ASSUME NEW i \in 1 .. n
          PROVE  f[i] \in Int /\ g[i] = f[i]
      <4>1. f[i] = Reconciled(db.files[i], m) /\ g[i] = Reconciled(db'.files[i], m)
        BY <1>5
      <4> HIDE DEF f, g, n, Lines
      <4>2. db'.files[i] = db.files[i] /\ db.files[i] \in Lines
        BY <1>5
      <4>3. Reconciled(db.files[i], m) \in Nat
        BY <1>6, <4>2
      <4>4. QED
        BY <4>1, <4>2, <4>3
    <3>3. QED
      BY <3>1, <3>2
  <2>3. g[n + 1] = LinesFor(j.to, m) /\ g[n + 1] \in Int
    <3>1. n + 1 \in DOMAIN db'.files
      BY <1>5
    <3>2. g[n + 1] = Reconciled(row, m)
      BY <1>5, <3>1
    <3>3. QED
      BY <1>3, <1>6, <1>7, <3>2
  <2>4. GainsOf("payroll_file", j, w)[m] = LinesFor(j.to, m)
    BY <2>1 DEF GainsOf, LineGains
  <2>5. db.rows[m]["payroll"] = SumFunction(f)
    BY DEF FilesInv, FilesBookTheirLines
  <2>6. db'.rows[m]["payroll"] = db.rows[m]["payroll"] + g[n + 1]
    BY <1>2, <2>1, <2>3, <2>4 DEF CreditedBy
  <2> HIDE DEF f, g, n
  <2>7. SumFunction(g) = SumFunction(f) + g[n + 1]
    BY <1>5, <2>2, <2>3, SumOneMore
  <2>8. QED
    BY <2>5, <2>6, <2>7 DEF g
<1>9. QED
  BY <1>5, <1>8 DEF FilesInv, FilesBookTheirLines

-----------------------------------------------------------------------------
\* the tiers of u that were paid to m
PaidTiers(tier, m) ==
    {x \in Users \X Tiers : /\ tier[x[1]][x[2]].status = "completed"
                            /\ MemberOf[tier[x[1]][x[2]].to] = m}

(* Referral rows name registered users, and only those of registered users   *)
(* name anybody; an older referral has an amount once it is paid.            *)
ReferralsInv ==
    /\ ReferralsTypeOK
    /\ \A u \in Users : \A t \in Tiers :
          /\ db.tier[u][t].to \in db.users \cup {Nobody}
          /\ u \notin db.users => db.tier[u][t] = NoReferral
    /\ \A r \in Legacy : db.legacy[r].status = "registered" => db.legacy[r].amount = 0
    /\ TiersFollowChain

(* At the start nobody has been referred.                                    *)
LEMMA NobodyReferred == Init => ReferralsInv
<1> SUFFICES ASSUME Init PROVE ReferralsInv
  OBVIOUS
<1>1. /\ ReferralTables.users = Founders
      /\ ReferralTables.tier = [u \in Users |-> [t \in Tiers |-> NoReferral]]
      /\ ReferralTables.legacy = [r \in Legacy |-> [status |-> "registered", amount |-> 0]]
      /\ ReferralTables.commission = 0
      /\ {"users", "tier", "legacy", "commission"} \subseteq DOMAIN ReferralTables
  BY DEF ReferralTables
<1>2. /\ db.users = Founders
      /\ db.tier = [u \in Users |-> [t \in Tiers |-> NoReferral]]
      /\ db.legacy = [r \in Legacy |-> [status |-> "registered", amount |-> 0]]
      /\ db.commission = 0
  BY <1>1, TheTables, TheStart DEF Columns
<1>3. NoReferral \in [to : Users \cup {Nobody}, status : {"none", "pending", "completed"}]
      /\ NoReferral.to = Nobody
  BY DEF NoReferral
<1>4. ReferralsTypeOK
  BY <1>2, <1>3, ReferralsAssumption DEF ReferralsTypeOK
<1>5. TiersFollowChain
  BY <1>2, <1>3, ReferralsAssumption DEF TiersFollowChain, Tiers
<1>6. QED
  BY <1>2, <1>3, <1>4, <1>5 DEF ReferralsInv

(* A registration names the owner of the code and that user's referrer.      *)
LEMMA RegistrationFollowsChain ==
    ASSUME ColumnsInv, ReferralsInv, NEW j, NEW w, Alone("register", j, w),
           Fits("register", j, w)
    PROVE  ReferralsInv'
<1> DEFINE u   == j.user
           row == TierRows(j, w)
<1>1. /\ j \in RegisterJobs /\ EmailIsFree(j, w) /\ db' = UserRegistered(j, w, db)
      /\ SameEmail(j, w, ReferrersRead(j, db))
  BY DEF Alone, Jobs, Accepts, ReadBy, Same, Written, Sweeps, VaultOps
<1>2. u \in Users /\ u \notin db.users
  BY <1>1 DEF RegisterJobs, EmailIsFree, SameEmail, ReferrersRead
<1>3. /\ db'.users = db.users \cup {u} /\ db'.tier = [db.tier EXCEPT ![u] = row]
      /\ db'.legacy = db.legacy /\ db'.commission = db.commission
  BY <1>1, <1>2 DEF UserRegistered, ColumnsInv, Columns
<1>4. /\ w.ref \in db.users \cup {Nobody}
      /\ w.above = IF w.ref = Nobody THEN Nobody ELSE db.tier[w.ref][1].to
      /\ w.above \in db.users \cup {Nobody}
  BY ReferralsAssumption DEF Fits, ReferralsInv, ReferralsTypeOK, Tiers
<1>5. db.users \subseteq Users /\ Nobody \notin Users
  BY ReferralsAssumption DEF ReferralsInv, ReferralsTypeOK
<1> HIDE DEF u
<1>6. /\ row \in [Tiers -> [to : Users \cup {Nobody}, status : {"none", "pending", "completed"}]]
      /\ row[1].to = w.ref /\ row[2].to = w.above
  BY <1>4, <1>5 DEF TierRows, Pending, NoReferral, Tiers
<1> HIDE DEF row
<1>7. /\ db.tier \in [Users -> [Tiers -> [to : Users \cup {Nobody},
                                        status : {"none", "pending", "completed"}]]]
      /\ db'.tier[u] = row /\ \A x \in Users \ {u} : db'.tier[x] = db.tier[x]
  BY <1>2, <1>3 DEF ReferralsInv, ReferralsTypeOK
<1>8. ReferralsTypeOK'
  BY <1>2, <1>3, <1>6, <1>7 DEF ReferralsInv, ReferralsTypeOK
<1>9. ASSUME NEW x \in Users, NEW t \in Tiers
      PROVE  /\ db'.tier[x][t].to \in db'.users \cup {Nobody}
             /\ x \notin db'.users => db'.tier[x][t] = NoReferral
  BY <1>3, <1>4, <1>6, <1>7 DEF ReferralsInv, Tiers
<1>10. ASSUME NEW x \in Users
       PROVE  LET up == db'.tier[x][1].to IN
              /\ up # x /\ db'.tier[x][2].to # x
              /\ db'.tier[x][2].to = IF up = Nobody THEN Nobody ELSE db'.tier[up][1].to
  <2>1. CASE x = u
    <3>1. db'.tier[x][1].to = w.ref /\ db'.tier[x][2].to = w.above
      BY <1>6, <1>7, <2>1
    <3>2. w.ref # u /\ w.above # u
      BY <1>2, <1>4, <1>5
    <3>3. w.ref # Nobody => db'.tier[w.ref] = db.tier[w.ref]
      BY <1>4, <1>5, <1>7, <3>2
    <3>4. QED
      BY <1>4, <2>1, <3>1, <3>2, <3>3
  <2>2. CASE x # u
    <3>1. db'.tier[x] = db.tier[x] /\ db.tier[x][1].to \in db.users \cup {Nobody}
      BY <1>7, <2>2 DEF ReferralsInv, Tiers
    <3>2. db.tier[x][1].to # Nobody => db'.tier[db.tier[x][1].to] = db.tier[db.tier[x][1].to]
      BY <1>2, <1>5, <1>7, <3>1
    <3>3. QED
      BY <3>1, <3>2 DEF ReferralsInv, TiersFollowChain
  <2>3. QED
    BY <2>1, <2>2
<1>11. TiersFollowChain'
  BY <1>10 DEF TiersFollowChain
<1>12. QED
  BY <1>3, <1>8, <1>9, <1>11 DEF ReferralsInv

(* A conversion keeps whom the tiers name.                                   *)
LEMMA ConversionFollowsChain ==
    ASSUME ColumnsInv, ReferralsInv, AccountsMatch(db), NEW j, NEW w, Alone("convert", j, w)
    PROVE  ReferralsInv'
<1> DEFINE u == j.user
           TierRow == [to : Users \cup {Nobody}, status : {"none", "pending", "completed"}]
<1>1. u \in Users
  BY DEF Alone, Jobs, Sweeps, VaultOps, ConversionJobs
<1>2. db'.tier = [db.tier EXCEPT ![u] = Completed(db.tier[u])]
  BY ConversionCredits
<1>3. db'.users = db.users /\ db'.legacy = db.legacy /\ db'.commission = db.commission
  <2>1. "convert" \in Ops /\ {"users", "legacy", "commission"} \subseteq Columns \ WrittenBy("convert")
    BY DEF Ops, OtherOps, Sweeps, VaultOps, WrittenBy, Columns, AccountColumns
  <2>2. QED
    BY <2>1, Kept
<1>4. db.tier \in [Users -> [Tiers -> TierRow]]
  BY DEF ReferralsInv, ReferralsTypeOK
<1>5. ASSUME NEW x \in Users, NEW t \in Tiers
      PROVE  /\ db'.tier[x][t] \in TierRow /\ db'.tier[x][t].to = db.tier[x][t].to
             /\ db.tier[x][t] = NoReferral => db'.tier[x][t] = NoReferral
  BY <1>1, <1>2, <1>4 DEF Completed, PendingTiers, NoReferral
<1>6. db'.tier = [x \in Users |-> [t \in Tiers |-> db'.tier[x][t]]]
  BY <1>1, <1>2, <1>4 DEF Completed
<1>7. db'.tier \in [Users -> [Tiers -> TierRow]]
  BY <1>5, <1>6
<1>8. ReferralsTypeOK'
  BY <1>3, <1>7 DEF ReferralsInv, ReferralsTypeOK
<1>9. \A x \in Users : \A t \in Tiers :
         /\ db'.tier[x][t].to \in db'.users \cup {Nobody}
         /\ x \notin db'.users => db'.tier[x][t] = NoReferral
  BY <1>3, <1>5 DEF ReferralsInv
<1>10. TiersFollowChain'
  <2>1. ASSUME NEW x \in Users
        PROVE  /\ db'.tier[x][1].to = db.tier[x][1].to /\ db'.tier[x][2].to = db.tier[x][2].to
               /\ db.tier[x][1].to \in Users \cup {Nobody}
    BY <1>4, <1>5 DEF Tiers
  <2>2. ASSUME NEW x \in Users
        PROVE  LET up == db'.tier[x][1].to IN
               /\ up # x /\ db'.tier[x][2].to # x
               /\ db'.tier[x][2].to = IF up = Nobody THEN Nobody ELSE db'.tier[up][1].to
    <3> DEFINE up == db.tier[x][1].to
    <3>1. /\ up # x /\ db.tier[x][2].to # x
          /\ db.tier[x][2].to = IF up = Nobody THEN Nobody ELSE db.tier[up][1].to
      BY DEF ReferralsInv, TiersFollowChain
    <3>2. up # Nobody => db'.tier[up][1].to = db.tier[up][1].to
      BY <2>1
    <3>3. db'.tier[x][1].to = up /\ db'.tier[x][2].to = db.tier[x][2].to
      BY <2>1
    <3> HIDE DEF up
    <3>4. QED
      BY <3>1, <3>2, <3>3
  <2>3. QED
    BY <2>2 DEF TiersFollowChain
<1>11. QED
  BY <1>3, <1>8, <1>9, <1>10 DEF ReferralsInv

(* So does every other request.                                              *)
LEMMA ReferralsStep ==
    ASSUME ColumnsInv, ReferralsInv, AccountsMatch(db), NEW op \in Ops, NEW j, NEW w, Alone(op, j, w),
           Fits(op, j, w)
    PROVE  ReferralsInv'
<1>1. CASE op = "register"
  BY <1>1, RegistrationFollowsChain
<1>2. CASE op = "convert"
  BY <1>2, ConversionFollowsChain
<1>3. CASE op = "settings"
  <2>1. j \in SettingsJobs /\ db' = CommissionSet(j, w, db)
    BY <1>3 DEF Alone, Jobs, Written, Sweeps, VaultOps
  <2>2. /\ db'.users = db.users /\ db'.tier = db.tier /\ db'.legacy = db.legacy
        /\ db'.commission \in Nat
    BY <2>1 DEF CommissionSet, SettingsJobs, ColumnsInv, Columns
  <2>3. QED
    BY <2>2 DEF ReferralsInv, ReferralsTypeOK, TiersFollowChain
<1>4. CASE op = "commission"
  <2>1. w.amount \in Nat /\ j.referral \in Legacy
    BY <1>4 DEF Fits, Alone, Jobs, Sweeps, VaultOps, CommissionJobs
  <2>2. db'.legacy = [db.legacy EXCEPT ![j.referral] =
                         [status |-> "commission_paid", amount |-> w.amount]]
    BY <1>4, <2>1, CommissionCredits
  <2>3. db'.users = db.users /\ db'.tier = db.tier /\ db'.commission = db.commission
    <3>1. {"users", "tier", "commission"} \subseteq Columns \ WrittenBy(op)
      BY <1>4 DEF Ops, OtherOps, Sweeps, VaultOps, WrittenBy, Columns, AccountColumns
    <3>2. QED
      BY <3>1, Kept
  <2>4. QED
    BY <2>1, <2>2, <2>3 DEF ReferralsInv, ReferralsTypeOK, TiersFollowChain
<1>5. CASE op \notin {"register", "convert", "settings", "commission"}
  <2>1. {"users", "tier", "legacy", "commission"} \subseteq Columns \ WrittenBy(op)
    BY <1>5 DEF Ops, OtherOps, Sweeps, VaultOps, WrittenBy, Columns, AccountColumns
  <2>2. /\ db'.users = db.users /\ db'.tier = db.tier /\ db'.legacy = db.legacy
        /\ db'.commission = db.commission
    BY <2>1, Kept
  <2>3. QED
    BY <2>2 DEF ReferralsInv, ReferralsTypeOK, TiersFollowChain
<1>6. QED
  BY <1>1, <1>2, <1>3, <1>4, <1>5

-----------------------------------------------------------------------------
(* A request credits accounts under its own narrative, or leaves them alone. *)
LEMMA AccountsStep ==
    ASSUME ColumnsInv, SharesInv, ReferralsInv, AccountsMatch(db), NEW op \in Ops, NEW j, NEW w,
           Alone(op, j, w), Fits(op, j, w)
    PROVE  /\ AccountsMatch(db')
           /\ op \in AccountOps => CreditedBy(db', db, NarrativeOf(op), GainsOf(op, j, w))
           /\ op \notin AccountOps => db'.rows = db.rows
<1>1. CASE op = "dividend"
  BY <1>1, DividendCredits DEF Fits, NarrativeOf, AccountOps
<1>2. CASE op = "convert"
  BY <1>2, ConversionCredits DEF NarrativeOf, AccountOps
<1>3. CASE op = "commission"
  BY <1>3, CommissionCredits DEF Fits, NarrativeOf, AccountOps
<1>4. CASE op = "payroll_file"
  BY <1>4, FileCredits DEF NarrativeOf, AccountOps
<1>5. CASE op \notin AccountOps
  <2>1. AccountColumns \subseteq Columns \ WrittenBy(op)
    BY <1>5 DEF Ops, OtherOps, Sweeps, VaultOps, WrittenBy, Columns, AccountColumns, AccountOps
  <2>2. db'.balance = db.balance /\ db'.rows = db.rows /\ db'.liability = db.liability
    BY <2>1, Kept DEF AccountColumns
  <2>3. QED
    BY <1>5, <2>2 DEF AccountsMatch
<1>6. QED
  BY <1>1, <1>2, <1>3, <1>4, <1>5 DEF AccountOps

(* The rows of one narrative are written by one operation only.              *)
LEMMA OtherNarratives ==
    ASSUME ColumnsInv, SharesInv, ReferralsInv, AccountsMatch(db), NEW op \in Ops, NEW j, NEW w,
           Alone(op, j, w), Fits(op, j, w), NEW m \in Members, NEW k \in Narratives,
           op \in AccountOps => NarrativeOf(op) # k
    PROVE  db'.rows[m][k] = db.rows[m][k]
BY AccountsStep DEF CreditedBy

(* A conversion pays each pending tier to the member of its referrer.        *)
LEMMA ConversionPaysTiers ==
    ASSUME ColumnsInv, ReferralsInv, AccountsMatch(db), NEW j, NEW w, Alone("convert", j, w),
           NEW m \in Savers, NEW pay, pay = [x \in Users \X Tiers |-> TierPay[x[2]]],
           db.rows[m]["tier"] = SumFunctionOnSet(pay, PaidTiers(db.tier, m))
    PROVE  db'.rows[m]["tier"] = SumFunctionOnSet(pay, PaidTiers(db'.tier, m))
<1> DEFINE u      == j.user
           rows   == db.tier[u]
           due    == {t \in PendingTiers(rows) : MemberOf[rows[t].to] = m}
           named  == [t \in Tiers |-> <<u, t>>]
           new    == {named[t] : t \in due}
           before == PaidTiers(db.tier, m)
<1>1. u \in Users /\ m \in Members
  BY SaversAssumption DEF Alone, Jobs, Sweeps, VaultOps, ConversionJobs
<1>2. /\ db'.tier = [db.tier EXCEPT ![u] = Completed(rows)]
      /\ CreditedBy(db', db, "tier", GainsOf("convert", j, w))
  BY ConversionCredits
<1>3. db'.rows[m]["tier"] = db.rows[m]["tier"] + SumFunctionOnSet(TierPay, due)
  BY <1>1, <1>2 DEF CreditedBy, GainsOf, TierGains
<1>4. db.tier \in [Users -> [Tiers -> [to : Users \cup {Nobody},
                                       status : {"none", "pending", "completed"}]]]
  BY DEF ReferralsInv, ReferralsTypeOK
<1>5. due \subseteq Tiers /\ \A t \in due : rows[t].status = "pending"
  BY DEF PendingTiers
<1>6. before \cap new = {} /\ new \subseteq Users \X Tiers
  <2>1. ASSUME NEW t \in due PROVE <<u, t>> \notin before
    BY <1>5, <2>1 DEF PaidTiers
  <2>2. \A t \in due : named[t] = <<u, t>> /\ <<u, t>> \in Users \X Tiers
    BY <1>1, <1>5
  <2> HIDE DEF before, due, named
  <2>3. QED
    BY <2>1, <2>2, ZenonT(40)
<1>7. PaidTiers(db'.tier, m) = before \cup new
  <2>1. ASSUME NEW y \in Users, NEW t \in Tiers
        PROVE  <<y, t>> \in PaidTiers(db'.tier, m) <=> <<y, t>> \in before \cup new
    <3>1. CASE y # u
      <4>1. db'.tier[y] = db.tier[y]
        BY <1>1, <1>2, <1>4, <3>1
      <4>2. <<y, t>> \notin new
        BY <1>5, <3>1
      <4>3. QED
        BY <4>1, <4>2 DEF PaidTiers
    <3>2. CASE y = u
      <4>1. db'.tier[u] = Completed(rows)
        BY <1>1, <1>2, <1>4
      <4>2. <<u, t>> \in new <=> t \in due
        BY <1>5
      <4>3. CASE t \in PendingTiers(rows)
        <5>1. db'.tier[u][t] = [rows[t] EXCEPT !.status = "completed"]
          BY <4>1, <4>3 DEF Completed
        <5>2. rows[t] \in [to : Users \cup {Nobody}, status : {"none", "pending", "completed"}]
          BY <1>1, <1>4
        <5>3. db'.tier[u][t].status = "completed" /\ db'.tier[u][t].to = rows[t].to
          BY <5>1, <5>2
        <5>4. rows[t].status = "pending"
          BY <4>3 DEF PendingTiers
        <5>5. QED
          BY <1>1, <3>2, <4>2, <4>3, <5>3, <5>4 DEF PaidTiers
      <4>4. CASE t \notin PendingTiers(rows)
        <5>1. db'.tier[u][t] = rows[t]
          BY <4>1, <4>4 DEF Completed
        <5>2. QED
          BY <1>1, <3>2, <4>2, <4>4, <5>1 DEF PaidTiers
      <4>5. QED
        BY <4>3, <4>4
    <3>3. QED
      BY <3>1, <3>2
  <2>2. /\ PaidTiers(db'.tier, m) \subseteq Users \X Tiers
        /\ before \cup new \subseteq Users \X Tiers
    BY <1>6 DEF PaidTiers
  <2> HIDE DEF before, new
  <2>3. QED
    BY <2>1, <2>2
<1>8. IsFiniteSet(Users \X Tiers) /\ IsFiniteSet(due)
  <2>1. IsFiniteSet(Users) /\ IsFiniteSet(Tiers)
    BY ReferralsAssumption, TwoTiers DEF Tiers
  <2>2. IsFiniteSet(Users \X Tiers)
    BY <2>1, FS_Product
  <2>3. QED
    BY <1>5, <2>1, <2>2, FS_Subset
<1>9. /\ \A t \in Tiers : TierPay[t] \in Int
      /\ \A x \in Users \X Tiers : pay[x] \in Int
  BY DEF TierPay, Tiers
<1>10. SumFunctionOnSet(pay, new) = SumFunctionOnSet(TierPay, due)
  <2>1. \A t \in due : TierPay[t] \in Int
    BY <1>5, <1>9
  <2>2. \A t \in due : pay[named[t]] = TierPay[t]
    BY <1>1, <1>5
  <2>3. \A s, t \in due : named[s] = named[t] => s = t
    BY <1>5
  <2>4. IsFiniteSet(due)
    BY <1>8
  <2> HIDE DEF due, named
  <2>5. QED
    BY ONLY <2>1, <2>2, <2>3, <2>4, SumRenamed
<1>11. SumFunctionOnSet(pay, before \cup new)
         = SumFunctionOnSet(pay, before) + SumFunctionOnSet(pay, new)
  <2>1. before \cup new \subseteq Users \X Tiers
    BY <1>6 DEF PaidTiers
  <2>2. IsFiniteSet(before) /\ IsFiniteSet(new)
    BY <1>8, <2>1, FS_Subset
  <2> HIDE DEF before, new
  <2>3. \A x \in before \cup new : pay[x] \in Int
    BY <1>9, <2>1
  <2>4. before \cap new = {}
    BY <1>6
  <2>5. QED
    BY ONLY <2>2, <2>3, <2>4, SumUnion
<1> HIDE DEF new, due, before
<1>12. QED
  BY <1>3, <1>7, <1>10, <1>11 DEF before

(* A commission is paid at the amount that its row records.                  *)
LEMMA CommissionPaysOnce ==
    ASSUME ColumnsInv, ReferralsInv, AccountsMatch(db), NEW j, NEW w, Alone("commission", j, w),
           w.amount \in Nat, NEW m \in Savers,
           db.rows[m]["commission"] =
              SumFunctionOnSet([r \in Legacy |-> db.legacy[r].amount],
                               {r \in Legacy : ReferrerOf[r] = m})
    PROVE  db'.rows[m]["commission"] =
              SumFunctionOnSet([r \in Legacy |-> db'.legacy[r].amount],
                               {r \in Legacy : ReferrerOf[r] = m})
<1> DEFINE q   == j.referral
           of  == {r \in Legacy : ReferrerOf[r] = m}
           old == [r \in Legacy |-> db.legacy[r].amount]
           new == [r \in Legacy |-> db'.legacy[r].amount]
<1>1. /\ q \in Legacy /\ CommissionDue(j, w) /\ m \in Members
      /\ SameReferral(j, w, CommissionReads(j, db))
  BY SaversAssumption DEF Alone, Jobs, Accepts, ReadBy, Same, Sweeps, VaultOps, CommissionJobs
<1>2. w.amount \in Nat
  OBVIOUS
<1>3. /\ db'.legacy = [db.legacy EXCEPT ![q] =
                          [status |-> "commission_paid", amount |-> w.amount]]
      /\ CreditedBy(db', db, "commission", GainsOf("commission", j, w))
  BY <1>2, CommissionCredits
<1>4. db.legacy[q].amount = 0
  BY <1>1 DEF CommissionDue, SameReferral, CommissionReads, ReferralsInv
<1>5. db.legacy \in [Legacy -> [status : {"registered", "commission_paid"}, amount : Nat]]
  BY DEF ReferralsInv, ReferralsTypeOK
<1>6. \A r \in Legacy : old[r] \in Int /\ new[r] \in Int
  BY <1>2, <1>3, <1>5
<1>7. old[q] = 0 /\ new[q] = w.amount /\ \A r \in Legacy \ {q} : new[r] = old[r]
  BY <1>1, <1>3, <1>4, <1>5
<1>8. IsFiniteSet(of) /\ of \subseteq Legacy
  BY ReferralsAssumption, FS_Subset
<1>9. db'.rows[m]["commission"] = db.rows[m]["commission"] + GainsOf("commission", j, w)[m]
  BY <1>1, <1>3 DEF CreditedBy
<1>10. GainsOf("commission", j, w)[m] = IF ReferrerOf[q] = m THEN w.amount ELSE 0
  BY <1>1, ReferralsAssumption DEF GainsOf, NoGain
<1>11. db.rows[m]["commission"] = SumFunctionOnSet(old, of)
  OBVIOUS
<1>12. q \in of <=> ReferrerOf[q] = m
  BY <1>1
<1> HIDE DEF of, old, new
<1>13. SumFunctionOnSet(old, of) \in Int
  BY <1>6, <1>8, SumTerms
<1>14. CASE q \in of
  <2>1. SumFunctionOnSet(new, of) = SumFunctionOnSet(old, of) + new[q] - old[q]
    BY <1>6, <1>7, <1>8, <1>14, SumChange
  <2>2. db'.rows[m]["commission"] = SumFunctionOnSet(new, of)
    BY <1>2, <1>7, <1>9, <1>10, <1>11, <1>12, <1>13, <1>14, <2>1
  <2>3. QED
    BY <2>2 DEF of, new
<1>15. CASE q \notin of
  <2>1. SumFunctionOnSet(old, of) = SumFunctionOnSet(new, of)
    <3>1. \A r \in of : old[r] \in Int /\ old[r] = new[r]
      BY <1>6, <1>7, <1>8, <1>15
    <3>2. QED
      BY <1>8, <3>1, SumSame
  <2>2. db'.rows[m]["commission"] = SumFunctionOnSet(new, of)
    BY <1>9, <1>10, <1>11, <1>12, <1>13, <1>15, <2>1
  <2>3. QED
    BY <2>2 DEF of, new
<1>16. QED
  BY <1>14, <1>15

(* Nothing is paid for a registration.                                       *)
LEMMA RegistrationPaysNobody ==
    ASSUME ColumnsInv, ReferralsInv, NEW j, NEW w, Alone("register", j, w), NEW m
    PROVE  PaidTiers(db'.tier, m) = PaidTiers(db.tier, m)
<1> DEFINE u   == j.user
           row == TierRows(j, w)
<1>1. /\ j \in RegisterJobs /\ EmailIsFree(j, w) /\ db' = UserRegistered(j, w, db)
      /\ SameEmail(j, w, ReferrersRead(j, db))
  BY DEF Alone, Jobs, Accepts, ReadBy, Same, Written, Sweeps, VaultOps
<1>2. u \in Users /\ u \notin db.users
  BY <1>1 DEF RegisterJobs, EmailIsFree, SameEmail, ReferrersRead
<1>3. db'.tier = [db.tier EXCEPT ![u] = row]
  BY <1>1, <1>2 DEF UserRegistered, ColumnsInv, Columns
<1>4. /\ DOMAIN db.tier = Users
      /\ \A t \in Tiers : db.tier[u][t].status # "completed"
  BY <1>2 DEF ReferralsInv, ReferralsTypeOK, NoReferral
<1>5. \A t \in Tiers : row[t].status # "completed"
  BY DEF TierRows, Pending, NoReferral
<1> HIDE DEF u, row
<1>6. ASSUME NEW x \in Users, NEW t \in Tiers
      PROVE  <<x, t>> \in PaidTiers(db'.tier, m) <=> <<x, t>> \in PaidTiers(db.tier, m)
  <2>1. CASE x = u
    <3>1. db'.tier[x] = row
      BY <1>3, <1>4, <2>1
    <3>2. QED
      BY <1>4, <1>5, <2>1, <3>1 DEF PaidTiers
  <2>2. CASE x # u
    <3>1. db'.tier[x] = db.tier[x]
      BY <1>3, <1>4, <2>2
    <3>2. QED
      BY <3>1 DEF PaidTiers
  <2>3. QED
    BY <2>1, <2>2
<1>7. /\ PaidTiers(db'.tier, m) \subseteq Users \X Tiers
      /\ PaidTiers(db.tier, m) \subseteq Users \X Tiers
  BY DEF PaidTiers
<1>8. QED
  BY <1>6, <1>7

(* What the accounts received for referrals stays what the rows say.         *)
LEMMA ReferralsStayPaidOnce ==
    ASSUME ColumnsInv, SharesInv, ReferralsInv, AccountsMatch(db), ReferralsPaidOnce,
           NEW op \in Ops, NEW j, NEW w, Alone(op, j, w), Fits(op, j, w)
    PROVE  ReferralsPaidOnce'
<1> DEFINE pay     == [x \in Users \X Tiers |-> TierPay[x[2]]]
           older(m) == SumFunctionOnSet([r \in Legacy |-> db.legacy[r].amount],
                                        {r \in Legacy : ReferrerOf[r] = m})
<1>1. \A m \in Savers : /\ db.rows[m]["tier"] = SumFunctionOnSet(pay, PaidTiers(db.tier, m))
                        /\ db.rows[m]["commission"] = older(m)
  BY DEF ReferralsPaidOnce, PaidTiers
<1>2. ASSUME NEW m \in Savers
      PROVE  db'.rows[m]["tier"] = SumFunctionOnSet(pay, PaidTiers(db'.tier, m))
  <2>1. CASE op = "convert"
    <3>1. db.rows[m]["tier"] = SumFunctionOnSet(pay, PaidTiers(db.tier, m))
      BY <1>1
    <3>2. pay = [x \in Users \X Tiers |-> TierPay[x[2]]]
      OBVIOUS
    <3> HIDE DEF pay
    <3>3. QED
      BY <2>1, <3>1, <3>2, ConversionPaysTiers
  <2>2. CASE op # "convert"
    <3>1. op \in AccountOps => NarrativeOf(op) # "tier"
      BY <2>2 DEF AccountOps, NarrativeOf
    <3>2. db'.rows[m]["tier"] = db.rows[m]["tier"]
      BY <3>1, OtherNarratives, SaversAssumption DEF Narratives
    <3>3. PaidTiers(db'.tier, m) = PaidTiers(db.tier, m)
      <4>1. CASE op = "register"
        BY <4>1, RegistrationPaysNobody
      <4>2. CASE op # "register"
        <5>1. "tier" \in Columns \ WrittenBy(op)
          BY <2>2, <4>2 DEF Ops, OtherOps, Sweeps, VaultOps, WrittenBy, Columns, AccountColumns
        <5>2. db'.tier = db.tier
          BY <5>1, Kept
        <5>3. QED
          BY <5>2
      <4>3. QED
        BY <4>1, <4>2
    <3> HIDE DEF pay
    <3>4. QED
      BY <1>1, <3>2, <3>3
  <2>3. QED
    BY <2>1, <2>2
<1>3. ASSUME NEW m \in Savers
      PROVE  db'.rows[m]["commission"] =
                SumFunctionOnSet([r \in Legacy |-> db'.legacy[r].amount],
                                 {r \in Legacy : ReferrerOf[r] = m})
  <2>1. CASE op = "commission"
    BY <1>1, <2>1, CommissionPaysOnce DEF Fits
  <2>2. CASE op # "commission"
    <3>1. op \in AccountOps => NarrativeOf(op) # "commission"
      BY <2>2 DEF AccountOps, NarrativeOf
    <3>2. db'.rows[m]["commission"] = db.rows[m]["commission"]
      BY <3>1, OtherNarratives, SaversAssumption DEF Narratives
    <3>3. db'.legacy = db.legacy
      <4>1. "legacy" \in Columns \ WrittenBy(op)
        BY <2>2 DEF Ops, OtherOps, Sweeps, VaultOps, WrittenBy, Columns, AccountColumns
      <4>2. QED
        BY <4>1, Kept
    <3>4. QED
      BY <1>1, <3>2, <3>3
  <2>3. QED
    BY <2>1, <2>2
<1>4. QED
  BY <1>2, <1>3 DEF ReferralsPaidOnce, PaidTiers

-----------------------------------------------------------------------------
(* A registered user stays registered and keeps the referrer.                *)
LEMMA ReferrersStay ==
    ASSUME ColumnsInv, ReferralsInv, AccountsMatch(db), NEW op \in Ops, NEW j, NEW w,
           Alone(op, j, w)
    PROVE  /\ db.users \subseteq db'.users
           /\ \A u \in db.users : db'.tier[u][1].to = db.tier[u][1].to
<1>1. CASE op = "register"
  <2>1. /\ j \in RegisterJobs /\ EmailIsFree(j, w) /\ db' = UserRegistered(j, w, db)
        /\ SameEmail(j, w, ReferrersRead(j, db))
    BY <1>1 DEF Alone, Jobs, Accepts, ReadBy, Same, Written, Sweeps, VaultOps
  <2>2. j.user \in Users /\ j.user \notin db.users
    BY <2>1 DEF RegisterJobs, EmailIsFree, SameEmail, ReferrersRead
  <2>3. /\ db'.users = db.users \cup {j.user}
        /\ db'.tier = [db.tier EXCEPT ![j.user] = TierRows(j, w)]
    BY <2>1, <2>2 DEF UserRegistered, ColumnsInv, Columns
  <2>4. QED
    BY <2>2, <2>3 DEF ReferralsInv, ReferralsTypeOK
<1>2. CASE op = "convert"
  <2>1. "users" \in Columns \ WrittenBy(op)
    BY <1>2 DEF Ops, OtherOps, Sweeps, VaultOps, WrittenBy, Columns, AccountColumns
  <2>2. db'.users = db.users
    BY <2>1, Kept
  <2>3. j.user \in Users
    BY <1>2 DEF Alone, Jobs, Sweeps, VaultOps, ConversionJobs
  <2>4. db'.tier = [db.tier EXCEPT ![j.user] = Completed(db.tier[j.user])]
    BY <1>2, ConversionCredits
  <2>5. ASSUME NEW u \in db.users
        PROVE  db'.tier[u][1].to = db.tier[u][1].to
    <3>1. /\ u \in Users
          /\ db.tier[u] \in [Tiers -> [to : Users \cup {Nobody},
                                       status : {"none", "pending", "completed"}]]
          /\ db'.tier[u] = IF u = j.user THEN Completed(db.tier[u]) ELSE db.tier[u]
      BY <2>3, <2>4 DEF ReferralsInv, ReferralsTypeOK
    <3>2. QED
      BY <3>1 DEF Completed, Tiers
  <2>6. QED
    BY <2>2, <2>5
<1>3. CASE op \notin {"register", "convert"}
  <2>1. {"users", "tier"} \subseteq Columns \ WrittenBy(op)
    BY <1>3 DEF Ops, OtherOps, Sweeps, VaultOps, WrittenBy, Columns, AccountColumns
  <2>2. QED
    BY <2>1, Kept
<1>4. QED
  BY <1>1, <1>2, <1>3

\* the readings of all sessions
FitsInv == \A s \in Sessions : Fits(session[s].op, session[s].job, session[s].view)

(* What a handler reads fits, and stays fitting while others write.          *)
LEMMA FitsStep ==
    ASSUME WorkInv, ColumnsInv, SharesInv, ReferralsInv, AccountsMatch(db), FitsInv,
           Isolation = "serializable", [Next]_vars
    PROVE  FitsInv'
<1>1. /\ db.users \subseteq db'.users
      /\ \A u \in db.users : db'.tier[u][1].to = db.tier[u][1].to
  <2>1. CASE OnlySent
    BY <2>1, SendingKeeps DEF Columns
  <2>2. QED
    BY <2>1, ReferrersStay, StepAlone
<1>2. Nobody \notin db.users
  BY ReferralsAssumption DEF ReferralsInv, ReferralsTypeOK
<1>3. ASSUME NEW op, NEW j, NEW v, Fits(op, j, v)
      PROVE  Fits(op, j, v)'
  BY <1>1, <1>2, <1>3 DEF Fits
<1>4. ASSUME NEW op \in Ops, NEW j, j \in Jobs(op)
      PROVE  Fits(op, j, ReadBy(op, j, db))
  <2>1. CASE op = "dividend"
    BY <2>1 DEF Fits, ReadBy, DividendReads, SharesInv, Sweeps, VaultOps
  <2>2. CASE op = "commission"
    BY <2>2 DEF Fits, ReadBy, CommissionReads, ReferralsInv, ReferralsTypeOK, Sweeps, VaultOps
  <2>3. CASE op = "register"
    BY <1>2, <2>3 DEF Fits, ReadBy, ReferrersRead, Sweeps, VaultOps
  <2>4. QED
    BY <2>1, <2>2, <2>3 DEF Fits
<1>5. ASSUME NEW j, NEW v PROVE Fits("idle", j, v)'
  BY DEF Fits
<1>6. ASSUME NEW s \in Sessions, session' = [session EXCEPT ![s] = Idle]
      PROVE  FitsInv'
  <2>1. session'[s].op = "idle" /\ \A t \in Sessions \ {s} : session'[t] = session[t]
    BY <1>6 DEF WorkInv, SessionsAtWork, Idle
  <2>2. ASSUME NEW t \in Sessions
        PROVE  Fits(session[t].op, session[t].job, session[t].view)'
    <3>1. CASE t = s
      BY <1>5, <2>1, <3>1 DEF Fits
    <3>2. CASE t # s
      BY <1>3, <2>1, <3>2, ZenonT(40) DEF FitsInv, Fits
    <3>3. QED
      BY <3>1, <3>2
  <2>3. QED
    BY <2>2 DEF FitsInv
<1>7. ASSUME NEW s \in Sessions, NEW op \in Ops, Opens(s, op)
      PROVE  FitsInv'
  <2>1. PICK j \in Jobs(op) :
           session' = [session EXCEPT ![s] = [op |-> op, job |-> j, view |-> ReadBy(op, j, db)]]
    BY <1>7 DEF Opens
  <2>2. Fits(op, j, ReadBy(op, j, db))
    BY <1>4
  <2> DEFINE v == ReadBy(op, j, db)
  <2>3. /\ session'[s] = [op |-> op, job |-> j, view |-> v]
        /\ \A t \in Sessions \ {s} : session'[t] = session[t]
    BY <2>1 DEF WorkInv, SessionsAtWork
  <2> HIDE DEF v
  <2>4. Fits(session[s].op, session[s].job, session[s].view)'
    BY <1>1, <1>2, <2>2, <2>3 DEF Fits, v
  <2>5. ASSUME NEW t \in Sessions \ {s}
        PROVE  Fits(session[t].op, session[t].job, session[t].view)'
    BY <1>1, <1>2, <2>3, SMTT(40) DEF FitsInv, Fits
  <2>6. QED
    BY <2>4, <2>5 DEF FitsInv
<1>8. ASSUME NEW s \in Sessions, SendNotices(s)
      PROVE  FitsInv'
  <2>1. /\ session[s].op \in Sweeps /\ session'[s].op = session[s].op
        /\ \A t \in Sessions \ {s} : session'[t] = session[t]
    BY <1>8 DEF SendNotices, Sweeping, WorkInv, SessionsAtWork, AtWork, Idle, Sweeps
  <2>2. Fits(session[s].op, session[s].job, session[s].view)'
    BY <2>1 DEF Fits, Sweeps
  <2>3. ASSUME NEW t \in Sessions \ {s}
        PROVE  Fits(session[t].op, session[t].job, session[t].view)'
    BY <1>1, <1>2, <2>1, SMTT(40) DEF FitsInv, Fits
  <2>4. QED
    BY <2>2, <2>3 DEF FitsInv
<1>9. CASE session' = session
  BY <1>1, <1>2, <1>9 DEF FitsInv, Fits
<1>10. QED
  BY <1>6, <1>7, <1>8, <1>9, EveryStep DEF Served, CommitsIt

-----------------------------------------------------------------------------
(* The accounts, and all that was ever credited to them.                     *)
AccountsInv ==
    /\ ColumnsInv /\ SharesInv /\ ReferralsInv
    /\ AccountsMatch(db)
    /\ DividendsInv /\ FilesInv
    /\ ReferralsPaidOnce
    /\ FitsInv

(* At the start nobody has been credited.                                    *)
LEMMA NothingCredited == Init => AccountsInv
<1> SUFFICES ASSUME Init PROVE AccountsInv
  OBVIOUS
<1>1. /\ SavingsTables.balance = NoGain
      /\ SavingsTables.rows = [m \in Members |-> [k \in Narratives |-> 0]]
      /\ SavingsTables.liability = 0
      /\ {"balance", "rows", "liability"} \subseteq DOMAIN SavingsTables
  BY DEF SavingsTables
<1>2. ShareTables.dividends = <<>> /\ "dividends" \in DOMAIN ShareTables
  BY DEF ShareTables
<1>3. FileTables.files = <<>> /\ "files" \in DOMAIN FileTables
  BY DEF FileTables
<1>4. /\ ReferralTables.tier = [u \in Users |-> [t \in Tiers |-> NoReferral]]
      /\ ReferralTables.legacy = [r \in Legacy |-> [status |-> "registered", amount |-> 0]]
      /\ {"tier", "legacy"} \subseteq DOMAIN ReferralTables
  BY DEF ReferralTables
<1>5. /\ db.balance = NoGain /\ db.rows = [m \in Members |-> [k \in Narratives |-> 0]]
      /\ db.liability = 0 /\ db.dividends = <<>> /\ db.files = <<>>
      /\ db.tier = [u \in Users |-> [t \in Tiers |-> NoReferral]]
      /\ db.legacy = [r \in Legacy |-> [status |-> "registered", amount |-> 0]]
  BY <1>1, <1>2, <1>3, <1>4, TheTables, TheStart DEF Columns, AccountColumns
<1>6. ColumnsInv /\ SharesInv /\ ReferralsInv
  BY NoSharesYet, NobodyReferred
<1>7. AccountsMatch(db)
  <2>1. \A m \in Members : SumFunctionOnSet(db.rows[m], Narratives) = 0
    <3>1. ASSUME NEW m \in Members PROVE SumFunctionOnSet(db.rows[m], Narratives) = 0
      <4> DEFINE none == [k \in Narratives |-> 0]
      <4>1. db.rows[m] = none /\ \A k \in Narratives : none[k] = 0
        BY <1>5
      <4> HIDE DEF none
      <4>2. QED
        BY <4>1, FourNarratives, SumZero
    <3>2. QED
      BY <3>1
  <2>2. SumFunctionOnSet(db.balance, Members) = 0
    <3>1. \A m \in Members : NoGain[m] = 0
      BY DEF NoGain
    <3>2. SumFunctionOnSet(NoGain, Members) = 0
      BY <3>1, SaversAssumption, SumZero
    <3>3. QED
      BY <1>5, <3>2
  <2>3. QED
    BY <1>5, <2>1, <2>2 DEF AccountsMatch, NoGain
<1>8. \A f : DOMAIN f = {} => SumFunction(f) = 0
  BY SumEmpty DEF SumFunction
<1>9. DOMAIN db.dividends = {} /\ DOMAIN db.files = {}
  BY <1>5
<1>10. DividendsInv
  <2>1. \A m \in Savers : SumFunction(PaidTo(db.dividends, m)) = 0
    BY <1>8, <1>9 DEF PaidTo
  <2>2. QED
    BY <1>5, <2>1, SaversAssumption DEF DividendsInv, ReinvestedIsCredited, PaidTo, Narratives
<1>11. FilesInv
  <2>1. \A m \in Savers :
           SumFunction([f \in DOMAIN db.files |-> Reconciled(db.files[f], m)]) = 0
    BY <1>8, <1>9
  <2>2. QED
    BY <1>5, <2>1, SaversAssumption DEF FilesInv, FilesBookTheirLines, Narratives
<1>12. ReferralsPaidOnce
  <2> DEFINE pay     == [x \in Users \X Tiers |-> TierPay[x[2]]]
             amounts == [r \in Legacy |-> db.legacy[r].amount]
  <2>1. ASSUME NEW m \in Savers
        PROVE  SumFunctionOnSet(pay, PaidTiers(db.tier, m)) = 0
    <3>1. PaidTiers(db.tier, m) = {}
      BY <1>5 DEF PaidTiers, NoReferral
    <3>2. QED
      BY <3>1, SumEmpty
  <2>2. ASSUME NEW m \in Savers
        PROVE  SumFunctionOnSet(amounts, {r \in Legacy : ReferrerOf[r] = m}) = 0
    <3> DEFINE of == {r \in Legacy : ReferrerOf[r] = m}
    <3>1. IsFiniteSet(of)
      BY ReferralsAssumption, FS_Subset
    <3>2. \A r \in of : amounts[r] = 0
      BY <1>5
    <3> HIDE DEF of, amounts
    <3>3. SumFunctionOnSet(amounts, of) = 0
      BY <3>1, <3>2, SumZero
    <3>4. QED
      BY <3>3 DEF of
  <2>3. \A m \in Savers : db.rows[m]["tier"] = 0 /\ db.rows[m]["commission"] = 0
    BY <1>5, SaversAssumption DEF Narratives
  <2>4. QED
    BY <2>1, <2>2, <2>3 DEF ReferralsPaidOnce, PaidTiers
<1>13. FitsInv
  BY DEF Init, RequestsInit, FitsInv, Fits, Idle
<1>14. QED
  BY <1>6, <1>7, <1>10, <1>11, <1>12, <1>13 DEF AccountsInv

(* Every request keeps the accounts explained.                               *)
LEMMA AccountsInvStep ==
    ASSUME WorkInv, AccountsInv, Isolation = "serializable", [Next]_vars
    PROVE  AccountsInv'
<1> USE DEF AccountsInv
<1>0. FitsInv'
  BY FitsStep
<1>1. CASE OnlySent
  <2>1. /\ db'.balance = db.balance /\ db'.rows = db.rows /\ db'.liability = db.liability
        /\ db'.holdings = db.holdings /\ db'.traded = db.traded
        /\ db'.dividends = db.dividends /\ db'.files = db.files
        /\ db'.users = db.users /\ db'.tier = db.tier
        /\ db'.legacy = db.legacy /\ db'.commission = db.commission
        /\ ColumnsInv'
    BY <1>1, SendingKeeps DEF Columns, AccountColumns
  <2>2. SharesInv' /\ AccountsMatch(db)'
    BY <2>1 DEF SharesInv, AccountsMatch
  <2>3. ReferralsInv'
    BY <2>1 DEF ReferralsInv, ReferralsTypeOK, TiersFollowChain
  <2>4. DividendsInv' /\ FilesInv'
    BY <2>1 DEF DividendsInv, ReinvestedIsCredited, FilesInv, FilesBookTheirLines
  <2>5. ReferralsPaidOnce'
    <3> DEFINE Once(rows, tier, legacy) ==
                  \A m \in Savers :
                      /\ rows[m]["tier"] =
                            SumFunctionOnSet([x \in Users \X Tiers |-> TierPay[x[2]]],
                                             {x \in Users \X Tiers :
                                                 /\ tier[x[1]][x[2]].status = "completed"
                                                 /\ MemberOf[tier[x[1]][x[2]].to] = m})
                      /\ rows[m]["commission"] =
                            SumFunctionOnSet([r \in Legacy |-> legacy[r].amount],
                                             {r \in Legacy : ReferrerOf[r] = m})
    <3>1. /\ ReferralsPaidOnce = Once(db.rows, db.tier, db.legacy)
          /\ ReferralsPaidOnce' = Once(db'.rows, db'.tier, db'.legacy)
      BY DEF ReferralsPaidOnce
    <3> HIDE DEF Once
    <3>2. QED
      BY <2>1, <3>1
  <2>6. QED
    BY <1>0, <2>1, <2>2, <2>3, <2>4, <2>5
<1>2. ASSUME NEW op \in Ops, NEW j, NEW w, Alone(op, j, w), Fits(op, j, w)
      PROVE  AccountsInv'
  <2>1. ColumnsInv' /\ SharesInv'
    BY SharesStep
  <2>2. ReferralsInv'
    BY <1>2, ReferralsStep
  <2>3. AccountsMatch(db)'
    BY <1>2, AccountsStep
  <2>4. ReferralsPaidOnce'
    BY <1>2, ReferralsStayPaidOnce
  <2>5. DividendsInv'
    <3>1. CASE op = "dividend"
      BY <1>2, <3>1, DividendExplained DEF Fits
    <3>2. CASE op # "dividend"
      <4>1. "dividends" \in Columns \ WrittenBy(op)
        BY <3>2 DEF Ops, OtherOps, Sweeps, VaultOps, WrittenBy, Columns, AccountColumns
      <4>2. db'.dividends = db.dividends
        BY <1>2, <4>1, Kept
      <4>3. op \in AccountOps => NarrativeOf(op) # "dividend"
        BY <3>2 DEF AccountOps, NarrativeOf
      <4>4. \A m \in Savers : db'.rows[m]["dividend"] = db.rows[m]["dividend"]
        BY <1>2, <4>3, OtherNarratives, SaversAssumption DEF Narratives
      <4>5. QED
        BY <4>2, <4>4 DEF DividendsInv, ReinvestedIsCredited
    <3>3. QED
      BY <3>1, <3>2
  <2>6. FilesInv'
    <3>1. CASE op = "payroll_file"
      BY <1>2, <3>1, FileExplained
    <3>2. CASE op # "payroll_file"
      <4>1. "files" \in Columns \ WrittenBy(op)
        BY <3>2 DEF Ops, OtherOps, Sweeps, VaultOps, WrittenBy, Columns, AccountColumns
      <4>2. db'.files = db.files
        BY <1>2, <4>1, Kept
      <4>3. op \in AccountOps => NarrativeOf(op) # "payroll"
        BY <3>2 DEF AccountOps, NarrativeOf
      <4>4. \A m \in Savers : db'.rows[m]["payroll"] = db.rows[m]["payroll"]
        BY <1>2, <4>3, OtherNarratives, SaversAssumption DEF Narratives
      <4>5. QED
        BY <4>2, <4>4 DEF FilesInv, FilesBookTheirLines
    <3>3. QED
      BY <3>1, <3>2
  <2>7. QED
    BY <1>0, <2>1, <2>2, <2>3, <2>4, <2>5, <2>6
<1>3. QED
  BY <1>1, <1>2, StepAlone DEF FitsInv

(* On a serializable database every balance, row and liability is explained, *)
(* and so is every referral: the invariant behind the next theorems.         *)
THEOREM AccountsInvariant ==
    ASSUME Isolation = "serializable"
    PROVE  Spec => []AccountsInv
<1>1. WorkInv /\ AccountsInv /\ [Next]_vars => AccountsInv'
  BY AccountsInvStep
<1>2. QED
  BY NothingCredited, WorkIsAccepted, <1>1, PTL DEF Spec

(* On a serializable database every credit of a savings account is explained *)
(* by the dividend, the conversion, the commission or the file that wrote    *)
(* it, and balances, rows and the liability account agree: no two of         *)
(* declare_dividend, complete_multi_tier_conversion, pay_referral_commission *)
(* and upload_payroll_file ever lose each other's credits.                   *)
THEOREM CreditsAreAlwaysExplained ==
    ASSUME Isolation = "serializable"
    PROVE  Spec => []CreditsAreExplained
<1>1. AccountsInv => CreditsAreExplained
  BY DEF AccountsInv, AccountsMatch, DividendsInv, FilesInv, CreditsAreExplained, BalancesMatchRows
<1>2. QED
  BY AccountsInvariant, <1>1, PTL

(* On a serializable database the tiers follow the chain of registrations    *)
(* and every tier and commission is paid once (register,                     *)
(* complete_multi_tier_conversion, pay_referral_commission).                 *)
THEOREM ReferralsAlwaysAddUp ==
    ASSUME Isolation = "serializable"
    PROVE  Spec => []ReferralsAddUp
<1>1. AccountsInv => ReferralsAddUp
  BY DEF AccountsInv, ReferralsInv, ReferralsAddUp
<1>2. QED
  BY AccountsInvariant, <1>1, PTL

-----------------------------------------------------------------------------
(* What the handlers of members write has its type.                          *)
StatusInv ==
    /\ db.status \in [Members -> MemberStatuses \cup {"absent"}]
    /\ db.since \in [Members -> Never .. MaxTime]
    /\ db.borrows \in [Members -> BOOLEAN]

(* Every request keeps the types of the member rows.                         *)
LEMMA StatusStep ==
    ASSUME ColumnsInv, StatusInv, NEW op \in Ops, NEW j, NEW w, Alone(op, j, w)
    PROVE  StatusInv'
<1>1. j \in Jobs(op) /\ db' = Written(op, j, w, db)
  BY DEF Alone
<1>2. CASE op = "create_member"
  <2>1. j.member \in Members /\ j.at \in 0 .. MaxTime /\ db' = MemberAdded(j, w, db)
    BY <1>1, <1>2 DEF Jobs, Written, Sweeps, VaultOps
  <2>2. QED
    BY <2>1 DEF MemberAdded, StatusInv, Never, MemberStatuses, ColumnsInv, Columns
<1>3. CASE op = "update_member"
  <2>1. j \in UpdateJobs /\ db' = StatusSet(j, w, db)
    BY <1>1, <1>3 DEF Jobs, Written, Sweeps, VaultOps
  <2>2. QED
    BY <2>1 DEF StatusSet, UpdateJobs, StatusInv, ColumnsInv, Columns
<1>4. CASE op = "exit"
  <2>1. db' = Left(j, w, db)
    BY <1>1, <1>4 DEF Written, Sweeps, VaultOps
  <2>2. QED
    BY <2>1 DEF Left, StatusInv, MemberStatuses, ColumnsInv, Columns
<1>5. CASE op = "disburse"
  <2>1. db' = LoanActive(j, w, db)
    BY <1>1, <1>5 DEF Written, Sweeps, VaultOps
  <2>2. QED
    BY <2>1 DEF LoanActive, StatusInv, ColumnsInv, Columns
<1>6. CASE op \in Sweeps
  <2>1. db' = Swept(j, w, db)
    BY <1>1, <1>6 DEF Written, Sweeps, VaultOps
  <2>2. /\ db'.status = [m \in Members |-> IF FallsDormant(j, w, m) THEN "DORMANT" ELSE db.status[m]]
        /\ db'.since = db.since /\ db'.borrows = db.borrows
    BY <2>1 DEF Swept, ColumnsInv, Columns
  <2>3. QED
    BY <2>2 DEF StatusInv, MemberStatuses
<1>7. CASE op \notin {"create_member", "update_member", "exit", "disburse"} \cup Sweeps
  <2>1. {"status", "since", "borrows"} \subseteq Columns \ WrittenBy(op)
    BY <1>7 DEF Ops, OtherOps, Sweeps, VaultOps, WrittenBy, Columns, AccountColumns
  <2>2. db'.status = db.status /\ db'.since = db.since /\ db'.borrows = db.borrows
    BY <2>1, Kept
  <2>3. QED
    BY <2>2 DEF StatusInv
<1>8. QED
  BY <1>2, <1>3, <1>4, <1>5, <1>6, <1>7

(* Every table of the member services holds what its columns say, and every  *)
(* session works on a request that the desk offers.                          *)
THEOREM MemberServicesTypes ==
    ASSUME Isolation = "serializable"
    PROVE  Spec => []TypeOK
<1>1. Init => StatusInv
  <2>1. /\ MemberTables.status = [m \in Members |-> IF m \in Original THEN "ACTIVE" ELSE "absent"]
        /\ MemberTables.borrows = [m \in Members |-> FALSE]
        /\ {"status", "borrows"} \subseteq DOMAIN MemberTables
    BY DEF MemberTables
  <2>2. Init => /\ db.status = MemberTables.status /\ db.borrows = MemberTables.borrows
                /\ \E undated : db.since = SinceStart(undated)
    BY <2>1, TheTables, TheStart DEF Columns
  <2>3. Init => db.status \in [Members -> MemberStatuses \cup {"absent"}]
    BY <2>1, <2>2 DEF MemberStatuses
  <2>4. Init => db.since \in [Members -> Never .. MaxTime]
    <3>1. 0 \in Never .. MaxTime /\ Never \in Never .. MaxTime
      BY RequestsAssumption DEF Never
    <3>2. ASSUME NEW undated PROVE SinceStart(undated) \in [Members -> Never .. MaxTime]
      BY <3>1 DEF SinceStart
    <3>3. QED
      BY <2>2, <3>2
  <2>5. Init => db.borrows \in [Members -> BOOLEAN]
    <3>1. [m \in Members |-> FALSE] \in [Members -> BOOLEAN]
      BY Zenon
    <3>2. Init => db.borrows = [m \in Members |-> FALSE]
      BY <2>1, <2>2
    <3>3. QED
      BY <3>1, <3>2, Zenon
  <2>6. QED
    BY <2>3, <2>4, <2>5 DEF StatusInv
<1>2. WorkInv /\ AccountsInv /\ StatusInv /\ [Next]_vars => StatusInv'
  <2> SUFFICES ASSUME WorkInv, AccountsInv, StatusInv, [Next]_vars
               PROVE  StatusInv'
    OBVIOUS
  <2>1. CASE OnlySent
    BY <2>1, SendingKeeps DEF AccountsInv, Columns, StatusInv
  <2>2. QED
    BY <2>1, StepAlone, StatusStep DEF AccountsInv
<1>3. WorkInv /\ AccountsInv /\ StatusInv /\ NoticesInv /\ VaultsInv => TypeOK
  <2> SUFFICES ASSUME WorkInv, AccountsInv, StatusInv, NoticesInv, VaultsInv
               PROVE  TypeOK
    OBVIOUS
  <2>1. RequestsTypeOK
    BY DEF WorkInv, SessionsAtWork, AtWork, RequestsTypeOK
  <2>2. DOMAIN db = DOMAIN Tables
    BY TheTables DEF AccountsInv, ColumnsInv
  <2>3. SavingsTypeOK
    BY DEF AccountsInv, AccountsMatch, SavingsTypeOK
  <2>4. SharesTypeOK
    <3>1. /\ <<>> \in Seq(Nat) /\ \A n \in Nat : <<n>> \in Seq(Nat)
          /\ \A h \in Holdings : SumFunction(h) \in Int
      BY HoldingSum DEF Holdings
    <3>2. db.holdings \in [Members -> Seq(Nat)]
      <4>1. \A h \in Holdings : h \in Seq(Nat)
        BY ONLY <3>1 DEF Holdings
      <4>2. db.holdings \in [Members -> Holdings]
        BY DEF AccountsInv, SharesInv
      <4>3. QED
        BY ONLY <4>1, <4>2
    <3>3. db.traded \in [Members -> Int]
      BY <3>1 DEF AccountsInv, SharesInv
    <3>4. QED
      BY <3>2, <3>3 DEF AccountsInv, DividendsInv, SharesTypeOK
  <2>5. MembersTypeOK
    <3>1. db.notices \in [Members -> [Stages -> Nat]]
      BY DEF NoticesInv
    <3>2. QED
      BY <3>1 DEF StatusInv, NoticesInv, MembersTypeOK
  <2>6. ReferralsTypeOK /\ FilesTypeOK
    BY DEF AccountsInv, ReferralsInv, FilesInv, FilesTypeOK
  <2>7. VaultsTypeOK
    BY DEF VaultsInv, VaultRows, MovedSums, VaultsTypeOK
  <2>8. QED
    BY <2>1, <2>2, <2>3, <2>4, <2>5, <2>6, <2>7 DEF TypeOK
<1>4. QED
  BY <1>1, <1>2, <1>3, WorkIsAccepted, AccountsInvariant, NoticesInvariant, VaultsInvariant, PTL
     DEF Spec
=============================================================================
