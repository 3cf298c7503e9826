------------------------ MODULE MemberServicesProofs ------------------------
(***************************************************************************)
(* Proofs about MemberServices.  Exits and sweeps write what follows from  *)
(* the rows they read, and a serializable database commits them only while *)
(* those of the rows that it guards are as they were.                      *)
(***************************************************************************)
EXTENDS MemberServices, TLAPS

\* the columns the proofs speak of
MemberColumns == {"status", "since", "stage", "notices", "sent", "borrows", "balance",
                  "holdings", "vault", "moved"}

\* the columns only a sweep writes, and those only the handlers of vaults write
SweepColumns == {"stage", "notices", "sent"}
VaultColumns == {"vault", "moved"}

(* Every request keeps the columns there are.                                *)
SessionsInv ==
    /\ now \in Nat
    /\ DOMAIN session = Sessions
    /\ MemberColumns \subseteq DOMAIN db

(* What a sweep at work has sent, when it says so, has left the server.      *)
HasSent(work, sent) ==
    /\ work = [op |-> work.op, job |-> work.job, view |-> work.view]
    /\ work.job = [at |-> work.job.at, sent |-> work.job.sent]
    /\ work.job.sent => \A m \in Members :
                            Noticed(work.job, work.view, m) \subseteq sent[m]

SentInv == \A s \in Sessions : session[s].op \in Sweeps => HasSent(session[s], db.sent)

(* The notices that were written follow the stage of the member, and have    *)
(* been sent.                                                                *)
NoticesInv ==
    /\ db.stage \in [Members -> 0 .. 3]
    /\ db.notices \in [Members -> [Stages -> {0, 1}]]
    /\ db.sent \in [Members -> SUBSET Stages]
    /\ \A m \in Members, k \in Stages :
          db.notices[m][k] = 1 => db.stage[m] >= k /\ k \in db.sent[m]
    /\ SentInv

\* the row of a vault and what its audit rows add up to
VaultRows  == [status : {"none", "ACTIVE", "MATURED", "BROKEN"}, locked : BOOLEAN,
               balance : Nat, matures : Nat]
MovedSums  == [paid_in : Nat, paid_out : Nat, early : Nat]

RowAddsUp(v, m) ==
    /\ v.balance = m.paid_in - m.paid_out
    /\ v.status = "BROKEN" <=> m.early > 0
    /\ v.locked = FALSE => v.status = "MATURED" /\ m.paid_in >= Target
    /\ v.status = "none" => v.balance = 0

(* The rows of the vaults add up.                                            *)
VaultsInv ==
    /\ db.vault \in [VaultIds -> VaultRows]
    /\ db.moved \in [VaultIds -> MovedSums]
    /\ \A v \in VaultIds : RowAddsUp(db.vault[v], db.moved[v])

(* d is db with other columns written than those of C.                       *)
KeepsColumns(d, C) ==
    /\ DOMAIN d = DOMAIN db
    /\ \A c \in C : d[c] = db[c]

(* A request for op is opened by s, or ends in a commit, or, being a sweep,  *)
(* goes on.                                                                  *)
StepOf(s, op) ==
    /\ DOMAIN session' = Sessions
    /\ \A t \in Sessions \ {s} : session'[t] = session[t]
    /\ \/ session[s].op = "idle" /\ session'[s].op = op /\ db' = db
       \/ session[s].op = op /\ session'[s].op = "idle"
       \/ op \in Sweeps /\ session[s].op = op /\ session'[s].op = op

(* A request for op does not touch the columns of C.                         *)
KeepingStepOf(s, op, C) == StepOf(s, op) /\ KeepsColumns(db', C)

-----------------------------------------------------------------------------
(* Credit writes the columns of the savings accounts and no other.           *)
LEMMA CreditKeeps ==
    ASSUME NEW d, NEW seen, NEW k, NEW gain
    PROVE  /\ DOMAIN Credit(d, seen, k, gain) = DOMAIN d
           /\ \A c \in DOMAIN d \ {"balance", "rows", "liability"} :
                 Credit(d, seen, k, gain)[c] = d[c]
BY DEF Credit

(* The handlers of shares and dividends.                                     *)
LEMMA SharesKeep ==
    ASSUME SessionsInv, NEW s \in Sessions,
           RecordShareTransaction(s) \/ DeclareDividend(s)
    PROVE  \E op \in {"share_transaction", "dividend"} : KeepingStepOf(s, op, SweepColumns \cup VaultColumns)
<1>1. ASSUME NEW j, NEW v PROVE KeepsColumns(SharesTraded(j, v, db), SweepColumns \cup VaultColumns)
  BY DEF KeepsColumns, SharesTraded, SessionsInv, MemberColumns, SweepColumns, VaultColumns
<1>2. ASSUME NEW j, NEW v PROVE KeepsColumns(DividendsPaid(j, v, db), SweepColumns \cup VaultColumns)
  BY CreditKeeps
     DEF KeepsColumns, DividendsPaid, SessionsInv, MemberColumns, SweepColumns, VaultColumns
<1>3. CASE RecordShareTransaction(s)
  BY <1>1, <1>3 DEF SessionsInv, KeepingStepOf, KeepsColumns, StepOf, Idle,
     RecordShareTransaction, Serves, ServesWhile, SameRows, Opened, Committed
<1>4. CASE DeclareDividend(s)
  BY <1>2, <1>4 DEF SessionsInv, KeepingStepOf, KeepsColumns, StepOf, Idle,
     DeclareDividend, Serves, ServesWhile, SameRows, Opened, Committed
<1>5. QED
  BY <1>3, <1>4

(* The handlers of members that neither exit nor sweep.                      *)
LEMMA MembersKeep ==
    ASSUME SessionsInv, NEW s \in Sessions,
           CreateMember(s) \/ UpdateMember(s) \/ DisburseLoan(s)
    PROVE  \E op \in {"create_member", "update_member", "disburse"} : KeepingStepOf(s, op, SweepColumns \cup VaultColumns)
<1>1. CASE CreateMember(s)
  <2>1. ASSUME NEW j, NEW v PROVE KeepsColumns(MemberAdded(j, v, db), SweepColumns \cup VaultColumns)
    BY DEF KeepsColumns, MemberAdded, SessionsInv, MemberColumns, SweepColumns, VaultColumns
  <2>2. QED
    BY <1>1, <2>1 DEF SessionsInv, KeepingStepOf, KeepsColumns, StepOf, Idle,
       CreateMember, Serves, ServesWhile, SameRows, Opened, Committed
<1>2. CASE UpdateMember(s)
  <2>1. ASSUME NEW j, NEW v PROVE KeepsColumns(StatusSet(j, v, db), SweepColumns \cup VaultColumns)
    BY DEF KeepsColumns, StatusSet, SessionsInv, MemberColumns, SweepColumns, VaultColumns
  <2>2. QED
    BY <1>2, <2>1 DEF SessionsInv, KeepingStepOf, KeepsColumns, StepOf, Idle,
       UpdateMember, Serves, ServesWhile, SameRows, Opened, Committed
<1>3. CASE DisburseLoan(s)
  <2>1. ASSUME NEW j, NEW v PROVE KeepsColumns(LoanActive(j, v, db), SweepColumns \cup VaultColumns)
    BY DEF KeepsColumns, LoanActive, SessionsInv, MemberColumns, SweepColumns, VaultColumns
  <2>2. QED
    BY <1>3, <2>1 DEF SessionsInv, KeepingStepOf, KeepsColumns, StepOf, Idle,
       DisburseLoan, Serves, ServesWhile, SameRows, Opened, Committed
<1>4. QED
  BY <1>1, <1>2, <1>3

(* The handlers of referrals.                                                *)
LEMMA ReferralsKeep ==
    ASSUME SessionsInv, NEW s \in Sessions,
           RegisterUser(s) \/ Convert(s) \/ UpdateSystemSettings(s) \/ PayCommission(s)
    PROVE  \E op \in {"register", "convert", "settings", "commission"} : KeepingStepOf(s, op, SweepColumns \cup VaultColumns)
<1>1. CASE RegisterUser(s)
  <2>1. ASSUME NEW j, NEW v PROVE KeepsColumns(UserRegistered(j, v, db), SweepColumns \cup VaultColumns)
    BY DEF KeepsColumns, UserRegistered, SessionsInv, MemberColumns, SweepColumns, VaultColumns
  <2>2. QED
    BY <1>1, <2>1 DEF SessionsInv, KeepingStepOf, KeepsColumns, StepOf, Idle,
       RegisterUser, Serves, ServesWhile, SameRows, Opened, Committed
<1>2. CASE Convert(s)
  <2>1. ASSUME NEW j, NEW v PROVE KeepsColumns(TiersCredited(j, v, db), SweepColumns \cup VaultColumns)
    BY CreditKeeps
       DEF KeepsColumns, TiersCredited, SessionsInv, MemberColumns, SweepColumns, VaultColumns
  <2>2. QED
    BY <1>2, <2>1 DEF SessionsInv, KeepingStepOf, KeepsColumns, StepOf, Idle,
       Convert, Serves, ServesWhile, SameRows, Opened, Committed
<1>3. CASE UpdateSystemSettings(s)
  <2>1. ASSUME NEW j, NEW v PROVE KeepsColumns(CommissionSet(j, v, db), SweepColumns \cup VaultColumns)
    BY DEF KeepsColumns, CommissionSet, SessionsInv, MemberColumns, SweepColumns, VaultColumns
  <2>2. QED
    BY <1>3, <2>1 DEF SessionsInv, KeepingStepOf, KeepsColumns, StepOf, Idle,
       UpdateSystemSettings, Serves, ServesWhile, SameRows, Opened, Committed
<1>4. CASE PayCommission(s)
  <2>1. ASSUME NEW j, NEW v PROVE KeepsColumns(CommissionPaid(j, v, db), SweepColumns \cup VaultColumns)
    BY CreditKeeps
       DEF KeepsColumns, CommissionPaid, SessionsInv, MemberColumns, SweepColumns, VaultColumns
  <2>2. QED
    BY <1>4, <2>1 DEF SessionsInv, KeepingStepOf, KeepsColumns, StepOf, Idle,
       PayCommission, Serves, ServesWhile, SameRows, Opened, Committed
<1>5. QED
  BY <1>1, <1>2, <1>3, <1>4

(* The handler of payroll files.                                             *)
LEMMA FilesKeep ==
    ASSUME SessionsInv, NEW s \in Sessions, UploadPayrollFile(s)
    PROVE  KeepingStepOf(s, "payroll_file", SweepColumns \cup VaultColumns)
<1>1. ASSUME NEW j, NEW v
      PROVE  KeepsColumns(FileBooked(j, v, db), SweepColumns \cup VaultColumns)
  BY CreditKeeps
     DEF KeepsColumns, FileBooked, SessionsInv, MemberColumns, SweepColumns, VaultColumns
<1>2. QED
  BY <1>1 DEF SessionsInv, KeepingStepOf, KeepsColumns, StepOf, Idle,
     UploadPayrollFile, Serves, ServesWhile, SameRows, Opened, Committed

\* what the handler of op asks, checks and writes of a vault
VaultOps == {"create_vault", "vault_deposit", "vault_withdraw"}

VaultJobs(op) ==
    CASE op = "create_vault"   -> [vault : VaultIds, at : Nat]
      [] op = "vault_deposit"  -> DepositJobs
      [] op = "vault_withdraw" -> [vault : VaultIds, n : 1 .. Target, force : BOOLEAN, at : Nat]

VaultAccepts(op, j, v) ==
    CASE op = "create_vault"   -> NotCreated(j, v)
      [] op = "vault_deposit"  -> IsActive(j, v)
      [] op = "vault_withdraw" -> Withdrawable(j, v)

VaultWrites(op, j, v, d) ==
    CASE op = "create_vault"   -> VaultCreated(j, v, d)
      [] op = "vault_deposit"  -> Deposited(j, v, d)
      [] op = "vault_withdraw" -> Withdrawn(j, v, d)

(* A session at work on an exit has found the member clear, one at work on a *)
(* vault has found it in the state its handler asks for.                     *)
ChecksInv ==
    \A s \in Sessions :
        /\ session[s].op = "exit" =>
              session[s].job \in MemberJobs /\ Clear(session[s].job, session[s].view)
        /\ \A op \in VaultOps : session[s].op = op =>
              session[s].job \in VaultJobs(op) /\ VaultAccepts(op, session[s].job, session[s].view)

(* The step of a request about a vault: opened, it has passed its check;     *)
(* committed, it writes from the vault as it is.                             *)
VaultStep(s, op) ==
    /\ KeepingStepOf(s, op, SweepColumns)
    /\ session'[s].op = op =>
          session'[s].job \in VaultJobs(op) /\ VaultAccepts(op, session'[s].job, session'[s].view)
    /\ session[s].op = op =>
          /\ Isolation = "serializable" => VaultRead(session[s].job, db) = session[s].view
          /\ db' = VaultWrites(op, session[s].job, session[s].view, db)

(* The handlers of vaults take such steps.                                   *)
LEMMA VaultSteps ==
    ASSUME SessionsInv, NEW s \in Sessions,
           CreateTargetVault(s) \/ DepositIntoVault(s) \/ WithdrawFromVault(s)
    PROVE  \E op \in VaultOps : VaultStep(s, op)
<1>1. CASE CreateTargetVault(s)
  <2>1. ASSUME NEW j, NEW v PROVE KeepsColumns(VaultCreated(j, v, db), SweepColumns)
    BY DEF KeepsColumns, VaultCreated, SessionsInv, MemberColumns, SweepColumns
  <2>2. CreateJobs \subseteq VaultJobs("create_vault")
    BY DEF CreateJobs, VaultJobs, SessionsInv
  <2>3. VaultStep(s, "create_vault")
    BY <1>1, <2>1, <2>2 DEF SessionsInv, VaultStep, VaultAccepts, VaultWrites,
       KeepingStepOf, KeepsColumns, StepOf, Idle,
       CreateTargetVault, Serves, ServesWhile, SameRows, Opened, Committed, MayCommit
  <2>4. QED
    BY <2>3 DEF VaultOps
<1>2. CASE DepositIntoVault(s)
  <2>1. ASSUME NEW j, NEW v PROVE KeepsColumns(Deposited(j, v, db), SweepColumns)
    BY DEF KeepsColumns, Deposited, SessionsInv, MemberColumns, SweepColumns
  <2>2. VaultStep(s, "vault_deposit")
    BY <1>2, <2>1 DEF SessionsInv, VaultStep, VaultJobs, VaultAccepts, VaultWrites,
       KeepingStepOf, KeepsColumns, StepOf, Idle,
       DepositIntoVault, Serves, ServesWhile, SameRows, Opened, Committed, MayCommit
  <2>3. QED
    BY <2>2 DEF VaultOps
<1>3. CASE WithdrawFromVault(s)
  <2>1. ASSUME NEW j, NEW v PROVE KeepsColumns(Withdrawn(j, v, db), SweepColumns)
    BY DEF KeepsColumns, Withdrawn, SessionsInv, MemberColumns, SweepColumns
  <2>2. WithdrawJobs \subseteq VaultJobs("vault_withdraw")
    BY DEF WithdrawJobs, VaultJobs, SessionsInv
  <2>3. VaultStep(s, "vault_withdraw")
    BY <1>3, <2>1, <2>2 DEF SessionsInv, VaultStep, VaultAccepts, VaultWrites,
       KeepingStepOf, KeepsColumns, StepOf, Idle,
       WithdrawFromVault, Serves, ServesWhile, SameRows, Opened, Committed, MayCommit
  <2>4. QED
    BY <2>3 DEF VaultOps
<1>4. QED
  BY <1>1, <1>2, <1>3

-----------------------------------------------------------------------------
(* What an exit opens has been checked, and what it commits was checked on   *)
(* a member and loans that are still as they were.                           *)
LEMMA ExitStep ==
    ASSUME SessionsInv, Isolation = "serializable", NEW s \in Sessions, ExitMember(s)
    PROVE  /\ KeepingStepOf(s, "exit", SweepColumns \cup VaultColumns)
           /\ session'[s].op = "exit" =>
                 session'[s].job \in MemberJobs /\ Clear(session'[s].job, session'[s].view)
           /\ session[s].op = "exit" =>
                 LET j == session[s].job IN SameStanding(j, session[s].view, ExitReads(j, db))
<1>1. ASSUME NEW j, NEW v PROVE KeepsColumns(Left(j, v, db), SweepColumns \cup VaultColumns)
  BY DEF KeepsColumns, Left, SessionsInv, MemberColumns, SweepColumns, VaultColumns
<1>2. QED
  BY <1>1 DEF SessionsInv, KeepingStepOf, KeepsColumns, StepOf, Idle,
     ExitMember, ServesWhile, Opened, Committed, MayCommit

\* a step of a sweep, by staff or by the scheduler
SweepsIn(s) == \/ TriggerSweep(s) \/ SendNotices(s) \/ FinishSweep(s)
               \/ s = Scheduler /\ StartDailySweep

\* s opens a sweep
OpensSweep(s) ==
    \E op \in Sweeps, j \in SweepJobs : \E v :
        session' = [session EXCEPT ![s] = [op |-> op, job |-> j, view |-> v]] /\ db' = db

\* s commits what it found silent, and a serializable database had guarded
CommitsSweep(s) ==
    LET work == session[s] IN
    /\ Sweeping(s) /\ work.job.sent
    /\ SameSilent(work.job, work.view, MembersRead(work.job, db))
    /\ db' = Swept(work.job, work.view, db)
    /\ session' = [session EXCEPT ![s] = Idle]

(* A sweep, whoever starts it, is opened, sends its notices, and commits what *)
(* its queries found.                                                        *)
LEMMA SweepStep ==
    ASSUME SessionsInv, Isolation = "serializable", NEW s \in Sessions,
           SweepsIn(s)
    PROVE  /\ \E op \in Sweeps : KeepingStepOf(s, op, VaultColumns)
           /\ OpensSweep(s) \/ SendNotices(s) \/ CommitsSweep(s)
<1> USE DEF SessionsInv, KeepingStepOf, KeepsColumns, StepOf, Idle
<1>1. ASSUME NEW j, NEW v PROVE KeepsColumns(Swept(j, v, db), VaultColumns)
  BY DEF Swept, MemberColumns, VaultColumns
<1>2. CASE TriggerSweep(s)
  <2>1. PICK j \in SweepJobs : Opened(s, "sweep", j, MembersRead(j, db))
    BY <1>2 DEF TriggerSweep
  <2>2. OpensSweep(s)
    BY <2>1 DEF Sweeps, Opened, OpensSweep
  <2>3. KeepingStepOf(s, "sweep", VaultColumns)
    BY <2>1 DEF Opened
  <2>4. QED
    BY <2>2, <2>3 DEF Sweeps
<1>3. CASE s = Scheduler /\ StartDailySweep
  <2>1. PICK j \in SweepJobs : Opened(s, "daily_sweep", j, MembersRead(j, db))
    BY <1>3 DEF StartDailySweep
  <2>2. OpensSweep(s)
    BY <2>1 DEF Sweeps, Opened, OpensSweep
  <2>3. KeepingStepOf(s, "daily_sweep", VaultColumns)
    BY <2>1 DEF Opened
  <2>4. QED
    BY <2>2, <2>3 DEF Sweeps
<1>4. CASE FinishSweep(s)
  BY <1>1, <1>4 DEF Sweeping, FinishSweep, Committed, MayCommit, CommitsSweep
<1>5. CASE SendNotices(s)
  <2>1. session'[s].op = session[s].op /\ session[s].op \in Sweeps
    BY <1>5 DEF SendNotices, Sweeping
  <2>2. KeepsColumns(db', VaultColumns)
    BY <1>5 DEF SendNotices, MemberColumns, VaultColumns
  <2>3. KeepingStepOf(s, session[s].op, VaultColumns)
    BY <1>5, <2>1, <2>2 DEF SendNotices
  <2>4. QED
    BY <1>5, <2>1, <2>3
<1>6. QED
  BY <1>2, <1>3, <1>4, <1>5 DEF SweepsIn

\* the operations that are about neither exits, sweeps nor vaults
OtherOps == {"share_transaction", "dividend", "create_member", "update_member", "disburse",
             "register", "convert", "settings", "commission", "payroll_file"}

\* a request fails, the clock moves, or nothing happens
NothingWritten ==
    /\ db' = db
    /\ now' \in {now, now + 1}
    /\ DOMAIN session' = Sessions
    /\ \A s \in Sessions : session'[s] \in {session[s], Idle}

(* Every step is a step of one request, or writes nothing.                   *)
LEMMA Steps ==
    ASSUME SessionsInv, Isolation = "serializable", [Next]_vars
    PROVE  \/ /\ now' = now
              /\ \/ \E s \in Sessions, op \in OtherOps :
                       KeepingStepOf(s, op, SweepColumns \cup VaultColumns)
                 \/ \E s \in Sessions : ExitMember(s)
                 \/ \E s \in Sessions : SweepsIn(s)
                 \/ \E s \in Sessions, op \in VaultOps : VaultStep(s, op)
           \/ NothingWritten
<1>1. ASSUME NEW s \in Sessions \ {Scheduler}, Request(s),
             ~ExitMember(s), ~SweepsIn(s)
      PROVE  \/ \E op \in OtherOps : KeepingStepOf(s, op, SweepColumns \cup VaultColumns)
             \/ \E op \in VaultOps : VaultStep(s, op)
  BY <1>1, SharesKeep, MembersKeep, ReferralsKeep, FilesKeep, VaultSteps
     DEF Request, OtherOps, SweepsIn
<1>2. ASSUME NEW s \in Sessions \ {Scheduler}, Request(s)
      PROVE  now' = now
  BY <1>2 DEF Request, Serves, ServesWhile, SameRows, Opened, Committed,
     RecordShareTransaction, DeclareDividend,
     CreateMember, UpdateMember, ExitMember, DisburseLoan,
     TriggerSweep, SendNotices, FinishSweep,
     RegisterUser, Convert, UpdateSystemSettings, PayCommission, UploadPayrollFile,
     CreateTargetVault, DepositIntoVault, WithdrawFromVault
<1>3. CASE \E s \in Sessions \ {Scheduler} : Request(s)
  BY <1>1, <1>2, <1>3
<1>4. CASE \/ \E s \in Sessions : Failed(s)
           \/ DatesMatter /\ TimePasses
           \/ UNCHANGED vars
  BY <1>4 DEF SessionsInv, NothingWritten, Failed, TimePasses, vars, requests
<1>5. CASE StartDailySweep \/ SendNotices(Scheduler) \/ FinishSweep(Scheduler)
  BY <1>5, MembersAssumption
     DEF SweepsIn, StartDailySweep, SendNotices, FinishSweep, Opened, Committed
<1>6. QED
  BY <1>3, <1>4, <1>5 DEF Next

-----------------------------------------------------------------------------
(* At the start the columns are there, nobody has a notice, no vault is      *)
(* created, and no session is at work.                                       *)
LEMMA InitiallyQuiet == Init => SessionsInv /\ ChecksInv /\ NoticesInv /\ VaultsInv
<1>1. /\ DOMAIN AccountTables \subseteq DOMAIN Tables
      /\ \A t \in DOMAIN AccountTables : Tables[t] = AccountTables[t]
  BY DEF Tables, Beside
<1>2. /\ MemberColumns \ VaultColumns \subseteq DOMAIN AccountTables
      /\ AccountTables.stage = NoGain
      /\ AccountTables.notices = [m \in Members |-> [k \in Stages |-> 0]]
      /\ AccountTables.sent = [m \in Members |-> {}]
      /\ "vault" \notin DOMAIN AccountTables /\ "moved" \notin DOMAIN AccountTables
  BY DEF AccountTables, Beside, MemberColumns, VaultColumns,
     SavingsTables, ShareTables, MemberTables
<1>3. /\ "vault" \in DOMAIN Tables /\ "moved" \in DOMAIN Tables
      /\ Tables.vault = VaultTables.vault /\ Tables.moved = VaultTables.moved
  BY <1>2 DEF Tables, Beside, VaultTables, ReferralTables, FileTables
<1>0. Init => DOMAIN db = DOMAIN Tables /\ \A c \in DOMAIN Tables \ {"since"} : db[c] = Tables[c]
  BY DEF Init
<1>4. Init => NoticesInv
  BY <1>0, <1>1, <1>2 DEF Init, RequestsInit, NoticesInv, SentInv, Sweeps, Idle, NoGain,
     MemberColumns, VaultColumns
<1>5. Init => VaultsInv
  <2>1. /\ VaultTables.vault = [v \in VaultIds |->
                 [status |-> "none", locked |-> TRUE, balance |-> 0, matures |-> 0]]
        /\ VaultTables.moved = [v \in VaultIds |-> [paid_in |-> 0, paid_out |-> 0, early |-> 0]]
    BY DEF VaultTables
  <2>2. /\ [status |-> "none", locked |-> TRUE, balance |-> 0, matures |-> 0] \in VaultRows
        /\ [paid_in |-> 0, paid_out |-> 0, early |-> 0] \in MovedSums
    BY DEF VaultRows, MovedSums
  <2>3. RowAddsUp([status |-> "none", locked |-> TRUE, balance |-> 0, matures |-> 0],
                  [paid_in |-> 0, paid_out |-> 0, early |-> 0])
    BY DEF RowAddsUp
  <2>4. QED
    <3>1. Init => db.vault = VaultTables.vault /\ db.moved = VaultTables.moved
      BY <1>0, <1>3
    <3>2. QED
      BY <2>1, <2>2, <2>3, <3>1 DEF VaultsInv
<1>6. Init => SessionsInv /\ ChecksInv
  BY <1>0, <1>1, <1>2, <1>3 DEF Init, RequestsInit, SessionsInv, ChecksInv, Idle,
     MemberColumns, VaultColumns, VaultOps
<1>7. QED
  BY <1>4, <1>5, <1>6

(* Every step keeps the columns and the sessions.                            *)
LEMMA SessionsStep ==
    ASSUME SessionsInv, Isolation = "serializable", [Next]_vars
    PROVE  SessionsInv'
<1>1. CASE NothingWritten
  BY <1>1 DEF SessionsInv, NothingWritten, Idle
<1>2. CASE \E s \in Sessions : \E op, C : now' = now /\ KeepingStepOf(s, op, C)
  BY <1>2 DEF SessionsInv, KeepingStepOf, KeepsColumns, StepOf
<1>3. QED
  BY <1>1, <1>2, Steps, ExitStep, SweepStep DEF VaultStep

(* Every step keeps what the sessions have checked.                          *)
LEMMA ChecksStep ==
    ASSUME SessionsInv, ChecksInv, Isolation = "serializable", [Next]_vars
    PROVE  ChecksInv'
<1>1. CASE NothingWritten
  BY <1>1 DEF SessionsInv, ChecksInv, NothingWritten, Idle, VaultOps
<1>2. ASSUME NEW s \in Sessions, NEW op \in OtherOps \cup Sweeps, StepOf(s, op)
      PROVE  ChecksInv'
  BY <1>2 DEF SessionsInv, ChecksInv, StepOf, OtherOps, Sweeps, VaultOps
<1>3. CASE \E s \in Sessions : ExitMember(s)
  BY <1>3, ExitStep DEF SessionsInv, ChecksInv, KeepingStepOf, StepOf, VaultOps
<1>4. CASE \E s \in Sessions, op \in VaultOps : VaultStep(s, op)
  BY <1>4 DEF SessionsInv, ChecksInv, VaultStep, KeepingStepOf, StepOf, VaultOps
<1>5. QED
  BY <1>1, <1>2, <1>3, <1>4, Steps, SweepStep DEF KeepingStepOf

(* On a serializable database the columns stay, and a session at work on an  *)
(* exit or a vault has found the member clear (exit_member), or the vault in *)
(* the state its handler asks for.                                           *)
THEOREM SessionsInvariant ==
    ASSUME Isolation = "serializable"
    PROVE  Spec => [](SessionsInv /\ ChecksInv)
<1>1. SessionsInv /\ ChecksInv /\ [Next]_vars => (SessionsInv /\ ChecksInv)'
  BY SessionsStep, ChecksStep
<1>2. QED
  BY InitiallyQuiet, <1>1, PTL DEF Spec

-----------------------------------------------------------------------------
(* A session that commits op was asked for op: the step is its own.          *)
LEMMA OwnStep ==
    ASSUME SessionsInv, Isolation = "serializable", [Next]_vars,
           NEW s \in Sessions, session[s] # Idle, session'[s] = Idle, db' # db
    PROVE  \/ ExitMember(s) /\ session[s].op = "exit"
           \/ session[s].op \in Sweeps /\ CommitsSweep(s)
           \/ session[s].op \in OtherOps \cup VaultOps
<1>1. ASSUME NEW t \in Sessions, NEW op, StepOf(t, op)
      PROVE  t = s /\ session[s].op = op
  BY <1>1 DEF StepOf, Sweeps, Idle
<1>2. ASSUME NEW t \in Sessions, SweepsIn(t)
      PROVE  session[s].op \in Sweeps /\ CommitsSweep(s)
  <2>1. t = s /\ session[s].op \in Sweeps
    BY <1>1, <1>2, SweepStep DEF KeepingStepOf
  <2>2. session'[s] = Idle
    OBVIOUS
  <2>3. ~OpensSweep(s) /\ ~SendNotices(s)
    BY <2>1, <2>2 DEF OpensSweep, SendNotices, Sweeping, Sweeps, Idle, SessionsInv
  <2>4. QED
    BY <1>2, <2>1, <2>3, SweepStep
<1>3. QED
  BY <1>1, <1>2, Steps, ExitStep DEF NothingWritten, KeepingStepOf, VaultStep

(* Nobody exits with an active loan: on a serializable database a           *)
(* disbursement that runs beside exit_member is seen, or one of the two is   *)
(* refused.                                                                  *)
THEOREM ExitsAreCleared ==
    ASSUME Isolation = "serializable"
    PROVE  Spec => ExitsCleared
<1>1. ASSUME SessionsInv, ChecksInv, [Next]_vars, NEW s \in Sessions, Commits(s, "exit")
      PROVE  ~db.borrows[session[s].job.member]
  <2>3. ExitMember(s)
    BY <1>1, OwnStep DEF Commits, Idle, OtherOps, VaultOps, Sweeps
  <2> DEFINE j == session[s].job
             v == session[s].view
  <2>4. Clear(j, v) /\ SameStanding(j, v, ExitReads(j, db))
    BY <1>1, <2>3, ExitStep DEF ChecksInv, Commits
  <2>5. v.borrows = db.borrows[j.member]
    BY <2>4 DEF SameStanding, ExitReads
  <2>6. ~v.borrows
    BY <2>4 DEF Clear
  <2>7. QED
    BY <2>5, <2>6, Zenon
<1>2. SessionsInv /\ ChecksInv /\ [Next]_vars
        => [\A s \in Sessions :
              Commits(s, "exit") => ~db.borrows[session[s].job.member]]_<<db, session>>
  BY <1>1
<1>3. QED
  BY SessionsInvariant, <1>2, PTL DEF Spec, ExitsCleared

(* A sweep only takes an active member to dormant: on a serializable         *)
(* database it never undoes an exit, a suspension or a reactivation that     *)
(* happened while it ran (sweep_dormant_members).                            *)
THEOREM SweepsKeepDecisions ==
    ASSUME Isolation = "serializable"
    PROVE  Spec => SweepKeepsDecisions
<1> DEFINE Falls(m) == db'.status[m] # db.status[m] =>
                          db.status[m] = "ACTIVE" /\ db'.status[m] = "DORMANT"
<1>1. ASSUME SessionsInv, [Next]_vars, NEW s \in Sessions,
             Commits(s, "sweep") \/ Commits(s, "daily_sweep"), NEW m \in Members
      PROVE  Falls(m)
  <2>1. CASE db' = db
    BY <2>1
  <2>2. CASE db' # db
   <3> DEFINE j == session[s].job
              v == session[s].view
   <3>1. SameSilent(j, v, MembersRead(j, db)) /\ db' = Swept(j, v, db)
     BY <1>1, <2>2, OwnStep DEF Commits, CommitsSweep, Idle, OtherOps, VaultOps, Sweeps
   <3>2. db'.status[m] = IF FallsDormant(j, v, m) THEN "DORMANT" ELSE db.status[m]
     BY <1>1, <3>1 DEF Swept, SessionsInv, MemberColumns
   <3>3. FallsDormant(j, v, m) => db.status[m] = "ACTIVE"
     BY <1>1, <3>1 DEF SameSilent, Noticed, FallsDormant, MembersRead, Stages
   <3>4. QED
     BY <3>2, <3>3
  <2>3. QED
    BY <2>1, <2>2
<1>2. SessionsInv /\ [Next]_vars
        => [\A s \in Sessions : Commits(s, "sweep") \/ Commits(s, "daily_sweep") =>
              \A m \in Members : Falls(m)]_<<db, session>>
  BY <1>1
<1>3. QED
  BY SessionsInvariant, <1>2, PTL DEF Spec, SweepKeepsDecisions

-----------------------------------------------------------------------------
(* A sweep gives a member only notices of stages the member has not reached, *)
(* and records the last of them.                                             *)
LEMMA SweepKeepsNotices ==
    ASSUME SessionsInv, NoticesInv, NEW s \in Sessions, CommitsSweep(s)
    PROVE  NoticesInv'
<1> DEFINE j == session[s].job
           v == session[s].view
           Of(m) == Noticed(j, v, m)
<1>0. /\ SameSilent(j, v, MembersRead(j, db)) /\ db' = Swept(j, v, db)
      /\ \A m \in Members : Of(m) \subseteq db.sent[m]
  BY DEF CommitsSweep, Sweeping, NoticesInv, SentInv, HasSent
<1>1. ASSUME NEW m \in Members
      PROVE  /\ Of(m) \subseteq Stages
             /\ \A k \in Of(m) : db.stage[m] < k
  <2>1. Of(m) # {} => v.stage[m] = db.stage[m]
    BY <1>0 DEF SameSilent, MembersRead
  <2>2. ASSUME NEW k \in Of(m) PROVE v.stage[m] < k
    BY <2>2 DEF Noticed, Warned, FallsDormant, Escalated
  <2>3. QED
    BY <2>1, <2>2 DEF Noticed
<1>2. ASSUME NEW m \in Members, Of(m) # {}
      PROVE  /\ StageAfter(j, v, m) \in Of(m)
             /\ \A k \in Of(m) : k <= StageAfter(j, v, m)
  <2>1. \E k \in Of(m) : \A i \in Of(m) : i <= k
    <3> HIDE DEF Of
    <3> QED BY <1>1, <1>2 DEF Stages
  <2>2. QED
    BY <1>2, <2>1 DEF StageAfter
<1>3. /\ db'.sent = db.sent
      /\ db'.stage = [m \in Members |->
                        IF Of(m) # {} THEN StageAfter(j, v, m) ELSE db.stage[m]]
      /\ db'.notices = [m \in Members |-> [k \in Stages |->
                          IF k \in Of(m) THEN db.notices[m][k] + 1 ELSE db.notices[m][k]]]
  BY <1>0 DEF Swept, SessionsInv, MemberColumns
<1>4. db'.stage \in [Members -> 0 .. 3]
  BY <1>1, <1>2, <1>3 DEF NoticesInv, Stages
<1>5. ASSUME NEW m \in Members, NEW k \in Stages
      PROVE  /\ db'.notices[m][k] \in {0, 1}
             /\ db'.notices[m][k] = 1 => db'.stage[m] >= k /\ k \in db'.sent[m]
  <2>1. db.notices[m][k] \in {0, 1} /\ db.stage[m] \in 0 .. 3 /\ k \in 1 .. 3
    BY DEF NoticesInv, Stages
  <2>2. CASE k \in Of(m)
    <3>1. db'.notices[m][k] = db.notices[m][k] + 1
      BY <1>3, <2>2
    <3>2. db.notices[m][k] = 0
      BY <1>1, <2>1, <2>2 DEF NoticesInv, Stages
    <3>3. db'.stage[m] >= k
      BY <1>2, <1>3, <2>2
    <3>4. k \in db'.sent[m]
      BY <1>0, <1>3, <2>2
    <3>5. QED
      BY <3>1, <3>2, <3>3, <3>4
  <2>3. CASE k \notin Of(m)
    <3>1. db'.stage[m] >= db.stage[m]
      BY <1>1, <1>2, <1>3, <2>1 DEF Stages
    <3>2. db'.notices[m][k] = db.notices[m][k]
      BY <1>3, <2>3
    <3>3. db'.stage[m] \in 0 .. 3
      BY <1>4
    <3>4. QED
      BY <1>3, <2>1, <3>1, <3>2, <3>3 DEF NoticesInv
  <2>4. QED
    BY <2>2, <2>3
<1>6. SentInv'
  <2>1. /\ DOMAIN session' = Sessions /\ session'[s] = Idle
        /\ \A t \in Sessions \ {s} : session'[t] = session[t]
    BY DEF CommitsSweep, SessionsInv
  <2>2. QED
    BY <1>3, <2>1 DEF NoticesInv, SentInv, Sweeps, Idle
<1>7. db'.notices \in [Members -> [Stages -> {0, 1}]]
  BY <1>3, <1>5
<1>8. QED
  BY <1>3, <1>4, <1>5, <1>6, <1>7 DEF NoticesInv

(* The notices of a sweep leave before its commit.                           *)
LEMMA SendingKeepsNotices ==
    ASSUME SessionsInv, NoticesInv, NEW s \in Sessions, SendNotices(s)
    PROVE  NoticesInv'
<1> DEFINE j == session[s].job
           v == session[s].view
<1>1. /\ DOMAIN db' = DOMAIN db /\ \A c \in DOMAIN db \ {"sent"} : db'[c] = db[c]
      /\ db'.sent = [m \in Members |-> db.sent[m] \cup Noticed(j, v, m)]
  BY DEF SendNotices, SessionsInv, MemberColumns
<1>2. \A m \in Members : Noticed(j, v, m) \subseteq Stages
  BY DEF Noticed
<1>3. db'.sent \in [Members -> SUBSET Stages]
  BY <1>1, <1>2 DEF NoticesInv
<1>4. SentInv'
  <2> DEFINE k == [at |-> j.at, sent |-> TRUE]
  <2>1. /\ session[s] = [op |-> session[s].op, job |-> j, view |-> v]
        /\ j = [at |-> j.at, sent |-> j.sent]
    BY DEF NoticesInv, SentInv, HasSent, SendNotices, Sweeping
  <2>2. /\ session'[s] = [op |-> session[s].op, job |-> k, view |-> v]
        /\ \A t \in Sessions \ {s} : session'[t] = session[t]
    BY <2>1 DEF SendNotices, SessionsInv
  <2>3. \A m \in Members : Noticed(k, v, m) = Noticed(j, v, m)
    BY DEF Noticed, Warned, FallsDormant, Escalated, SilentSince, SilentFor
  <2>4. ASSUME NEW t \in Sessions \ {s}, NEW m \in Members PROVE db.sent[m] \subseteq db'.sent[m]
    BY <1>1
  <2>5. QED
    <3>1. HasSent(session'[s], db'.sent)
      <4>1. ASSUME NEW m \in Members PROVE Noticed(k, v, m) \subseteq db'.sent[m]
        BY <1>1, <2>3
      <4> DEFINE w == [op |-> session[s].op, job |-> k, view |-> v]
      <4>2. w = [op |-> w.op, job |-> w.job, view |-> w.view] /\ w.job = k /\ w.view = v
        OBVIOUS
      <4>3. k = [at |-> k.at, sent |-> k.sent]
        OBVIOUS
      <4> HIDE DEF w, k
      <4>4. HasSent(w, db'.sent)
        BY <4>1, <4>2, <4>3 DEF HasSent
      <4>5. QED
        BY <2>2, <4>4 DEF w
    <3>2. ASSUME NEW t \in Sessions \ {s}, session'[t].op \in Sweeps
          PROVE  HasSent(session'[t], db'.sent)
      <4>1. HasSent(session[t], db.sent) /\ session'[t] = session[t]
        BY <2>2, <3>2 DEF NoticesInv, SentInv
      <4>2. QED
        BY <2>4, <4>1 DEF HasSent
    <3>3. QED
      BY <3>1, <3>2 DEF SentInv
<1>5. QED
  BY <1>1, <1>3, <1>4 DEF NoticesInv, SessionsInv, MemberColumns

(* On a serializable database the notices follow the stages, and the         *)
(* messages come first.                                                      *)
THEOREM NoticesInvariant ==
    ASSUME Isolation = "serializable"
    PROVE  Spec => []NoticesInv
<1>1. SessionsInv /\ NoticesInv /\ [Next]_vars => NoticesInv'
  <2> SUFFICES ASSUME SessionsInv, NoticesInv, [Next]_vars
               PROVE  NoticesInv'
    OBVIOUS
  <2>1. ASSUME db'.stage = db.stage, db'.notices = db.notices, db'.sent = db.sent, SentInv'
        PROVE  NoticesInv'
    BY <2>1 DEF NoticesInv
  <2>2. CASE \E s \in Sessions : SweepsIn(s)
    <3>1. PICK s \in Sessions : SweepsIn(s)
      BY <2>2
    <3>2. CASE OpensSweep(s)
      <4>1. SentInv'
        <5>1. PICK op \in Sweeps, j \in SweepJobs : \E v :
                 session' = [session EXCEPT ![s] = [op |-> op, job |-> j, view |-> v]] /\ db' = db
          BY <3>2 DEF OpensSweep
        <5>2. PICK v :
                 session' = [session EXCEPT ![s] = [op |-> op, job |-> j, view |-> v]] /\ db' = db
          BY <5>1
        <5> DEFINE w == [op |-> op, job |-> j, view |-> v]
        <5>3. j = [at |-> now, sent |-> FALSE]
          BY DEF SweepJobs
        <5>4. HasSent(w, db.sent)
          BY <5>3 DEF HasSent
        <5>5. session'[s] = w /\ \A t \in Sessions \ {s} : session'[t] = session[t]
          BY <3>1, <5>2 DEF SessionsInv
        <5>6. db'.sent = db.sent
          BY <5>2
        <5> HIDE DEF w
        <5>7. QED
          BY <5>4, <5>5, <5>6 DEF NoticesInv, SentInv
      <4>2. QED
        BY <2>1, <3>2, <4>1 DEF OpensSweep
    <3>3. QED
      BY <3>1, <3>2, SweepKeepsNotices, SendingKeepsNotices, SweepStep
  <2>3. ASSUME NEW C, SweepColumns \subseteq C, KeepsColumns(db', C),
               NEW s \in Sessions, NEW op, op \notin Sweeps, StepOf(s, op)
        PROVE  NoticesInv'
    <3>1. db'.stage = db.stage /\ db'.notices = db.notices /\ db'.sent = db.sent
      BY <2>3 DEF KeepsColumns, SweepColumns
    <3>2. SentInv'
      BY <2>3, <3>1 DEF NoticesInv, SentInv, StepOf, Sweeps
    <3>3. QED
      BY <2>1, <3>1, <3>2
  <2>4. CASE NothingWritten
    <3>1. SentInv'
      BY <2>4 DEF NoticesInv, SentInv, NothingWritten, Sweeps, Idle
    <3>2. QED
      BY <2>1, <2>4, <3>1 DEF NothingWritten
  <2>5. QED
    BY <2>2, <2>3, <2>4, Steps, ExitStep
       DEF KeepingStepOf, VaultStep, OtherOps, VaultOps, Sweeps
<1>2. QED
  BY InitiallyQuiet, SessionsInvariant, <1>1, PTL DEF Spec

(* On a serializable database there is one notice row for each stage, the    *)
(* member's row records the stage, and the message was sent, however many    *)
(* sweeps overlap and whatever staff do in between.                          *)
THEOREM NoticedOnce ==
    ASSUME Isolation = "serializable"
    PROVE  Spec => []NoticesOnce
<1>1. NoticesInv => NoticesOnce
  BY DEF NoticesInv, NoticesOnce, Stages
<1>2. QED
  BY NoticesInvariant, <1>1, PTL

-----------------------------------------------------------------------------
(* What each handler of a vault makes of a row that adds up.                 *)
LEMMA VaultWritten ==
    ASSUME SessionsInv, VaultsInv, NEW op \in VaultOps, NEW j \in VaultJobs(op),
           VaultAccepts(op, j, VaultRead(j, db)),
           db' = VaultWrites(op, j, VaultRead(j, db), db)
    PROVE  VaultsInv'
<1> DEFINE v == db.vault[j.vault]
           m == db.moved[j.vault]
<1>1. j.vault \in VaultIds
  BY DEF VaultOps, VaultJobs, DepositJobs
<1>2. v \in VaultRows /\ m \in MovedSums /\ RowAddsUp(v, m)
  BY <1>1 DEF VaultsInv
<1>3. ASSUME NEW w \in VaultRows, NEW n \in MovedSums, RowAddsUp(w, n),
             db'.vault = [db.vault EXCEPT ![j.vault] = w],
             db'.moved = [db.moved EXCEPT ![j.vault] = n]
      PROVE  VaultsInv'
  BY <1>1, <1>3 DEF VaultsInv
<1>4. CASE op = "create_vault"
  <2> DEFINE w == [status |-> "ACTIVE", locked |-> TRUE, balance |-> 0,
                   matures |-> j.at + LockPeriod]
  <2>1. v.status = "none"
    BY <1>4 DEF VaultAccepts, NotCreated, VaultRead
  <2>2. w \in VaultRows
    BY <1>4, VaultsAssumption DEF VaultJobs, VaultRows
  <2>3. RowAddsUp(w, m)
    BY <1>2, <2>1 DEF RowAddsUp, VaultRows, MovedSums
  <2>4. /\ db'.vault = [db.vault EXCEPT ![j.vault] = w]
        /\ db'.moved = [db.moved EXCEPT ![j.vault] = m]
    BY <1>1, <1>4 DEF VaultWrites, VaultCreated, SessionsInv, MemberColumns, VaultsInv
  <2>5. QED
    BY <1>2, <1>3, <2>2, <2>3, <2>4
<1>5. CASE op = "vault_deposit"
  <2> DEFINE full == v.balance + j.n >= Target
             w == [v EXCEPT !.balance = v.balance + j.n,
                            !.status = IF full THEN "MATURED" ELSE @,
                            !.locked = IF full THEN FALSE ELSE @]
             n == [m EXCEPT !.paid_in = @ + j.n]
  <2>1. v.status = "ACTIVE" /\ j.n \in 1 .. Target
    BY <1>5 DEF VaultAccepts, IsActive, VaultRead, VaultJobs, DepositJobs
  <2>2. w \in VaultRows /\ n \in MovedSums
    <3>1. v.balance + j.n \in Nat /\ m.paid_in + j.n \in Nat
      BY <1>2, <2>1, VaultsAssumption DEF VaultRows, MovedSums
    <3>2. w = [v EXCEPT !.balance = v.balance + j.n,
                        !.status = IF full THEN "MATURED" ELSE v.status,
                        !.locked = IF full THEN FALSE ELSE v.locked]
      BY <1>2 DEF VaultRows
    <3>3. CASE full
      BY <1>2, <3>1, <3>2, <3>3 DEF VaultRows, MovedSums
    <3>4. CASE ~full
      BY <1>2, <3>1, <3>2, <3>4 DEF VaultRows, MovedSums
    <3>5. QED
      BY <3>3, <3>4
  <2>3. RowAddsUp(w, n)
    BY <1>2, <2>1, VaultsAssumption DEF RowAddsUp, VaultRows, MovedSums
  <2>4. /\ db'.vault = [db.vault EXCEPT ![j.vault] = w]
        /\ db'.moved = [db.moved EXCEPT ![j.vault] = n]
    BY <1>1, <1>2, <1>5
       DEF VaultWrites, Deposited, DepositedBalance, VaultRead, SessionsInv, MemberColumns,
           VaultsInv, VaultRows, MovedSums
  <2>5. QED
    BY <1>3, <2>2, <2>3, <2>4
<1>6. CASE op = "vault_withdraw"
  <2> DEFINE early == IsEarly(j, v)
             w == [v EXCEPT !.balance = v.balance - j.n, !.status = StatusAfter(j, v)]
             n == [m EXCEPT !.paid_out = @ + j.n, !.early = IF early THEN @ + j.n ELSE @]
  <2>1. j.n \in 1 .. Target /\ j.n <= v.balance
    BY <1>6 DEF VaultAccepts, Withdrawable, VaultRead, VaultJobs
  <2>2. w \in VaultRows /\ n \in MovedSums
    <3>1. v.balance - j.n \in Nat /\ m.paid_out + j.n \in Nat /\ m.early + j.n \in Nat
      BY <1>2, <2>1, VaultsAssumption DEF VaultRows, MovedSums
    <3>2. StatusAfter(j, v) \in {"none", "ACTIVE", "MATURED", "BROKEN"}
      BY <1>2 DEF StatusAfter, VaultRows
    <3>3. w \in VaultRows
      BY <1>2, <3>1, <3>2 DEF VaultRows
    <3>4. n \in MovedSums
      BY <1>2, <3>1 DEF MovedSums
    <3>5. QED
      BY <3>3, <3>4
  <2>3. RowAddsUp(w, n)
    BY <1>2, <2>1, VaultsAssumption DEF RowAddsUp, VaultRows, MovedSums, StatusAfter, IsEarly
  <2>4. /\ db'.vault = [db.vault EXCEPT ![j.vault] = w]
        /\ db'.moved = [db.moved EXCEPT ![j.vault] = n]
    BY <1>1, <1>2, <1>6
       DEF VaultWrites, Withdrawn, VaultRead, SessionsInv, MemberColumns,
           VaultsInv, VaultRows, MovedSums
  <2>5. QED
    BY <1>3, <2>2, <2>3, <2>4
<1>7. QED
  BY <1>4, <1>5, <1>6 DEF VaultOps

(* On a serializable database the rows of the vaults add up.                 *)
THEOREM VaultsInvariant ==
    ASSUME Isolation = "serializable"
    PROVE  Spec => []VaultsInv
<1>1. SessionsInv /\ ChecksInv /\ VaultsInv /\ [Next]_vars => VaultsInv'
  <2> SUFFICES ASSUME SessionsInv, ChecksInv, VaultsInv, [Next]_vars
               PROVE  VaultsInv'
    OBVIOUS
  <2>1. CASE db'.vault = db.vault /\ db'.moved = db.moved
    BY <2>1 DEF VaultsInv
  <2>2. ASSUME NEW s \in Sessions, NEW op \in VaultOps, VaultStep(s, op)
        PROVE  VaultsInv'
    <3>1. CASE session[s].op = op
      BY <2>2, <3>1, VaultWritten DEF VaultStep, ChecksInv
    <3>2. CASE session[s].op # op
      BY <2>1, <2>2, <3>2 DEF VaultStep, KeepingStepOf, StepOf
    <3>3. QED
      BY <3>1, <3>2
  <2>3. ASSUME NEW C, VaultColumns \subseteq C, KeepsColumns(db', C)
        PROVE  db'.vault = db.vault /\ db'.moved = db.moved
    BY <2>3 DEF KeepsColumns, VaultColumns
  <2>4. QED
    BY <2>1, <2>2, <2>3, Steps, ExitStep, SweepStep DEF NothingWritten, KeepingStepOf
<1>2. QED
  BY InitiallyQuiet, SessionsInvariant, <1>1, PTL DEF Spec

(* On a serializable database a vault's balance is what its audit rows say,  *)
(* it is BROKEN exactly when money left it early, and it is unlocked only    *)
(* with its target paid in.                                                  *)
THEOREM VaultsAlwaysAddUp ==
    ASSUME Isolation = "serializable"
    PROVE  Spec => []VaultsAddUp
<1>1. VaultsInv => VaultsAddUp
  <2>1. ASSUME VaultsInv, NEW v \in VaultIds
        PROVE  /\ db.vault[v].balance = db.moved[v].paid_in - db.moved[v].paid_out
               /\ db.vault[v].status = "BROKEN" <=> db.moved[v].early > 0
               /\ ~db.vault[v].locked =>
                    db.vault[v].status = "MATURED" /\ db.moved[v].paid_in >= Target
    BY <2>1 DEF VaultsInv, RowAddsUp, VaultRows
  <2>2. QED
    BY <2>1 DEF VaultsAddUp, VaultsMatchAudit, StatusTellsHistory
<1>2. QED
  BY VaultsInvariant, <1>1, PTL
=============================================================================
