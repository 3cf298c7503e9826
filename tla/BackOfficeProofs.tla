-------------------------- MODULE BackOfficeProofs --------------------------
(***************************************************************************)
(* Proofs about BackOffice: users, registers, messages, the ledger and the *)
(* staff payroll.                                                          *)
(*                                                                         *)
(* A table says of each handler what it may be asked, what it reads,       *)
(* checks and writes; the messages, whose handlers are in several steps,   *)
(* stay out of it.  An invariant is then proved for the handlers that      *)
(* write the columns it speaks of.  Rows that are only added, never taken  *)
(* away, stay well formed at any isolation level; the books agree for that *)
(* alone.  What must happen once, the payroll of a month for one, is       *)
(* proved of a serializable database, where what a handler guards is what  *)
(* it has read.                                                            *)
(***************************************************************************)
EXTENDS BackOffice, SumTheorems

\* the operations, by the part of the back office they belong to
LedgerOps   == {"create_account", "journal", "gl_settings", "upload", "match"}
StaffOps    == {"employee", "run", "process", "pay"}
PortalOps   == {"login", "refresh", "2fa_setup", "2fa_enable", "2fa_disable"}
UserOps     == PortalOps \cup {"user_update"}
RegisterOps == {"report", "submit", "flag", "resolve", "news_list", "news_post", "news_delete"}
NoticeOps   == {"notify", "deliver", "alert"}

\* those of the table
Ops == LedgerOps \cup StaffOps \cup UserOps \cup RegisterOps

\* what a signed-in user may ask, and what a client may hold
SignedInJobs == [user : Accountholders, portal : Portals, secret : Secrets]

\* what the handler of op is asked, at any time
Jobs(op) ==
    CASE op = "create_account" -> AccountJobs
      [] op = "journal"        -> [lines : ManualEntries, at : 0 .. MaxTime]
      [] op = "gl_settings"    -> SettingsJobs
      [] op = "upload"         -> UploadJobs
      [] op = "match"          -> MatchJobs
      [] op = "employee"       -> EmployeeJobs
      [] op = "run"            -> RunJobs
      [] op = "process"        -> [run : 1 .. MaxRequests, override : Overrides, at : 0 .. MaxTime]
      [] op = "pay"            -> PayJobs
      [] op = "user_update"    -> UserJobs
      [] op = "login"          -> LoginJobs
      [] op = "refresh"        -> Tokens
      [] op \in {"2fa_setup", "2fa_enable", "2fa_disable"} -> SignedInJobs
      [] op \in {"report", "submit"} -> ReportJobs
      [] op \in {"flag", "resolve"}  -> FlagJobs
      [] op = "news_list"      -> SeedJobs
      [] op = "news_post"      -> PostJobs
      [] op = "news_delete"    -> DeleteJobs

\* what it reads
ReadBy(op, j, d) ==
    CASE op = "create_account" -> CodeRead(j, d)
      [] op = "journal"        -> AccountsRead(j, d)
      [] op = "gl_settings"    -> GLSettingsRead(j, d)
      [] op = "upload"         -> UploadedRead(j, d)
      [] op = "match"          -> MatchRead(j, d)
      [] op = "employee"       -> NothingRead(j, d)
      [] op = "run"            -> RunRead(j, d)
      [] op = "process"        -> ProcessRead(j, d)
      [] op = "pay"            -> SlipRead(j, d)
      [] op \in UserOps        -> UserRead(j, d)
      [] op \in {"report", "submit"} -> ReportRead(j, d)
      [] op \in {"flag", "resolve"}  -> FlagRead(j, d)
      [] op = "news_list"      -> NewsRead(j, d)
      [] op \in {"news_post", "news_delete"} -> ItemRead(j, d)

\* what it checks of that
Accepts(op, j, v) ==
    CASE op = "create_account" -> CodeIsFree(j, v)
      [] op = "journal"        -> IsPostable(j, v)
      [] op = "gl_settings"    -> IsAnAccount(j, v)
      [] op = "upload"         -> NewLines(j, v)
      [] op = "match"          -> BothExist(j, v)
      [] op = "employee"       -> AlwaysAccepted(j, v)
      [] op = "run"            -> PeriodIsFree(j, v)
      [] op = "process"        -> IsDraft(j, v)
      [] op = "pay"            -> IsPending(j, v)
      [] op = "user_update"    -> Existing(j, v)
      [] op = "login"          -> MayEnter(j, v)
      [] op = "refresh"        -> MayStay(j, v)
      [] op = "2fa_setup"      -> MaySetUp(j, v)
      [] op = "2fa_enable"     -> CodeVerified(j, v)
      [] op = "2fa_disable"    -> MayDisable(j, v)
      [] op = "report"         -> NotPrepared(j, v)
      [] op = "submit"         -> NotSubmitted(j, v)
      [] op = "flag"           -> NotRaised(j, v)
      [] op = "resolve"        -> IsRaised(j, v)
      [] op = "news_list"      -> IsEmpty(j, v)
      [] op = "news_post"      -> NewItem(j, v)
      [] op = "news_delete"    -> ItemExists(j, v)

\* what of it must be the same when it commits
Same(op, j, v, rows) ==
    CASE op = "run"       -> SamePeriod(j, v, rows)
      [] op = "process"   -> SameRun(j, v, rows)
      [] op = "refresh"   -> NothingGuarded(j, v, rows)
      [] op = "news_list" -> SameSeeds(j, v, rows)
      [] OTHER            -> rows = v

\* and what it makes of d
Written(op, j, v, d) ==
    CASE op = "create_account" -> AccountCreated(j, v, d)
      [] op = "journal"        -> EntryPosted(j, v, d)
      [] op = "gl_settings"    -> GLSettingsSet(j, v, d)
      [] op = "upload"         -> StatementUploaded(j, v, d)
      [] op = "match"          -> LineMatched(j, v, d)
      [] op = "employee"       -> SalarySet(j, v, d)
      [] op = "run"            -> RunCreated(j, v, d)
      [] op = "process"        -> RunProcessed(j, v, d)
      [] op = "pay"            -> SlipPaid(j, v, d)
      [] op = "user_update"    -> UserSet(j, v, d)
      [] op \in {"login", "refresh"} -> TokensIssued(j, v, d)
      [] op = "2fa_setup"      -> SecretReplaced(j, v, d)
      [] op = "2fa_enable"     -> TwoFactorOn(j, v, d)
      [] op = "2fa_disable"    -> TwoFactorOff(j, v, d)
      [] op = "report"         -> ReportPrepared(j, v, d)
      [] op = "submit"         -> ReportSubmitted(j, v, d)
      [] op = "flag"           -> FlagRaised(j, v, d)
      [] op = "resolve"        -> FlagResolved(j, v, d)
      [] op = "news_list"      -> NewsSeeded(j, v, d)
      [] op = "news_post"      -> NewsPosted(j, v, d)
      [] op = "news_delete"    -> NewsDeleted(j, v, d)

\* s opens a session for op, or commits it
Opens(s, op) ==
    /\ session[s] = Idle
    /\ op \in desk /\ db' = db
    /\ \E j \in Jobs(op) :
          /\ Accepts(op, j, ReadBy(op, j, db))
          /\ session' = [session EXCEPT ![s] = [op |-> op, job |-> j, view |-> ReadBy(op, j, db)]]

CommitsIt(s, op) ==
    /\ session[s].op = op
    /\ MayCommit(s, Same(op, session[s].job, session[s].view, ReadBy(op, session[s].job, db)))
    /\ db' = Written(op, session[s].job, session[s].view, db)
    /\ session' = [session EXCEPT ![s] = Idle]

\* a request of s that the table describes
Served(s, op) ==
    /\ Opens(s, op) \/ CommitsIt(s, op)
    /\ served' \in {served} \cup (IF served < MaxRequests THEN {served + 1} ELSE {})
    /\ UNCHANGED <<desk, now>>

\* the steps of messages
NoticeStep(s) ==
    SendNotification(s) \/ StartTask(s) \/ SendAlert(s) \/ Dispatch(s) \/ FinishDispatch(s)

(* Every other request is one of the table.                                  *)
LEMMA RequestsServed ==
    ASSUME now \in 0 .. MaxTime, db.token \subseteq Tokens, NEW s \in Sessions, Request(s)
    PROVE  NoticeStep(s) \/ \E op \in Ops : Served(s, op)
<1> USE DEF Serves, ServesWhile, SameRows, Opened, Committed, Served, Opens, CommitsIt,
         Jobs, ReadBy, Accepts, Same, Written, UserOps, PortalOps
<1>1. CreateAccount(s) => Served(s, "create_account")
  BY DEF CreateAccount
<1>2. CreateJournalEntry(s) => Served(s, "journal")
  BY DEF CreateJournalEntry, JournalJobs
<1>3. UpdateGLSettings(s) => Served(s, "gl_settings")
  BY DEF UpdateGLSettings
<1>4. UploadBankStatement(s) => Served(s, "upload")
  BY DEF UploadBankStatement
<1>5. MatchBankTransaction(s) => Served(s, "match")
  BY DEF MatchBankTransaction
<1>6. UpdateEmployee(s) => Served(s, "employee")
  BY DEF UpdateEmployee
<1>7. CreatePayrollRun(s) => Served(s, "run")
  BY DEF CreatePayrollRun
<1>8. ProcessPayrollRun(s) => Served(s, "process")
  BY DEF ProcessPayrollRun, ProcessJobs
<1>9. MarkPayslipPaid(s) => Served(s, "pay")
  BY DEF MarkPayslipPaid
<1>10. UpdateUser(s) => Served(s, "user_update")
  BY DEF UpdateUser
<1>11. Login(s) => Served(s, "login")
  BY DEF Login
<1>12. Refresh(s) => Served(s, "refresh")
  BY DEF Refresh, RefreshJobs
<1>13. TwoFactorJobs \subseteq SignedInJobs
  BY DEF TwoFactorJobs, AccessTokens, SignedInJobs, Tokens
<1>14. SetUpTwoFactor(s) => Served(s, "2fa_setup")
  BY <1>13 DEF SetUpTwoFactor
<1>15. EnableTwoFactor(s) => Served(s, "2fa_enable")
  BY <1>13 DEF EnableTwoFactor
<1>16. DisableTwoFactor(s) => Served(s, "2fa_disable")
  BY <1>13 DEF DisableTwoFactor
<1>17. CreateComplianceReport(s) => Served(s, "report")
  BY DEF CreateComplianceReport
<1>18. SubmitComplianceReport(s) => Served(s, "submit")
  BY DEF SubmitComplianceReport
<1>19. RaiseRiskFlag(s) => Served(s, "flag")
  BY DEF RaiseRiskFlag
<1>20. ResolveRiskFlag(s) => Served(s, "resolve")
  BY DEF ResolveRiskFlag
<1>21. ListNews(s) => Served(s, "news_list")
  BY DEF ListNews
<1>22. CreateNews(s) => Served(s, "news_post")
  BY DEF CreateNews
<1>23. DeleteNews(s) => Served(s, "news_delete")
  BY DEF DeleteNews
<1> HIDE DEF Served
<1>24. \/ CreateAccount(s) \/ CreateJournalEntry(s) \/ UpdateGLSettings(s)
       \/ UploadBankStatement(s) \/ MatchBankTransaction(s)
       => \E op \in LedgerOps : Served(s, op)
  BY <1>1, <1>2, <1>3, <1>4, <1>5 DEF LedgerOps
<1>25. UpdateEmployee(s) \/ CreatePayrollRun(s) \/ ProcessPayrollRun(s) \/ MarkPayslipPaid(s)
       => \E op \in StaffOps : Served(s, op)
  BY <1>6, <1>7, <1>8, <1>9 DEF StaffOps
<1>26. \/ UpdateUser(s) \/ Login(s) \/ Refresh(s)
       \/ SetUpTwoFactor(s) \/ EnableTwoFactor(s) \/ DisableTwoFactor(s)
       => \E op \in UserOps : Served(s, op)
  BY <1>10, <1>11, <1>12, <1>14, <1>15, <1>16
<1>27. \/ CreateComplianceReport(s) \/ SubmitComplianceReport(s) \/ RaiseRiskFlag(s)
       \/ ResolveRiskFlag(s) \/ ListNews(s) \/ CreateNews(s) \/ DeleteNews(s)
       => \E op \in RegisterOps : Served(s, op)
  BY <1>17, <1>18, <1>19, <1>20, <1>21, <1>22, <1>23 DEF RegisterOps
<1>28. QED
  BY <1>24, <1>25, <1>26, <1>27 DEF Request, NoticeStep, Ops

-----------------------------------------------------------------------------
(* Which columns each handler writes.                                       *)

LedgerColumns   == {"chart", "gl", "entries", "bank"}
StaffColumns    == {"salary", "owed", "runs"}
UserColumns     == {"user", "token"}
NoticeColumns   == {"notice", "task", "delivered"}
RegisterColumns == {"report", "submitted", "flag", "news"}

AllColumns == LedgerColumns \cup StaffColumns \cup UserColumns \cup NoticeColumns
                 \cup RegisterColumns

\* the columns that the handler of op writes
WrittenBy(op) ==
    CASE op = "create_account" -> {"chart"}
      [] op = "journal"        -> {"entries"}
      [] op = "gl_settings"    -> {"gl"}
      [] op \in {"upload", "match"} -> {"bank"}
      [] op = "employee"       -> {"salary"}
      [] op = "process"        -> {"runs", "entries"}
      [] op \in {"run", "pay"} -> {"runs"}
      [] op \in {"login", "refresh"} -> {"token"}
      [] op \in {"user_update", "2fa_setup", "2fa_enable", "2fa_disable"} -> {"user"}
      [] op = "report"         -> {"report"}
      [] op = "submit"         -> {"report", "submitted"}
      [] op \in {"flag", "resolve"}  -> {"flag"}
      [] op \in {"news_list", "news_post", "news_delete"} -> {"news"}

(* The tables at the start, column by column.                                *)
LEMMA TheTables ==
    /\ DOMAIN Tables = AllColumns
    /\ \A c \in LedgerColumns : Tables[c] = LedgerTables[c]
    /\ \A c \in StaffColumns : Tables[c] = StaffTables[c]
    /\ \A c \in UserColumns : Tables[c] = UserTables[c]
    /\ \A c \in NoticeColumns : Tables[c] = NoticeTables[c]
    /\ \A c \in RegisterColumns : Tables[c] = RegisterTables[c]
<1>1. /\ DOMAIN LedgerTables = LedgerColumns
      /\ DOMAIN StaffTables = StaffColumns
      /\ DOMAIN UserTables = UserColumns
      /\ DOMAIN NoticeTables = NoticeColumns
      /\ DOMAIN RegisterTables = RegisterColumns
  BY DEF LedgerTables, StaffTables, UserTables, NoticeTables, RegisterTables,
     LedgerColumns, StaffColumns, UserColumns, NoticeColumns, RegisterColumns
<1>2. /\ LedgerColumns \cap StaffColumns = {}
      /\ (LedgerColumns \cup StaffColumns) \cap (UserColumns \cup NoticeColumns \cup RegisterColumns) = {}
      /\ UserColumns \cap (NoticeColumns \cup RegisterColumns) = {}
      /\ NoticeColumns \cap RegisterColumns = {}
  BY DEF LedgerColumns, StaffColumns, UserColumns, NoticeColumns, RegisterColumns
<1> DEFINE b == Beside(NoticeTables, RegisterTables)
           a == Beside(UserTables, b)
           l == Beside(LedgerTables, StaffTables)
<1>3. /\ DOMAIN b = NoticeColumns \cup RegisterColumns
      /\ \A c \in NoticeColumns : b[c] = NoticeTables[c]
      /\ \A c \in RegisterColumns : b[c] = RegisterTables[c]
  BY <1>1, <1>2 DEF Beside
<1>4. /\ DOMAIN l = LedgerColumns \cup StaffColumns
      /\ \A c \in LedgerColumns : l[c] = LedgerTables[c]
      /\ \A c \in StaffColumns : l[c] = StaffTables[c]
  BY <1>1, <1>2 DEF Beside
<1> HIDE DEF b, l
<1>5. /\ DOMAIN a = UserColumns \cup NoticeColumns \cup RegisterColumns
      /\ \A c \in UserColumns : a[c] = UserTables[c]
      /\ \A c \in NoticeColumns \cup RegisterColumns : a[c] = b[c]
  BY <1>1, <1>2, <1>3 DEF Beside
<1> HIDE DEF a
<1>6. /\ DOMAIN Beside(l, a) = AllColumns
      /\ \A c \in LedgerColumns \cup StaffColumns : Beside(l, a)[c] = l[c]
      /\ \A c \in UserColumns \cup NoticeColumns \cup RegisterColumns : Beside(l, a)[c] = a[c]
  BY <1>2, <1>4, <1>5 DEF AllColumns, Beside
<1>7. Tables = Beside(l, a)
  BY DEF Tables, a, b, l
<1>8. QED
  BY <1>3, <1>4, <1>5, <1>6, <1>7

(* A handler writes its own columns and keeps the others.                    *)
LEMMA Frame ==
    ASSUME NEW op \in Ops, NEW j, NEW v, NEW d, DOMAIN d = AllColumns
    PROVE  /\ DOMAIN Written(op, j, v, d) = AllColumns
           /\ \A c \in AllColumns \ WrittenBy(op) : Written(op, j, v, d)[c] = d[c]
<1> DEFINE w == Written(op, j, v, d)
           Framed == /\ DOMAIN w = AllColumns
                     /\ \A c \in AllColumns \ WrittenBy(op) : w[c] = d[c]
<1> USE DEF Written, WrittenBy
<1>1. CASE op \in LedgerOps
  BY <1>1 DEF LedgerOps, AccountCreated, EntryPosted, GLSettingsSet, StatementUploaded, LineMatched
<1>2. CASE op \in StaffOps
  BY <1>2 DEF StaffOps, SalarySet, RunCreated, RunProcessed, SlipPaid
<1>3. CASE op \in UserOps
  BY <1>3 DEF UserOps, PortalOps, UserSet, TokensIssued, SecretReplaced, TwoFactorOn, TwoFactorOff
<1>4. CASE op \in RegisterOps
  BY <1>4 DEF RegisterOps, ReportPrepared, ReportSubmitted, FlagRaised, FlagResolved,
     NewsSeeded, NewsPosted, NewsDeleted
<1>5. QED
  BY <1>1, <1>2, <1>3, <1>4 DEF Ops

-----------------------------------------------------------------------------
(* What a session is at, and what each step of the system is.               *)

\* a session serves a job that its handler has accepted
OnRequest(w) ==
    /\ DOMAIN w = {"op", "job", "view"}
    /\ w.op \in desk \cap Ops
    /\ w.job \in Jobs(w.op)
    /\ Accepts(w.op, w.job, w.view)

\* or is at work on a message
OnNotice(w) ==
    /\ DOMAIN w = {"op", "job", "view"}
    /\ w.op \in desk \cap NoticeOps
    /\ w.job.notice \in IF w.op = "alert" THEN Alerts ELSE Notices
    /\ w.op \in {"deliver", "alert"} =>
          w.job \in [notice : Messages, outcome : {"pending", "SENT", "FAILED"}]

SessionsAtWork ==
    /\ session = [s \in Sessions |-> session[s]]
    /\ \A s \in Sessions : session[s] = Idle \/ OnRequest(session[s]) \/ OnNotice(session[s])

(* The sessions work on what the table allows, or on a message; the columns  *)
(* are there; a task can be taken up.                                        *)
WorkInv ==
    /\ SessionsAtWork
    /\ DOMAIN db = AllColumns
    /\ db.token \subseteq Tokens
    /\ db.task \subseteq Notices
    /\ db.task # {} => "deliver" \in desk
    /\ served \in 0 .. MaxRequests
    /\ desk \in Desks
    /\ now \in 0 .. MaxTime

\* an access token expires
Expiry ==
    /\ UNCHANGED <<session, served, desk, now>>
    /\ \E t : db' = [db EXCEPT !.token = @ \ {t}]

\* nothing is written; a session may end, and the clock may move
NothingWritten ==
    /\ UNCHANGED <<db, served, desk>>
    /\ now' \in 0 .. MaxTime
    /\ session' = session \/ \E s \in Sessions : session' = [session EXCEPT ![s] = Idle]

(* Every step is a step of one request or of the server.                     *)
LEMMA EveryStep ==
    ASSUME WorkInv, [Next]_vars
    PROVE  \/ \E s \in Sessions, op \in Ops : Served(s, op)
           \/ \E s \in Sessions : NoticeStep(s)
           \/ ServerRestarts
           \/ Expiry
           \/ NothingWritten
<1>1. CASE \E s \in Sessions : Request(s)
  BY <1>1, RequestsServed DEF WorkInv
<1>2. CASE \E s \in Sessions : Failed(s)
  BY <1>2 DEF Failed, NothingWritten, WorkInv
<1>3. CASE DatesMatter /\ TimePasses
  BY <1>3, RequestsAssumption DEF TimePasses, NothingWritten, WorkInv
<1>4. CASE AccessExpires
  BY <1>4 DEF AccessExpires, Expiry
<1>5. CASE UNCHANGED vars
  BY <1>5 DEF vars, requests, NothingWritten, WorkInv
<1>6. QED
  BY <1>1, <1>2, <1>3, <1>4, <1>5 DEF Next, NoticeStep

(* What the steps of messages do to sessions and columns.                    *)
LEMMA NoticesKeep ==
    ASSUME WorkInv, NEW s \in Sessions, NoticeStep(s)
    PROVE  /\ session' = [session EXCEPT ![s] = session'[s]]
           /\ session[s] = Idle \/ session[s].op \in NoticeOps
           /\ session'[s] = Idle \/ OnNotice(session'[s])
           /\ DOMAIN db' = AllColumns
           /\ \A c \in AllColumns \ NoticeColumns : db'[c] = db[c]
           /\ db'.task \subseteq Notices
           /\ db'.task # {} => "deliver" \in desk
           /\ served' \in 0 .. MaxRequests
           /\ UNCHANGED <<desk, now>>
<1> USE DEF WorkInv, SessionsAtWork, OnNotice, NoticeOps, Messages
<1>0. {"notice", "task", "delivered"} \subseteq AllColumns
  BY DEF AllColumns, NoticeColumns
<1>1. CASE SendNotification(s) /\ session[s] = Idle
  <2>1. PICK j \in NotifyJobs :
           /\ session' = [session EXCEPT ![s] =
                             [op |-> "notify", job |-> j, view |-> NoticeRead(j, db)]]
           /\ "notify" \in desk /\ db' = db /\ served < MaxRequests /\ served' = served + 1
           /\ UNCHANGED <<desk, now>>
    BY <1>1 DEF SendNotification, Serves, ServesWhile, Opened, Committed, Idle
  <2>2. j.notice \in Notices /\ DOMAIN j = {"notice"}
    BY <2>1 DEF NotifyJobs, Fresh
  <2>3. QED
    BY <1>1, <2>1, <2>2, RequestsAssumption
<1>2. CASE SendNotification(s) /\ session[s] # Idle
  <2>1. /\ session[s].op = "notify" /\ session' = [session EXCEPT ![s] = Idle]
        /\ db' = [db EXCEPT !.notice[session[s].job.notice] = "QUEUED",
                            !.task = @ \cup {session[s].job.notice}]
        /\ UNCHANGED <<served, desk, now>>
    BY <1>2 DEF SendNotification, Serves, ServesWhile, Opened, Committed, Queued
  <2>2. "notify" \in desk /\ session[s].job.notice \in Notices
    BY <1>2, <2>1 DEF OnRequest, Ops, LedgerOps, StaffOps, UserOps, PortalOps, RegisterOps
  <2>3. "deliver" \in desk
    BY <2>2, NotificationsAssumption
  <2>4. DOMAIN db' = AllColumns /\ \A c \in AllColumns \ NoticeColumns : db'[c] = db[c]
    BY <2>1 DEF NoticeColumns
  <2>5. db'.task = db.task \cup {session[s].job.notice}
    BY <1>0, <2>1
  <2>6. QED
    BY <2>1, <2>2, <2>3, <2>4, <2>5
<1>3. CASE StartTask(s)
  <2>1. PICK n \in db.task :
           /\ session' = [session EXCEPT ![s] =
                 [op |-> "deliver", job |-> [notice |-> n, outcome |-> "pending"],
                  view |-> db.notice[n]]]
           /\ db' = [db EXCEPT !.task = db.task \ {n}]
           /\ UNCHANGED <<served, desk, now>>
    BY <1>3 DEF StartTask, TasksAfter
  <2>2. session[s] = Idle
    BY <1>3 DEF StartTask
  <2>3. DOMAIN db' = AllColumns /\ \A c \in AllColumns \ NoticeColumns : db'[c] = db[c]
    BY <2>1 DEF NoticeColumns
  <2>4. db'.task = db.task \ {n}
    BY <1>0, <2>1
  <2>5. QED
    BY <2>1, <2>2, <2>3, <2>4
<1>4. CASE SendAlert(s)
  <2>1. PICK j \in AlertJobs :
           /\ session' = [session EXCEPT ![s] =
                             [op |-> "alert", job |-> j, view |-> NoticeRead(j, db)]]
           /\ session[s] = Idle
           /\ "alert" \in desk /\ db' = db /\ served < MaxRequests /\ served' = served + 1
           /\ UNCHANGED <<desk, now>>
    BY <1>4 DEF SendAlert, Opened
  <2>2. j \in [notice : Alerts, outcome : {"pending", "SENT", "FAILED"}]
    BY <2>1 DEF AlertJobs, Fresh
  <2>3. QED
    BY <2>1, <2>2, RequestsAssumption
<1>5. CASE Dispatch(s)
  <2> DEFINE n == session[s].job.notice
  <2>1. PICK outcome \in {"SENT", "FAILED"}, taken \in {0, 1} :
           /\ session' = [session EXCEPT ![s].job.outcome = outcome]
           /\ db' = [db EXCEPT !.delivered[n] = @ + taken]
    BY <1>5 DEF Dispatch
  <2>2. session[s].op \in {"deliver", "alert"} /\ session[s] # Idle /\ UNCHANGED <<served, desk, now>>
    BY <1>5 DEF Dispatch
  <2>3. OnNotice(session[s])
    BY <2>2 DEF OnRequest, Ops, LedgerOps, StaffOps, UserOps, PortalOps, RegisterOps
  <2>4. DOMAIN db' = AllColumns /\ \A c \in AllColumns \ NoticeColumns : db'[c] = db[c]
    BY <2>1 DEF NoticeColumns
  <2>5. db'.task = db.task
    BY <1>0, <2>1
  <2>6. session' = [session EXCEPT ![s] = session'[s]]
        /\ session'[s] = [session[s] EXCEPT !.job.outcome = outcome]
    BY <2>1
  <2>7. OnNotice(session'[s])
    BY <2>2, <2>3, <2>6
  <2>8. QED
    BY <2>2, <2>4, <2>5, <2>6, <2>7
<1>6. CASE FinishDispatch(s)
  <2>1. /\ session[s].op \in {"deliver", "alert"}
        /\ session' = [session EXCEPT ![s] = Idle]
        /\ db' = [db EXCEPT !.notice[session[s].job.notice] = session[s].job.outcome]
        /\ UNCHANGED <<served, desk, now>>
    BY <1>6 DEF FinishDispatch, Committed, Settled
  <2>2. DOMAIN db' = AllColumns /\ \A c \in AllColumns \ NoticeColumns : db'[c] = db[c]
    BY <2>1 DEF NoticeColumns
  <2>3. db'.task = db.task
    BY <1>0, <2>1
  <2>4. QED
    BY <2>1, <2>2, <2>3
<1>7. QED
  BY <1>1, <1>2, <1>3, <1>4, <1>5, <1>6 DEF NoticeStep

(* Tokens are of the users and portals there are.                            *)
LEMMA TokensStep ==
    ASSUME WorkInv, NEW s \in Sessions, NEW op \in Ops, CommitsIt(s, op)
    PROVE  db'.token \subseteq Tokens
<1>1. "token" \in AllColumns
  BY DEF AllColumns, UserColumns
<1>2. CASE op \in {"login", "refresh"}
  <2> DEFINE j == session[s].job
  <2>1. db' = [db EXCEPT !.token = @ \cup [user : {j.user}, portal : {j.portal},
                                           type : {"access", "refresh"}]]
    BY <1>2 DEF CommitsIt, Written, TokensIssued
  <2>2. OnRequest(session[s])
    BY <1>2 DEF CommitsIt, WorkInv, SessionsAtWork, OnNotice, NoticeOps, Idle
  <2>3. j.user \in Accountholders /\ j.portal \in Portals
    BY <1>2, <2>2 DEF CommitsIt, OnRequest, Jobs, LoginJobs, Tokens
  <2>4. db'.token = db.token \cup [user : {j.user}, portal : {j.portal},
                                   type : {"access", "refresh"}]
    BY <1>1, <2>1 DEF WorkInv
  <2>5. QED
    BY <2>3, <2>4 DEF WorkInv, Tokens
<1>3. CASE op \notin {"login", "refresh"}
  <2>1. "token" \notin WrittenBy(op)
    BY <1>3 DEF WrittenBy, Ops, LedgerOps, StaffOps, UserOps, PortalOps, RegisterOps
  <2>2. QED
    BY <1>1, <2>1, Frame DEF CommitsIt, WorkInv
<1>4. QED
  BY <1>2, <1>3

(* Every step keeps the sessions at accepted work, at any isolation level.   *)
LEMMA WorkStep ==
    ASSUME WorkInv, [Next]_vars
    PROVE  WorkInv'
<1>0. {"token", "task"} \subseteq AllColumns /\ "task" \notin UserColumns
  BY DEF AllColumns, UserColumns, NoticeColumns
<1>1. ASSUME NEW s \in Sessions, NEW w, w = Idle \/ OnRequest(w) \/ OnNotice(w),
             session' = [session EXCEPT ![s] = w], desk' = desk
      PROVE  SessionsAtWork'
  BY <1>1 DEF WorkInv, SessionsAtWork, OnRequest, OnNotice
<1>2. ASSUME session' = session, desk' = desk
      PROVE  SessionsAtWork'
  BY <1>2 DEF WorkInv, SessionsAtWork, OnRequest, OnNotice
<1>3. ASSUME NEW s \in Sessions, NEW op \in Ops, Served(s, op)
      PROVE  WorkInv'
  <2>1. served' \in 0 .. MaxRequests /\ desk' \in Desks /\ now' \in 0 .. MaxTime
        /\ UNCHANGED <<desk, now>>
    BY <1>3, RequestsAssumption DEF Served, WorkInv
  <2>2. CASE Opens(s, op)
    <3>1. PICK j \in Jobs(op) :
             /\ op \in desk /\ Accepts(op, j, ReadBy(op, j, db))
             /\ session' = [session EXCEPT ![s] = [op |-> op, job |-> j,
                                                   view |-> ReadBy(op, j, db)]]
      BY <2>2 DEF Opens
    <3>2. OnRequest([op |-> op, job |-> j, view |-> ReadBy(op, j, db)])
      BY <3>1 DEF OnRequest
    <3>3. SessionsAtWork'
      BY <1>1, <2>1, <3>1, <3>2
    <3>4. db' = db
      BY <2>2 DEF Opens
    <3>5. QED
      BY <2>1, <3>3, <3>4 DEF WorkInv
  <2>3. CASE CommitsIt(s, op)
    <3>1. SessionsAtWork'
      BY <1>1, <2>1, <2>3 DEF CommitsIt
    <3>2. DOMAIN db' = AllColumns
      BY <2>3, Frame DEF CommitsIt, WorkInv
    <3>3. db'.task = db.task
      <4>1. "task" \notin WrittenBy(op)
        BY DEF WrittenBy, Ops, LedgerOps, StaffOps, UserOps, PortalOps, RegisterOps
      <4>2. QED
        BY <1>0, <2>3, <4>1, Frame DEF CommitsIt, WorkInv
    <3>4. db'.token \subseteq Tokens
      BY <2>3, TokensStep
    <3>5. QED
      BY <2>1, <3>1, <3>2, <3>3, <3>4 DEF WorkInv
  <2>4. QED
    BY <1>3, <2>2, <2>3 DEF Served
<1>4. ASSUME NEW s \in Sessions, NoticeStep(s)
      PROVE  WorkInv'
  <2>1. SessionsAtWork'
    BY <1>1, <1>4, NoticesKeep
  <2>2. db'.token = db.token
    BY <1>0, <1>4, NoticesKeep DEF NoticeColumns
  <2>3. QED
    BY <1>4, <2>1, <2>2, NoticesKeep DEF WorkInv
<1>5. CASE ServerRestarts
  <2>1. SessionsAtWork'
    BY <1>5 DEF ServerRestarts, SessionsAtWork
  <2>2. DOMAIN db' = AllColumns /\ db'.token = db.token /\ db'.task = {}
        /\ UNCHANGED <<served, desk, now>>
    BY <1>0, <1>5 DEF ServerRestarts, WorkInv
  <2>3. QED
    BY <2>1, <2>2 DEF WorkInv
<1>6. CASE Expiry
  <2>1. DOMAIN db' = AllColumns /\ db'.token \subseteq db.token /\ db'.task = db.task
        /\ UNCHANGED <<session, served, desk, now>>
    BY <1>0, <1>6 DEF Expiry, WorkInv
  <2>2. QED
    BY <1>2, <2>1 DEF WorkInv
<1>7. CASE NothingWritten
  <2>1. SessionsAtWork'
    BY <1>1, <1>2, <1>7 DEF NothingWritten
  <2>2. QED
    BY <1>7, <2>1 DEF NothingWritten, WorkInv
<1>8. QED
  BY <1>3, <1>4, <1>5, <1>6, <1>7, EveryStep

(* The sessions work on what the table allows, whatever the isolation level: *)
(* a handler never goes on with a job it has refused.                        *)
THEOREM WorkIsAccepted == Spec => []WorkInv
<1>1. Init => WorkInv
  <2>1. Tables.token \subseteq Tokens /\ Tables.task = {}
    <3>1. UserTables.token \subseteq Tokens /\ NoticeTables.task = {}
      BY DEF UserTables, NoticeTables, Tokens, Portals
    <3>2. Tables.token = UserTables.token /\ Tables.task = NoticeTables.task
      BY TheTables DEF UserColumns, NoticeColumns
    <3>3. QED
      BY <3>1, <3>2
  <2>2. ASSUME session = [s \in Sessions |-> Idle]
        PROVE  SessionsAtWork
    <3>1. \A s \in Sessions : session[s] = Idle
      BY <2>2
    <3>2. QED
      BY <2>2, <3>1 DEF SessionsAtWork
  <2>3. QED
    BY <2>1, <2>2, TheTables, RequestsAssumption DEF Init, RequestsInit, WorkInv
<1>2. WorkInv /\ [Next]_vars => WorkInv'
  BY WorkStep
<1>3. QED
  BY <1>1, <1>2, PTL DEF Spec

(* What a commit finds: a request that was accepted, and on a serializable   *)
(* database the rows it guards as it has read them.                          *)
LEMMA CommitFinds ==
    ASSUME WorkInv, NEW s \in Sessions, NEW op \in Ops, CommitsIt(s, op)
    PROVE  /\ session[s].job \in Jobs(op)
           /\ Accepts(op, session[s].job, session[s].view)
           /\ Isolation = "serializable" =>
                 Same(op, session[s].job, session[s].view, ReadBy(op, session[s].job, db))
<1>1. session[s].op \in Ops /\ session[s] # Idle /\ ~OnNotice(session[s])
  BY DEF CommitsIt, Idle, OnNotice, NoticeOps, Ops, LedgerOps, StaffOps, UserOps, PortalOps,
     RegisterOps
<1>2. QED
  BY <1>1 DEF WorkInv, SessionsAtWork, OnRequest, CommitsIt, MayCommit

\* The handler of op writes from v, which it has accepted, and which is what
\* it would read now as far as it is guarded.
Alone(op, j, v) ==
    /\ j \in Jobs(op)
    /\ Accepts(op, j, v)
    /\ Same(op, j, v, ReadBy(op, j, db))
    /\ db' = Written(op, j, v, db)

\* only columns of C are written
Keeps(C) == DOMAIN db' = AllColumns /\ \A c \in AllColumns \ C : db'[c] = db[c]

(* A step that writes something else than messages and tokens is a request   *)
(* that is committed.                                                        *)
LEMMA StepCommits ==
    ASSUME WorkInv, [Next]_vars
    PROVE  \/ Keeps(NoticeColumns)
           \/ Keeps({"token"}) /\ session' = session
           \/ \E s \in Sessions, op \in Ops : CommitsIt(s, op)
<1>1. CASE \E s \in Sessions, op \in Ops : Served(s, op)
  BY <1>1 DEF Served, Opens, Keeps, WorkInv
<1>2. CASE \E s \in Sessions : NoticeStep(s)
  BY <1>2, NoticesKeep DEF Keeps
<1>3. CASE ServerRestarts
  BY <1>3 DEF ServerRestarts, Keeps, WorkInv, NoticeColumns
<1>4. CASE Expiry
  BY <1>4 DEF Expiry, Keeps, WorkInv
<1>5. CASE NothingWritten
  BY <1>5 DEF NothingWritten, Keeps, WorkInv
<1>6. QED
  BY <1>1, <1>2, <1>3, <1>4, <1>5, EveryStep

(* On a serializable database what that request guards is what it has read. *)
LEMMA StepAlone ==
    ASSUME WorkInv, Isolation = "serializable", [Next]_vars
    PROVE  \/ Keeps(NoticeColumns \cup {"token"})
           \/ \E s \in Sessions :
                 /\ session[s].op \in Ops
                 /\ Alone(session[s].op, session[s].job, session[s].view)
<1>1. ASSUME NEW s \in Sessions, NEW op \in Ops, CommitsIt(s, op)
      PROVE  session[s].op = op /\ Alone(op, session[s].job, session[s].view)
  BY <1>1, CommitFinds DEF CommitsIt, Alone
<1>2. Keeps(NoticeColumns) \/ Keeps({"token"}) => Keeps(NoticeColumns \cup {"token"})
  BY DEF Keeps
<1>3. QED
  BY <1>1, <1>2, StepCommits

-----------------------------------------------------------------------------
(* Who acts for whom.                                                       *)

(* On a serializable database what a signed-in user commits is for the      *)
(* portal of the user's role at that moment and for an active user: the      *)
(* handler writes the user's row, so that a promotion or a deactivation that *)
(* commits meanwhile has it refused (get_current_user, login; refresh writes *)
(* nothing, and is not spoken of).                                           *)
THEOREM OwnPortalOnly ==
    ASSUME Isolation = "serializable"
    PROVE  Spec => ActsInOwnPortal
<1> DEFINE Acts == {"login", "2fa_setup", "2fa_enable", "2fa_disable"}
<1>1. ASSUME WorkInv, [Next]_vars, NEW s \in Sessions,
             session[s].op \in Acts, session'[s] = Idle,
             db'.user # db.user \/ db'.token # db.token
      PROVE  Entitled(db.user[session[s].job.user], session[s].job.portal)
  <2>1. {"user", "token"} \subseteq AllColumns /\ NoticeColumns \cap {"user", "token"} = {}
    BY DEF AllColumns, UserColumns, NoticeColumns
  <2>2. ~Keeps(NoticeColumns)
    BY <1>1, <2>1 DEF Keeps
  <2>3. PICK t \in Sessions, op \in Ops : CommitsIt(t, op)
    <3>1. session' # session
      BY <1>1 DEF Idle
    <3>2. QED
      BY <1>1, <2>2, <3>1, StepCommits
  <2>4. t = s
    BY <1>1, <2>3 DEF CommitsIt, WorkInv, SessionsAtWork, Idle
  <2>5. op \in Acts
    BY <1>1, <2>3, <2>4 DEF CommitsIt
  <2>6. /\ Accepts(op, session[s].job, session[s].view)
        /\ Same(op, session[s].job, session[s].view, ReadBy(op, session[s].job, db))
    BY <1>1, <2>3, <2>4, CommitFinds
  <2>7. session[s].view = db.user[session[s].job.user]
    BY <2>5, <2>6 DEF Same, ReadBy, UserOps, PortalOps, UserRead
  <2>8. QED
    BY <2>5, <2>6, <2>7 DEF Accepts, MayEnter, MaySetUp, CodeVerified, MayDisable
<1>2. WorkInv /\ [Next]_vars
        => [\A s \in Sessions :
              LET work == session[s] IN
              (/\ work.op \in Acts
               /\ session'[s] = Idle
               /\ db'.user # db.user \/ db'.token # db.token)
              => Entitled(db.user[work.job.user], work.job.portal)]_<<db, session>>
  BY <1>1
<1>3. QED
  BY WorkIsAccepted, <1>2, PTL DEF Spec, ActsInOwnPortal

-----------------------------------------------------------------------------
(* The rows of users.                                                       *)

UserRows == [role : Portals, active : BOOLEAN, two_factor : BOOLEAN, secret : Secrets \cup {0}]

(* The rows of users and the tokens are well formed, at any isolation level. *)
LEMMA UsersTyped ==
    ASSUME WorkInv, db.user \in [Accountholders -> UserRows], [Next]_vars
    PROVE  db'.user \in [Accountholders -> UserRows]
<1>1. "user" \in AllColumns /\ "user" \notin NoticeColumns
  BY DEF AllColumns, UserColumns, NoticeColumns
<1>2. CASE db'.user = db.user
  BY <1>2
<1>3. ASSUME NEW s \in Sessions, NEW op \in Ops, CommitsIt(s, op), db'.user # db.user
      PROVE  db'.user \in [Accountholders -> UserRows]
  <2> DEFINE j == session[s].job
  <2>1. op \in {"user_update", "2fa_setup", "2fa_enable", "2fa_disable"}
    <3>1. "user" \in WrittenBy(op)
      BY <1>1, <1>3, Frame DEF CommitsIt, WorkInv
    <3>2. QED
      BY <3>1 DEF WrittenBy, Ops, LedgerOps, StaffOps, UserOps, PortalOps, RegisterOps
  <2>2. /\ j.user \in Accountholders
        /\ op = "user_update" => j.role \in Portals /\ j.active \in BOOLEAN
        /\ op = "2fa_setup" => j.secret \in Secrets
    BY <1>3, <2>1, CommitFinds, ZenonT(40) DEF Jobs, UserJobs, SignedInJobs
  <2>3. \E r \in UserRows : db'.user = [db.user EXCEPT ![j.user] = r]
    <3> DEFINE u == db.user[j.user]
    <3>0. u \in UserRows
      BY <2>2
    <3>1. CASE op = "user_update"
      <4>1. db'.user = [db.user EXCEPT ![j.user] = [u EXCEPT !.role = j.role, !.active = j.active]]
        BY <1>1, <1>3, <2>2, <3>1 DEF CommitsIt, Written, UserSet, WorkInv
      <4>2. [u EXCEPT !.role = j.role, !.active = j.active] \in UserRows
        BY <2>2, <3>0, <3>1 DEF UserRows
      <4>3. QED
        BY <4>1, <4>2
    <3>2. CASE op = "2fa_setup"
      <4>1. db'.user = [db.user EXCEPT ![j.user] = [u EXCEPT !.secret = j.secret]]
        BY <1>1, <1>3, <2>2, <3>2 DEF CommitsIt, Written, SecretReplaced, WorkInv
      <4>2. [u EXCEPT !.secret = j.secret] \in UserRows
        BY <2>2, <3>0, <3>2 DEF UserRows
      <4>3. QED
        BY <4>1, <4>2
    <3>3. CASE op = "2fa_enable"
      <4>1. db'.user = [db.user EXCEPT ![j.user] = [u EXCEPT !.two_factor = TRUE]]
        BY <1>1, <1>3, <2>2, <3>3 DEF CommitsIt, Written, TwoFactorOn, WorkInv
      <4>2. [u EXCEPT !.two_factor = TRUE] \in UserRows
        BY <3>0 DEF UserRows
      <4>3. QED
        BY <4>1, <4>2
    <3>4. CASE op = "2fa_disable"
      <4>1. db'.user = [db.user EXCEPT ![j.user] = [u EXCEPT !.two_factor = FALSE, !.secret = 0]]
        BY <1>1, <1>3, <2>2, <3>4 DEF CommitsIt, Written, TwoFactorOff, WorkInv
      <4>2. [u EXCEPT !.two_factor = FALSE, !.secret = 0] \in UserRows
        BY <3>0 DEF UserRows
      <4>3. QED
        BY <4>1, <4>2
    <3>5. QED
      BY <2>1, <3>1, <3>2, <3>3, <3>4
  <2>4. QED
    BY <2>2, <2>3
<1>4. QED
  BY <1>1, <1>2, <1>3, StepCommits DEF Keeps

(* Users have a row, with a secret where two-factor authentication is on.    *)
UsersInv ==
    /\ db.user \in [Accountholders -> UserRows]
    /\ TwoFactorHasSecret

(* On a serializable database two-factor authentication is never on without  *)
(* a secret (setup_2fa, enable_2fa, disable_2fa).                            *)
THEOREM SecretWhereTwoFactor ==
    ASSUME Isolation = "serializable"
    PROVE  Spec => []TwoFactorHasSecret
<1>1. Init => UsersInv
  <2>1. Tables.user = UserTables.user
    BY TheTables DEF UserColumns
  <2>2. UserTables.user \in [Accountholders -> UserRows]
        /\ \A u \in Accountholders : UserTables.user[u].two_factor = FALSE
    BY DEF UserTables, UserRows, Portals
  <2>3. QED
    BY <2>1, <2>2 DEF Init, UsersInv, TwoFactorHasSecret
<1>2. ASSUME WorkInv, UsersInv, [Next]_vars
      PROVE  UsersInv'
  <2>0. "user" \in AllColumns /\ "user" \notin NoticeColumns
    BY DEF AllColumns, UserColumns, NoticeColumns
  <2>1. db'.user \in [Accountholders -> UserRows]
    BY <1>2, UsersTyped DEF UsersInv
  <2>2. CASE db'.user = db.user
    BY <1>2, <2>2 DEF UsersInv, TwoFactorHasSecret
  <2>3. ASSUME NEW op \in Ops, NEW j, NEW v, Alone(op, j, v), db'.user # db.user
        PROVE  TwoFactorHasSecret'
    <3>1. op \in {"user_update", "2fa_setup", "2fa_enable", "2fa_disable"}
      <4>1. "user" \in WrittenBy(op)
        BY <1>2, <2>0, <2>3, Frame DEF Alone, WorkInv
      <4>2. QED
        BY <4>1 DEF WrittenBy, Ops, LedgerOps, StaffOps, UserOps, PortalOps, RegisterOps
    <3>2. /\ j \in Jobs(op) /\ Accepts(op, j, db.user[j.user])
          /\ db' = Written(op, j, db.user[j.user], db)
      BY <2>3, <3>1 DEF Alone, Same, ReadBy, UserRead, UserOps, PortalOps
    <3> USE <1>2, <2>0, <3>2 DEF Written, WorkInv, UsersInv, TwoFactorHasSecret, UserRows
    <3>3. CASE op = "user_update"
      <4>1. j.user \in Accountholders
        BY <3>3 DEF Jobs, UserJobs
      <4>2. db'.user = [db.user EXCEPT ![j.user] = [db.user[j.user] EXCEPT !.role = j.role,
                                                                        !.active = j.active]]
        BY <3>3, <4>1 DEF UserSet
      <4>3. \A u \in Accountholders :
               db'.user[u].two_factor = db.user[u].two_factor /\ db'.user[u].secret = db.user[u].secret
        <5>1. \A u \in Accountholders : db.user[u] \in UserRows
          BY DEF UsersInv
        <5> HIDE DEF UserRows
        <5>2. \A u \in Accountholders :
                 db'.user[u] = db.user[u]
                 \/ db'.user[u] = [db.user[u] EXCEPT !.role = j.role, !.active = j.active]
          BY <4>1, <4>2
        <5>3. TAKE u \in Accountholders
        <5> DEFINE r == db.user[u]
                   q == db'.user[u]
        <5>4. r \in UserRows /\ (q = r \/ q = [r EXCEPT !.role = j.role, !.active = j.active])
          BY <5>1, <5>2
        <5>5. CASE q = r
          BY ONLY <5>5, Zenon
        <5>6. CASE q = [r EXCEPT !.role = j.role, !.active = j.active]
          <6>1. DOMAIN r = {"role", "active", "two_factor", "secret"}
            BY <5>4 DEF UserRows
          <6> HIDE DEF q, r
          <6>2. q.two_factor = r.two_factor
            BY ONLY <5>6, <6>1, Zenon
          <6>3. q.secret = r.secret
            BY ONLY <5>6, <6>1
          <6>4. QED
            BY ONLY <6>2, <6>3, Zenon DEF q, r
        <5>7. QED
          BY ONLY <5>4, <5>5, <5>6, Zenon
      <4>4. QED
        BY <4>3
    <3>4. CASE op = "2fa_setup"
      <4>1. j.secret # 0
        BY <3>4, UserAccountsAssumption DEF Jobs, SignedInJobs
      <4>2. QED
        BY <3>4, <4>1 DEF SecretReplaced
    <3>5. CASE op = "2fa_enable"
      <4>1. j.secret # 0 /\ db.user[j.user].secret = j.secret
        BY <3>5, UserAccountsAssumption DEF Jobs, SignedInJobs, Accepts, CodeVerified
      <4>2. QED
        BY <3>5, <4>1 DEF TwoFactorOn
    <3>6. CASE op = "2fa_disable"
      BY <3>6 DEF TwoFactorOff
    <3>7. QED
      BY <3>1, <3>3, <3>4, <3>5, <3>6
  <2>4. QED
    BY <1>2, <2>0, <2>1, <2>2, <2>3, StepAlone DEF Keeps, UsersInv
<1>3. UsersInv => TwoFactorHasSecret
  BY DEF UsersInv
<1>4. QED
  BY WorkIsAccepted, <1>1, <1>2, <1>3, PTL DEF Spec

-----------------------------------------------------------------------------
(* Messages, whose handlers take several steps.                             *)

(* A message is worked on by one session, or waits as a task, or is done     *)
(* with; what a session knows of the outcome is what the service did. One    *)
(* that is queued has a row before anything is sent.                         *)
MessagesInv ==
    /\ db.delivered \in [Messages -> Nat]
    /\ db.notice \in [Messages -> {"none", "QUEUED", "SENT", "FAILED"}]
    /\ \A n \in Messages : db.notice[n] = "SENT" => db.delivered[n] > 0
    /\ \A n \in Notices : /\ db.delivered[n] \in {0, 1}
                          /\ db.notice[n] = "none" => db.delivered[n] = 0
    /\ \A n \in db.task : n \in Notices /\ db.delivered[n] = 0 /\ db.notice[n] # "none"
    /\ \A s \in Sessions : session[s].op \in NoticeOps =>
          LET job == session[s].job IN
          /\ job.notice \in Messages \ db.task
          /\ session[s].op = "alert" => job.notice \in Alerts
          /\ session[s].op # "alert" => job.notice \in Notices
          /\ session[s].op = "notify" => db.delivered[job.notice] = 0
          /\ session[s].op = "deliver" => db.notice[job.notice] # "none"
          /\ session[s].op # "notify" =>
                /\ DOMAIN job = {"notice", "outcome"}
                /\ job.notice \in Notices /\ job.outcome = "pending" => db.delivered[job.notice] = 0
                /\ job.outcome = "SENT" => db.delivered[job.notice] > 0
    /\ \A s, t \in Sessions :
          session[s].op \in NoticeOps /\ session[t].op \in NoticeOps /\ s # t
              => session[s].job.notice # session[t].job.notice

\* the sessions at work on a message
NoticeWork(s) == session[s].op \in NoticeOps

(* What the steps of the messages make of messages that are in order: a      *)
(* message is taken up by one session, and what that session does next is    *)
(* known.                                                                    *)
LEMMA MessagesStep ==
    ASSUME WorkInv, MessagesInv, NEW s \in Sessions, NoticeStep(s)
    PROVE  MessagesInv'
<1> USE DEF NoticeOps
<1>0. {"notice", "task", "delivered"} \subseteq DOMAIN db /\ DOMAIN session = Sessions
  BY DEF WorkInv, SessionsAtWork, AllColumns, NoticeColumns
<1>9. session[s].op \in NoticeOps => OnNotice(session[s])
  <2>1. session[s].op \in NoticeOps => session[s] # Idle /\ ~OnRequest(session[s])
    BY DEF OnRequest, Idle, Ops, LedgerOps, StaffOps, UserOps, PortalOps, RegisterOps
  <2>2. QED
    BY <2>1 DEF WorkInv, SessionsAtWork
<1> USE <1>0, <1>9
<1>1. CASE SendNotification(s) /\ session[s] = Idle
  <2>1. PICK j \in NotifyJobs :
           /\ NoticeRead(j, db) = "none"
           /\ session' = [session EXCEPT ![s] =
                             [op |-> "notify", job |-> j, view |-> NoticeRead(j, db)]]
           /\ db' = db
    BY <1>1 DEF SendNotification, Serves, ServesWhile, Opened, Committed, NotYetThere, Idle
  <2>2. j.notice \in Fresh \cap Notices
    BY <2>1 DEF NotifyJobs
  <2>3. j.notice \in Notices \ db.task /\ db.delivered[j.notice] = 0
    BY <2>2 DEF Fresh, MessagesInv
  <2>4. \A t \in Sessions : NoticeWork(t) => session[t].job.notice # j.notice
    BY <2>2 DEF Fresh, AtWork, NoticeWork, Idle
  <2>5. QED
    BY <2>1, <2>3, <2>4 DEF MessagesInv, NoticeWork, Messages
<1>2. CASE SendNotification(s) /\ session[s] # Idle
  <2> DEFINE j == session[s].job
  <2>1. /\ session[s].op = "notify"
        /\ session' = [session EXCEPT ![s] = Idle]
        /\ db'.notice = [db.notice EXCEPT ![j.notice] = "QUEUED"]
        /\ db'.task = db.task \cup {j.notice}
        /\ db'.delivered = db.delivered
    BY <1>2 DEF SendNotification, Serves, ServesWhile, Opened, Committed, Queued
  <2>2. j.notice \in Notices /\ db.delivered[j.notice] = 0
    BY <2>1 DEF MessagesInv, OnNotice
  <2>3. \A t \in Sessions : NoticeWork(t)' =>
           t # s /\ session'[t] = session[t] /\ session[t].job.notice # j.notice
    BY <2>1 DEF MessagesInv, NoticeWork, Idle
  <2>4. QED
    BY <2>1, <2>2, <2>3 DEF MessagesInv, NoticeWork
<1>3. CASE StartTask(s)
  <2>1. PICK n \in db.task :
           /\ session' = [session EXCEPT ![s] =
                 [op |-> "deliver", job |-> [notice |-> n, outcome |-> "pending"],
                  view |-> db.notice[n]]]
           /\ db' = [db EXCEPT !.task = @ \ {n}]
    BY <1>3 DEF StartTask, TasksAfter
  <2>2. db'.task = db.task \ {n} /\ db'.notice = db.notice /\ db'.delivered = db.delivered
    BY <2>1
  <2>3. n \in Notices /\ n \in Messages /\ db.delivered[n] = 0 /\ db.notice[n] # "none"
        /\ \A t \in Sessions : NoticeWork(t) => session[t].job.notice # n
    BY DEF MessagesInv, NoticeWork, Messages
  <2>4. QED
    BY <2>1, <2>2, <2>3 DEF MessagesInv, NoticeWork
<1>4. CASE SendAlert(s)
  <2>1. PICK j \in AlertJobs :
           /\ session' = [session EXCEPT ![s] =
                             [op |-> "alert", job |-> j, view |-> NoticeRead(j, db)]]
           /\ db' = db
    BY <1>4 DEF SendAlert, Opened
  <2>2. /\ j.notice \in Fresh \cap Alerts
        /\ DOMAIN j = {"notice", "outcome"} /\ j.outcome = "pending"
    BY <2>1 DEF AlertJobs
  <2>3. j.notice \in Messages \ db.task /\ j.notice \notin Notices
    BY <2>2, NotificationsAssumption DEF Fresh, MessagesInv
  <2>4. \A t \in Sessions : NoticeWork(t) => session[t].job.notice # j.notice
    BY <2>2 DEF Fresh, AtWork, NoticeWork, Idle
  <2>5. QED
    BY <2>1, <2>2, <2>3, <2>4 DEF MessagesInv, NoticeWork
<1>5. CASE Dispatch(s)
  <2> DEFINE n == session[s].job.notice
  <2>1. PICK outcome \in {"SENT", "FAILED"}, taken \in {0, 1} :
           /\ outcome = "SENT" => taken = 1
           /\ session' = [session EXCEPT ![s].job.outcome = outcome]
           /\ db' = [db EXCEPT !.delivered[n] = @ + taken]
    BY <1>5 DEF Dispatch
  <2>2. session[s].op \in {"deliver", "alert"} /\ session[s].job.outcome = "pending"
    BY <1>5 DEF Dispatch
  <2>3. /\ n \in Messages \ db.task
        /\ n \in Notices => db.delivered[n] = 0 /\ db.notice[n] # "none"
        /\ db.delivered[n] \in Nat
        /\ DOMAIN session[s].job = {"notice", "outcome"}
        /\ \A t \in Sessions : NoticeWork(t) /\ t # s => session[t].job.notice # n
    BY <2>2, NotificationsAssumption DEF MessagesInv, NoticeWork
  <2>4. /\ db'.task = db.task /\ db'.notice = db.notice
        /\ db'.delivered = [db.delivered EXCEPT ![n] = db.delivered[n] + taken]
    BY <2>1
  <2>5. /\ session'[s].op = session[s].op
        /\ session'[s].job = [session[s].job EXCEPT !.outcome = outcome]
        /\ \A t \in Sessions : t # s => session'[t] = session[t]
    BY <2>1, <2>2 DEF OnNotice, Idle
  <2>6. session'[s].job.notice = n /\ session'[s].job.outcome = outcome
        /\ DOMAIN session'[s].job = {"notice", "outcome"}
    BY <2>3, <2>5
  <2>7. /\ db'.delivered \in [Messages -> Nat]
        /\ \A m \in Messages : db'.delivered[m] = IF m = n THEN db.delivered[n] + taken ELSE db.delivered[m]
    BY <2>3, <2>4 DEF MessagesInv
  <2>8. session[s].op \in NoticeOps /\ \A t \in Sessions : session'[t].op = session[t].op
        /\ session'[t].job.notice = session[t].job.notice
    BY <2>2, <2>5, <2>6
  <2> HIDE DEF n
  <2>9. /\ \A m \in Messages : db'.notice[m] = "SENT" => db'.delivered[m] > 0
        /\ \A m \in Notices : /\ db'.delivered[m] \in {0, 1}
                              /\ db'.notice[m] = "none" => db'.delivered[m] = 0
        /\ \A m \in db'.task : m \in Notices /\ db'.delivered[m] = 0 /\ db'.notice[m] # "none"
    BY <2>3, <2>4, <2>7 DEF MessagesInv, Messages
  <2>10. ASSUME NEW t \in Sessions, session'[t].op \in NoticeOps
         PROVE  LET job == session'[t].job IN
                /\ job.notice \in Messages \ db'.task
                /\ session'[t].op = "alert" => job.notice \in Alerts
                /\ session'[t].op # "alert" => job.notice \in Notices
                /\ session'[t].op = "notify" => db'.delivered[job.notice] = 0
                /\ session'[t].op = "deliver" => db'.notice[job.notice] # "none"
                /\ session'[t].op # "notify" =>
                      /\ DOMAIN job = {"notice", "outcome"}
                      /\ job.notice \in Notices /\ job.outcome = "pending"
                            => db'.delivered[job.notice] = 0
                      /\ job.outcome = "SENT" => db'.delivered[job.notice] > 0
    <3>1. CASE t = s
      <4>1. n \in Messages \ db'.task /\ (session'[s].op = "alert" => n \in Alerts)
            /\ (session'[s].op # "alert" => n \in Notices)
            /\ (session'[s].op = "deliver" => db'.notice[n] # "none")
        BY <2>2, <2>3, <2>4, <2>8 DEF MessagesInv, n
      <4>2. outcome = "SENT" => db'.delivered[n] > 0
        BY <2>1, <2>3, <2>7
      <4>3. session'[s].op # "notify" /\ outcome # "pending"
        BY <2>1, <2>2, <2>8
      <4>4. QED
        BY <2>6, <3>1, <4>1, <4>2, <4>3
    <3>2. CASE t # s
      <4> DEFINE m == session[t].job.notice
      <4>1. session'[t] = session[t] /\ session[t].op \in NoticeOps
        BY <2>5, <2>10, <3>2
      <4>2. m # n /\ m \in Messages
        BY <2>3, <3>2, <4>1 DEF MessagesInv, NoticeWork
      <4>3. db'.delivered[m] = db.delivered[m] /\ db'.task = db.task /\ db'.notice = db.notice
        BY <2>4, <2>7, <4>2
      <4>4. QED
        BY <4>1, <4>3 DEF MessagesInv
    <3>3. QED
      BY <3>1, <3>2
  <2>11. \A t, u \in Sessions :
            session'[t].op \in NoticeOps /\ session'[u].op \in NoticeOps /\ t # u
               => session'[t].job.notice # session'[u].job.notice
    BY <2>8 DEF MessagesInv
  <2>12. QED
    BY <2>4, <2>7, <2>9, <2>10, <2>11 DEF MessagesInv
<1>6. CASE FinishDispatch(s)
  <2> DEFINE j == session[s].job
  <2>1. /\ session[s].op \in {"deliver", "alert"} /\ j.outcome # "pending"
        /\ session' = [session EXCEPT ![s] = Idle]
        /\ db'.notice = [db.notice EXCEPT ![j.notice] = j.outcome]
        /\ db'.task = db.task
        /\ db'.delivered = db.delivered
    BY <1>6 DEF FinishDispatch, Committed, Settled
  <2>2. /\ j.notice \in Messages \ db.task /\ (j.outcome = "SENT" => db.delivered[j.notice] > 0)
        /\ j.outcome \in {"SENT", "FAILED"}
    BY <2>1 DEF MessagesInv, OnNotice
  <2>3. \A t \in Sessions : NoticeWork(t)' => t # s /\ session'[t] = session[t]
    BY <2>1 DEF NoticeWork, Idle
  <2>4. QED
    BY <2>1, <2>2, <2>3 DEF MessagesInv, NoticeWork
<1>7. QED
  BY <1>1, <1>2, <1>3, <1>4, <1>5, <1>6 DEF NoticeStep

(* At the start no message has been sent.                                    *)
LEMMA NothingSentYet == Init => MessagesInv
<1>1. /\ NoticeTables.notice = [n \in Messages |-> "none"]
      /\ NoticeTables.task = {}
      /\ NoticeTables.delivered = [n \in Messages |-> 0]
  BY DEF NoticeTables
<1>2. /\ Tables.notice = [n \in Messages |-> "none"]
      /\ Tables.task = {}
      /\ Tables.delivered = [n \in Messages |-> 0]
  BY <1>1, TheTables DEF NoticeColumns
<1>3. QED
  BY <1>2 DEF Init, RequestsInit, MessagesInv, Idle, NoticeOps, Messages

(* Every step keeps the messages in order, whatever the isolation level.     *)
LEMMA MessagesKept ==
    ASSUME WorkInv, MessagesInv, [Next]_vars
    PROVE  MessagesInv'
<1>0. /\ DOMAIN db = AllColumns /\ DOMAIN session = Sessions
      /\ NoticeColumns \subseteq AllColumns /\ "token" \notin NoticeColumns
  BY DEF WorkInv, SessionsAtWork, AllColumns, NoticeColumns
<1>1. ASSUME db'.notice = db.notice, db'.task \subseteq db.task, db'.delivered = db.delivered,
             \A s \in Sessions : session'[s].op \in NoticeOps => session'[s] = session[s]
      PROVE  MessagesInv'
  BY <1>1 DEF MessagesInv
<1>2. (\A c \in NoticeColumns : db'[c] = db[c])
        => db'.notice = db.notice /\ db'.task = db.task /\ db'.delivered = db.delivered
  BY DEF NoticeColumns
<1>3. ASSUME NEW s \in Sessions, NEW op \in Ops, Served(s, op)
      PROVE  MessagesInv'
  <2>1. op \notin NoticeOps
    BY DEF Ops, LedgerOps, StaffOps, UserOps, PortalOps, RegisterOps, NoticeOps
  <2>2. \A t \in Sessions : session'[t].op \in NoticeOps => session'[t] = session[t]
    BY <1>0, <1>3, <2>1 DEF Served, Opens, CommitsIt, Idle, NoticeOps
  <2>3. WrittenBy(op) \cap NoticeColumns = {}
    BY DEF WrittenBy, NoticeColumns, Ops, LedgerOps, StaffOps, UserOps, PortalOps, RegisterOps
  <2>4. \A c \in NoticeColumns : db'[c] = db[c]
    BY <1>0, <1>3, <2>3, Frame DEF Served, Opens, CommitsIt
  <2>5. QED
    BY <1>1, <1>2, <2>2, <2>4
<1>4. CASE \E s \in Sessions : NoticeStep(s)
  BY <1>4, MessagesStep
<1>5. CASE ServerRestarts
  <2>1. /\ db'.notice = db.notice /\ db'.task = {} /\ db'.delivered = db.delivered
        /\ \A s \in Sessions : session'[s] = Idle
    BY <1>0, <1>5 DEF ServerRestarts, NoticeColumns
  <2>2. QED
    BY <1>1, <2>1 DEF Idle, NoticeOps
<1>6. CASE Expiry
  BY <1>0, <1>1, <1>2, <1>6 DEF Expiry
<1>7. CASE NothingWritten
  BY <1>0, <1>1, <1>7 DEF NothingWritten, Idle, NoticeOps
<1>8. QED
  BY <1>3, <1>4, <1>5, <1>6, <1>7, EveryStep

(* No message that was queued goes out twice, and one of either kind that is *)
(* recorded as sent went out, through restarts, failed commits and calls     *)
(* that time out, at every isolation level (dispatch, _send_in_background).  *)
THEOREM NobodyQueuedHearsTwice == Spec => []SentOnce
<1>1. WorkInv /\ MessagesInv /\ [Next]_vars => MessagesInv'
  BY MessagesKept
<1>2. MessagesInv => SentOnce
  BY DEF MessagesInv, SentOnce
<1>3. QED
  BY NothingSentYet, WorkIsAccepted, <1>1, <1>2, PTL DEF Spec

-----------------------------------------------------------------------------
(* The tax table.                                                           *)

Band(lower, base, rate) == [lower |-> lower, base |-> base, rate |-> rate]

(* A tuple of five is what it is made of.                                    *)
LEMMA FiveOf ==
    ASSUME NEW a, NEW b, NEW c, NEW d, NEW e, NEW p, p = <<a, b, c, d, e>>
    PROVE  /\ p[1] = a /\ p[2] = b /\ p[3] = c /\ p[4] = d /\ p[5] = e
           /\ Len(p) = 5 /\ DOMAIN p = 1 .. 5
  BY SMT

(* The bands of the table, one by one.                                       *)
LEMMA TheBands ==
    /\ PAYE_BANDS[1] = Band(0, 0, 0)
    /\ PAYE_BANDS[2] = Band(23500000, 0, 1)
    /\ PAYE_BANDS[3] = Band(33500000, 1000000, 2)
    /\ PAYE_BANDS[4] = Band(41000000, 2500000, 3)
    /\ PAYE_BANDS[5] = Band(1000000000, 290200000, 4)
    /\ Len(PAYE_BANDS) = 5 /\ DOMAIN PAYE_BANDS = 1 .. 5
<1>1. PAYE_BANDS = <<Band(0, 0, 0), Band(23500000, 0, 1), Band(33500000, 1000000, 2),
                     Band(41000000, 2500000, 3), Band(1000000000, 290200000, 4)>>
  BY SMT DEF PAYE_BANDS, Band
<1>2. QED
  BY <1>1, FiveOf, SMT

(* There are five.                                                           *)
LEMMA FiveBands == Len(PAYE_BANDS) = 5 /\ DOMAIN PAYE_BANDS = 1 .. 5
  BY TheBands, SMT

\* where band i starts
Lower(i) == PAYE_BANDS[i].lower

(* Where the bands start, and their rates.                                   *)
LEMMA TheBounds ==
    /\ Lower(1) = 0 /\ Lower(2) = 23500000 /\ Lower(3) = 33500000
    /\ Lower(4) = 41000000 /\ Lower(5) = 1000000000
    /\ PAYE_BANDS[1].rate = 0 /\ PAYE_BANDS[2].rate = 1 /\ PAYE_BANDS[3].rate = 2
    /\ PAYE_BANDS[4].rate = 3 /\ PAYE_BANDS[5].rate = 4
    /\ PAYE_BANDS[1].base = 0 /\ PAYE_BANDS[2].base = 0 /\ PAYE_BANDS[3].base = 1000000
    /\ PAYE_BANDS[4].base = 2500000 /\ PAYE_BANDS[5].base = 290200000
<1>1. ASSUME NEW l, NEW b, NEW r
      PROVE  Band(l, b, r).lower = l /\ Band(l, b, r).base = b /\ Band(l, b, r).rate = r
  BY SMT DEF Band
<1>2. QED
  BY <1>1, TheBands, SMT DEF Lower

(* A pay lies in the band it exceeds the start of.                           *)
LEMMA BandFound ==
    ASSUME NEW gross \in Nat
    PROVE  /\ BandOf(gross) \in 1 .. 5
           /\ BandOf(gross) # 5 => gross <= Lower(BandOf(gross) + 1)
           /\ BandOf(gross) # 1 => gross > Lower(BandOf(gross))
<1> DEFINE Fit(i) == /\ i = Len(PAYE_BANDS) \/ gross <= PAYE_BANDS[i + 1].lower
                     /\ \A k \in 1 .. i - 1 : gross > PAYE_BANDS[k + 1].lower
<1>1. BandOf(gross) = CHOOSE i \in 1 .. 5 : Fit(i)
  BY FiveBands, Zenon DEF BandOf
<1>2. \A i \in 1 .. 5 :
         Fit(i) <=> /\ i = 5 \/ gross <= Lower(i + 1)
                    /\ \A k \in 1 .. i - 1 : gross > Lower(k + 1)
  BY FiveBands, Zenon DEF Lower
<1> HIDE DEF Fit
<1>3. \E i \in 1 .. 5 : Fit(i)
  <2>1. gross <= Lower(2) => Fit(1)
    BY <1>2, TheBounds, SMT
  <2>2. gross > Lower(2) /\ gross <= Lower(3) => Fit(2)
    BY <1>2, TheBounds, SMT
  <2>3. gross > Lower(3) /\ gross <= Lower(4) => Fit(3)
    BY <1>2, TheBounds, SMT
  <2>4. gross > Lower(4) /\ gross <= Lower(5) => Fit(4)
    BY <1>2, TheBounds, SMT
  <2>5. gross > Lower(5) => Fit(5)
    BY <1>2, TheBounds, SMT
  <2>6. QED
    BY <2>1, <2>2, <2>3, <2>4, <2>5, TheBounds, SMT
<1> DEFINE b == BandOf(gross)
<1>4. b \in 1 .. 5 /\ Fit(b)
  BY <1>1, <1>3, Zenon
<1> HIDE DEF b
<1>5. (b # 5 => gross <= Lower(b + 1)) /\ \A k \in 1 .. b - 1 : gross > Lower(k + 1)
  BY <1>2, <1>4, Zenon
<1>6. b # 1 => b - 1 \in 1 .. b - 1 /\ (b - 1) + 1 = b
  BY <1>4, SMT
<1>7. QED
  BY <1>4, <1>5, <1>6, SMT DEF b

(* A tenth of a natural, rounded, and how much it can be.                    *)
LEMMA TenthsOf ==
    ASSUME NEW x \in Nat
    PROVE  /\ Tenths(x, 0) = 0
           /\ Tenths(x, 1) \in Nat /\ 10 * Tenths(x, 1) <= x + 5
           /\ Tenths(x, 2) \in Nat /\ 10 * Tenths(x, 2) <= 2 * x + 5
           /\ Tenths(x, 3) \in Nat /\ 10 * Tenths(x, 3) <= 3 * x + 5
           /\ Tenths(x, 4) \in Nat /\ 10 * Tenths(x, 4) <= 4 * x + 5
  BY SMT DEF Tenths

(* The tax of a band that is passed as a whole.                              *)
LEMMA TenthsOfBands ==
    /\ \A r \in 0 .. 4 : Tenths(0, r) = 0
    /\ Tenths(33500000 - 23500000, 1) = 1000000
    /\ Tenths(41000000 - 33500000, 2) = 2500000 - 1000000
    /\ Tenths(1000000000 - 41000000, 3) = 290200000 - 2500000
  BY SMT DEF Tenths

\* what the pay is taxed, given its band
PayeIn(gross, i) == PAYE_BANDS[i].base + Tenths(gross - Lower(i), PAYE_BANDS[i].rate)

(* Taxes and contributions are amounts, and take no more than any pay.       *)
LEMMA TaxesLeave ==
    ASSUME NEW gross \in Nat
    PROVE  /\ Paye(gross) \in Nat /\ NssfEmployee(gross) \in Nat /\ NssfEmployer(gross) \in Nat
           /\ Paye(gross) + NssfEmployee(gross) <= gross
<1> DEFINE i == BandOf(gross)
           n == NssfEmployee(gross)
<1>1. Paye(gross) = PayeIn(gross, i)
  BY Zenon DEF Paye, PayeIn, Lower
<1>2. n \in Nat /\ 20 * n <= gross + 10 /\ NssfEmployer(gross) \in Nat
  BY SMT DEF NssfEmployee, NssfEmployer
<1>3. i \in 1 .. 5 /\ (i # 1 => gross > Lower(i))
  BY BandFound, SMT
<1> DEFINE x == gross - Lower(i)
<1>4. x \in Nat
  BY <1>3, TheBounds, SMT
<1>5. PayeIn(gross, i) = PAYE_BANDS[i].base + Tenths(x, PAYE_BANDS[i].rate)
  BY Zenon DEF PayeIn
<1>6. gross = x + Lower(i)
  BY <1>3, TheBounds, SMT
<1> HIDE DEF i, n, x
<1>7. PayeIn(gross, i) \in Nat /\ PayeIn(gross, i) + n <= gross
  <2>1. CASE i = 1
    <3> DEFINE t == Tenths(x, 0)
    <3>1. PayeIn(gross, i) = 0 + t /\ gross = x + 0
      BY <1>5, <1>6, <2>1, TheBounds, SMT
    <3>2. t = 0
      BY <1>4, TenthsOf, SMT
    <3> HIDE DEF t
    <3>3. QED
      BY <1>2, <1>4, <3>1, <3>2, SMT
  <2>2. CASE i = 2
    <3> DEFINE t == Tenths(x, 1)
    <3>1. PayeIn(gross, i) = 0 + t /\ gross = x + 23500000
      BY <1>5, <1>6, <2>2, TheBounds, SMT
    <3>2. t \in Nat /\ 10 * t <= 1 * x + 5
      BY <1>4, TenthsOf, SMT
    <3> HIDE DEF t
    <3>3. QED
      BY <1>2, <1>4, <3>1, <3>2, SMT
  <2>3. CASE i = 3
    <3> DEFINE t == Tenths(x, 2)
    <3>1. PayeIn(gross, i) = 1000000 + t /\ gross = x + 33500000
      BY <1>5, <1>6, <2>3, TheBounds, SMT
    <3>2. t \in Nat /\ 10 * t <= 2 * x + 5
      BY <1>4, TenthsOf, SMT
    <3> HIDE DEF t
    <3>3. QED
      BY <1>2, <1>4, <3>1, <3>2, SMT
  <2>4. CASE i = 4
    <3> DEFINE t == Tenths(x, 3)
    <3>1. PayeIn(gross, i) = 2500000 + t /\ gross = x + 41000000
      BY <1>5, <1>6, <2>4, TheBounds, SMT
    <3>2. t \in Nat /\ 10 * t <= 3 * x + 5
      BY <1>4, TenthsOf, SMT
    <3> HIDE DEF t
    <3>3. QED
      BY <1>2, <1>4, <3>1, <3>2, SMT
  <2>5. CASE i = 5
    <3> DEFINE t == Tenths(x, 4)
    <3>1. PayeIn(gross, i) = 290200000 + t /\ gross = x + 1000000000
      BY <1>5, <1>6, <2>5, TheBounds, SMT
    <3>2. t \in Nat /\ 10 * t <= 4 * x + 5
      BY <1>4, TenthsOf, SMT
    <3> HIDE DEF t
    <3>3. QED
      BY <1>2, <1>4, <3>1, <3>2, SMT
  <2>6. QED
    BY <1>3, <2>1, <2>2, <2>3, <2>4, <2>5, SMT
<1>8. QED
  BY <1>1, <1>2, <1>7, SMT DEF n

\* what taxes leave of a pay
LeftOf(gross) == gross - Paye(gross) - NssfEmployee(gross)

(* A negative pay is not taxed, and leaves less than nothing.                *)
LEMMA TaxesOf ==
    ASSUME NEW gross \in Int
    PROVE  /\ Paye(gross) \in Nat /\ NssfEmployee(gross) \in Int /\ NssfEmployer(gross) \in Int
           /\ LeftOf(gross) \in Int
           /\ gross >= 0 => LeftOf(gross) >= 0
           /\ gross < 0 => LeftOf(gross) <= 0
<1>1. CASE gross >= 0
  <2>1. /\ Paye(gross) \in Nat /\ NssfEmployee(gross) \in Nat /\ NssfEmployer(gross) \in Nat
        /\ Paye(gross) + NssfEmployee(gross) <= gross
    BY <1>1, TaxesLeave
  <2>2. QED
    BY <1>1, <2>1 DEF LeftOf
<1>2. CASE gross < 0
  <2>1. Paye(gross) = 0
    <3> DEFINE Fit(i) == /\ i = Len(PAYE_BANDS) \/ gross <= PAYE_BANDS[i + 1].lower
                         /\ \A k \in 1 .. i - 1 : gross > PAYE_BANDS[k + 1].lower
    <3>1. BandOf(gross) = CHOOSE i \in 1 .. 5 : Fit(i)
      BY FiveBands, Zenon DEF BandOf
    <3>2. \A i \in 1 .. 5 :
             Fit(i) <=> /\ i = 5 \/ gross <= Lower(i + 1)
                        /\ \A k \in 1 .. i - 1 : gross > Lower(k + 1)
      BY FiveBands, Zenon DEF Lower
    <3> HIDE DEF Fit
    <3>3. Fit(1)
      BY <1>2, <3>2, TheBounds, SMT
    <3>4. \A i \in 2 .. 5 : ~Fit(i)
      <4>1. TAKE i \in 2 .. 5
      <4>2. 1 \in 1 .. i - 1 /\ ~(gross > Lower(1 + 1)) /\ i \in 1 .. 5
        BY <1>2, TheBounds, SMT
      <4>3. QED
        BY <3>2, <4>2, Zenon
    <3>5. \A i \in 1 .. 5 : Fit(i) => i = 1
      BY <3>4, SMT
    <3>6. BandOf(gross) = 1
      BY <3>1, <3>3, <3>5, SMT
    <3>7. Paye(gross) = PAYE_BANDS[1].base + Tenths(gross - Lower(1), PAYE_BANDS[1].rate)
      BY <3>6, Zenon DEF Paye, Lower
    <3>8. Tenths(gross, 0) = 0
      BY SMT DEF Tenths
    <3>9. gross - Lower(1) = gross /\ PAYE_BANDS[1].base = 0 /\ PAYE_BANDS[1].rate = 0
      BY TheBounds, SMT
    <3>10. Paye(gross) = 0 + Tenths(gross, 0)
      BY <3>7, <3>9, Zenon
    <3>11. QED
      BY <3>8, <3>10, SMT
  <2>2. /\ NssfEmployee(gross) \in Int /\ NssfEmployer(gross) \in Int
        /\ gross <= NssfEmployee(gross)
    BY <1>2, SMT DEF NssfEmployee, NssfEmployer
  <2>3. QED
    BY <1>2, <2>1, <2>2 DEF LeftOf
<1>3. QED
  BY <1>1, <1>2

(* A sum of five.                                                            *)
LEMMA SumFive ==
    ASSUME NEW f, DOMAIN f = 1 .. 5, \A i \in 1 .. 5 : f[i] \in Int
    PROVE  SumFunction(f) = f[1] + f[2] + f[3] + f[4] + f[5]
<1> DEFINE Sum(T) == SumFunctionOnSet(f, T)
<1>1. ASSUME NEW n \in 0 .. 4
      PROVE  Sum(1 .. n + 1) = f[n + 1] + Sum(1 .. n)
  <2>1. IsFiniteSet(1 .. n)
    BY FS_Interval
  <2>2. 1 .. n + 1 = (1 .. n) \cup {n + 1} /\ n + 1 \notin 1 .. n
    OBVIOUS
  <2>3. \A y \in (1 .. n) \cup {n + 1} : f[y] \in Int
    OBVIOUS
  <2>4. QED
    BY <2>1, <2>2, <2>3, SumAdd
<1>2. 1 .. 0 = {}
  OBVIOUS
<1>3. Sum(1 .. 0) = 0
  BY <1>2, SumEmpty
<1>4. /\ Sum(1 .. 1) = f[1] + Sum(1 .. 0)
      /\ Sum(1 .. 2) = f[2] + Sum(1 .. 1)
      /\ Sum(1 .. 3) = f[3] + Sum(1 .. 2)
      /\ Sum(1 .. 4) = f[4] + Sum(1 .. 3)
      /\ Sum(1 .. 5) = f[5] + Sum(1 .. 4)
  <2> HIDE DEF Sum
  <2>1. 0 \in 0 .. 4 /\ 1 \in 0 .. 4 /\ 2 \in 0 .. 4 /\ 3 \in 0 .. 4 /\ 4 \in 0 .. 4
    OBVIOUS
  <2>2. 0 + 1 = 1 /\ 1 + 1 = 2 /\ 2 + 1 = 3 /\ 3 + 1 = 4 /\ 4 + 1 = 5
    OBVIOUS
  <2>3. QED
    BY <1>1, <2>1, <2>2
<1>5. SumFunction(f) = Sum(1 .. 5)
  BY DEF SumFunction
<1>6. f[1] \in Int /\ f[2] \in Int /\ f[3] \in Int /\ f[4] \in Int /\ f[5] \in Int
  OBVIOUS
<1> HIDE DEF Sum
<1>7. QED
  BY <1>3, <1>4, <1>5, <1>6

(* The part of a pay in each band: all of a band below that of the pay, what *)
(* exceeds its start in that one, and nothing above.                         *)
LEMMA PartsOf ==
    ASSUME NEW gross \in Nat, NEW k \in 1 .. 5
    PROVE  LET b == BandOf(gross) IN
           /\ k < b => PartIn(gross, k) = Lower(k + 1) - Lower(k)
           /\ k = b => PartIn(gross, k) = gross - Lower(k)
           /\ k > b => PartIn(gross, k) = 0
<1> DEFINE b == BandOf(gross)
           upper == IF k = 5 \/ gross <= Lower(k + 1) THEN gross ELSE Lower(k + 1)
<1>1. PartIn(gross, k) = IF gross <= Lower(k) THEN 0 ELSE upper - Lower(k)
  BY FiveBands, Zenon DEF PartIn, Lower
<1>2. /\ b \in 1 .. 5
      /\ b # 5 => gross <= Lower(b + 1)
      /\ b # 1 => gross > Lower(b)
  BY BandFound, Zenon
<1> HIDE DEF b
<1>3. /\ k < b => PartIn(gross, k) = Lower(k + 1) - Lower(k)
      /\ k = b => PartIn(gross, k) = gross - Lower(k)
      /\ k > b => PartIn(gross, k) = 0
  <2>1. CASE b = 1
    BY <1>1, <1>2, <2>1, TheBounds, SMT
  <2>2. CASE b = 2
    BY <1>1, <1>2, <2>2, TheBounds, SMT
  <2>3. CASE b = 3
    BY <1>1, <1>2, <2>3, TheBounds, SMT
  <2>4. CASE b = 4
    BY <1>1, <1>2, <2>4, TheBounds, SMT
  <2>5. CASE b = 5
    BY <1>1, <1>2, <2>5, TheBounds, SMT
  <2>6. QED
    BY <1>2, <2>1, <2>2, <2>3, <2>4, <2>5, SMT
<1>4. QED
  BY <1>3, Zenon DEF b

(* The table of bands is a marginal tax for every pay: the base amounts      *)
(* written into it are the tax of the bands below them, to the cent          *)
(* (calculate_paye, PAYE_BANDS).                                             *)
THEOREM TaxTableIsMarginal == TaxIsMarginal
<1>1. SUFFICES ASSUME NEW gross \in Nat
               PROVE  Paye(gross) = SumFunction([i \in DOMAIN PAYE_BANDS |->
                                       Tenths(PartIn(gross, i), PAYE_BANDS[i].rate)])
  BY TaxAssumption, Zenon DEF TaxIsMarginal
<1> DEFINE t == [i \in 1 .. 5 |-> Tenths(PartIn(gross, i), PAYE_BANDS[i].rate)]
           b == BandOf(gross)
<1>2. Paye(gross) = PayeIn(gross, b)
  BY Zenon DEF Paye, PayeIn, Lower
<1>3. /\ b \in 1 .. 5
      /\ b # 1 => gross > Lower(b)
  BY BandFound, Zenon
<1>4. \A k \in 1 .. 5 : t[k] = Tenths(PartIn(gross, k), PAYE_BANDS[k].rate)
  BY Zenon
<1>5. DOMAIN t = 1 .. 5
  BY Zenon
<1>6. \A k \in 1 .. 5 : /\ k < b => PartIn(gross, k) = Lower(k + 1) - Lower(k)
                        /\ k = b => PartIn(gross, k) = gross - Lower(k)
                        /\ k > b => PartIn(gross, k) = 0
  BY PartsOf, Zenon
<1>7. gross - Lower(b) \in Nat
  BY <1>3, TheBounds, SMT
<1> HIDE DEF t, b
<1>8. b > 1 => t[1] = 0
  <2>1. b > 1 => PartIn(gross, 1) = 23500000
    BY <1>6, TheBounds, SMT
  <2>2. t[1] = Tenths(PartIn(gross, 1), 0)
    BY <1>4, TheBounds, SMT
  <2>3. Tenths(23500000, 0) = 0
    BY SMT DEF Tenths
  <2>4. QED
    BY <2>1, <2>2, <2>3, SMT
<1>9. b > 2 => t[2] = 1000000
  BY <1>4, <1>6, TheBounds, TenthsOfBands, SMT
<1>10. b > 3 => t[3] = 2500000 - 1000000
  BY <1>4, <1>6, TheBounds, TenthsOfBands, SMT
<1>11. b > 4 => t[4] = 290200000 - 2500000
  BY <1>4, <1>6, TheBounds, TenthsOfBands, SMT
<1>12. \A k \in 1 .. 5 : k > b => t[k] = 0
  <2>1. \A k \in 1 .. 5 : PAYE_BANDS[k].rate \in 0 .. 4
    BY TheBounds, SMT
  <2>2. \A r \in 0 .. 4 : Tenths(0, r) = 0
    BY TenthsOfBands, SMT
  <2>3. QED
    BY <1>4, <1>6, <2>1, <2>2, Zenon
<1>13. t[b] = Tenths(gross - Lower(b), PAYE_BANDS[b].rate)
  BY <1>3, <1>4, <1>6, Zenon
<1>14. Paye(gross) = PAYE_BANDS[b].base + t[b] /\ t[b] \in Int
  <2> DEFINE x == gross - Lower(b)
  <2>1. t[b] \in Int
    <3>1. t[b] = Tenths(x, PAYE_BANDS[b].rate) /\ x \in Nat
      BY <1>7, <1>13, Zenon
    <3>2. PAYE_BANDS[b].rate \in {0, 1, 2, 3, 4}
      BY <1>3, TheBounds, SMT
    <3> HIDE DEF x
    <3>3. x \in Nat
      BY <3>1
    <3>4. /\ Tenths(x, 0) = 0 /\ Tenths(x, 1) \in Nat /\ Tenths(x, 2) \in Nat
          /\ Tenths(x, 3) \in Nat /\ Tenths(x, 4) \in Nat
      BY <3>3, TenthsOf, Zenon
    <3>5. \A y : y = 0 \/ y \in Nat => y \in Int
      OBVIOUS
    <3>6. QED
      BY <3>1, <3>2, <3>4, <3>5, Zenon
  <2>2. QED
    BY <1>2, <1>13, <2>1, Zenon DEF PayeIn
<1>15. /\ t[1] \in Int /\ t[2] \in Int /\ t[3] \in Int /\ t[4] \in Int /\ t[5] \in Int
       /\ Paye(gross) = t[1] + t[2] + t[3] + t[4] + t[5]
  <2>1. CASE b = 1
    BY <1>12, <1>14, <2>1, TheBounds, SMT
  <2>2. CASE b = 2
    BY <1>8, <1>12, <1>14, <2>2, TheBounds, SMT
  <2>3. CASE b = 3
    BY <1>8, <1>9, <1>12, <1>14, <2>3, TheBounds, SMT
  <2>4. CASE b = 4
    BY <1>8, <1>9, <1>10, <1>12, <1>14, <2>4, TheBounds, SMT
  <2>5. CASE b = 5
    BY <1>8, <1>9, <1>10, <1>11, <1>14, <2>5, TheBounds, SMT
  <2>6. QED
    BY <1>3, <2>1, <2>2, <2>3, <2>4, <2>5, SMT
<1>16. \A k \in 1 .. 5 : t[k] \in Int
  BY <1>15, SMT
<1>17. Paye(gross) = SumFunction(t)
  BY <1>5, <1>15, <1>16, SumFive
<1>18. QED
  BY <1>17, FiveBands, Zenon DEF t

-----------------------------------------------------------------------------
(* Well-formed rows of the ledger, the payroll and the registers.           *)

Lines(chart) == [account : chart, debit : Int, credit : Int]

\* the entries that may be in a journal
EntryRows(chart) == {e \in [by    : {"manual", "hr_payroll"},
                            about : {NoAccount} \cup (Periods \X Employees),
                            date  : 0 .. MaxTime,
                            lines : Seq(Lines(chart))] :
                       OutBy(e.lines) \in -Len(e.lines) .. Len(e.lines)}

\* a payslip of a processed run, in cents
SlipAddsUp(slip) ==
    /\ slip.net >= 0
    /\ slip.gross >= 0 => slip.deduction >= 0
    /\ slip.paye + slip.nssf_employee + slip.deduction + slip.net - slip.gross \in {0, 1}

\* how far the total of n payslips may be from the sum of a column
TotalIsNear(total, sum, c, n) ==
    IF c \in {"deduction", "net"} THEN 2 * (total - sum) \in -(n + 1) .. n + 1
    ELSE total - sum = 0

\* the payroll runs, whose payslips add up once they are processed
RunRows == {run \in [period : Periods, status : {"draft", "processed"},
                     slips  : Seq(Slips), totals : [Columns -> Int]] :
              run.status = "processed" =>
                 /\ \A k \in DOMAIN run.slips : SlipAddsUp(run.slips[k])
                 /\ \A c \in Columns : TotalIsNear(run.totals[c], TotalOfColumn(run.slips, c),
                                                    c, Len(run.slips))}

\* well-formed tables
LedgerRows(d) ==
    /\ d.chart \subseteq Accounts /\ OpeningChart \subseteq d.chart /\ IsFiniteSet(d.chart)
    /\ d.gl \in [GLFields -> d.chart \cup {NoAccount}]
    /\ d.entries \in Seq(EntryRows(d.chart))
    /\ d.bank \in [BankLines -> -1 .. Len(d.entries)]

StaffRows(d) ==
    /\ d.salary \in [Employees -> Salaries]
    /\ d.owed = OwedBy
    /\ d.runs \in Seq(RunRows)

RegisterRows(d) ==
    /\ d.report \in [Reports -> {"none", "prepared", "submitted"}]
    /\ d.submitted \in [Reports -> Nat]
    /\ d.flag \in [Flags -> {"none", "open", "resolved"}]
    /\ d.news \in [News -> Nat]

\* what a handler has read fits the tables: they only grow
Fits(op, j, v, d) ==
    /\ op = "journal" => v \subseteq d.chart
    /\ op = "gl_settings" /\ v.found => j.change[2] \in d.chart \cup {NoAccount}
    /\ op = "match" /\ v.posted => j.entry \in 1 .. Len(d.entries)
    /\ op = "run" => v.salary \in [Employees -> Salaries]
    /\ op = "process" /\ v.run # <<>> =>
          /\ j.run \in DOMAIN d.runs
          /\ v.run[1] \in RunRows
          /\ v.run[1].period = d.runs[j.run].period
          /\ Len(v.run[1].slips) = Len(d.runs[j.run].slips)
          /\ v.salary \in [Employees -> Salaries]
          /\ v.owed = OwedBy
          /\ v.chart \subseteq d.chart
          /\ v.gl \in [GLFields -> v.chart \cup {NoAccount}]
    /\ op = "pay" /\ v = "pending" =>
          j.run \in DOMAIN d.runs /\ j.slip \in DOMAIN d.runs[j.run].slips
    /\ op = "news_delete" => v \in Nat

\* nothing is taken away from d on the way to e
Grows(d, e) ==
    /\ d.chart \subseteq e.chart
    /\ Len(d.entries) <= Len(e.entries)
    /\ Len(d.runs) <= Len(e.runs)
    /\ \A r \in DOMAIN d.runs : /\ e.runs[r].period = d.runs[r].period
                                /\ Len(e.runs[r].slips) = Len(d.runs[r].slips)

(* What was read still fits when the tables have grown.                      *)
LEMMA FitsStill ==
    ASSUME NEW d, NEW e, StaffRows(d), StaffRows(e), LedgerRows(d), LedgerRows(e), Grows(d, e),
           NEW op, NEW j, NEW v, Fits(op, j, v, d)
    PROVE  Fits(op, j, v, e)
<1>1. /\ Len(d.entries) \in Nat /\ Len(e.entries) \in Nat
      /\ 1 .. Len(d.entries) \subseteq 1 .. Len(e.entries)
  <2>1. Len(d.entries) \in Nat /\ Len(e.entries) \in Nat
    BY DEF LedgerRows
  <2>2. QED
    BY <2>1 DEF Grows
<1>2. /\ DOMAIN d.runs = 1 .. Len(d.runs) /\ DOMAIN e.runs = 1 .. Len(e.runs)
      /\ Len(d.runs) \in Nat /\ Len(e.runs) \in Nat
  BY DEF StaffRows
<1>3. DOMAIN d.runs \subseteq DOMAIN e.runs
  BY <1>2 DEF Grows
<1>4. ASSUME NEW r \in DOMAIN d.runs
      PROVE  DOMAIN e.runs[r].slips = DOMAIN d.runs[r].slips
  <2>1. d.runs[r] \in RunRows /\ e.runs[r] \in RunRows
    BY <1>3, <1>4 DEF StaffRows
  <2>2. d.runs[r].slips \in Seq(Slips) /\ e.runs[r].slips \in Seq(Slips)
    BY <2>1 DEF RunRows
  <2>3. QED
    BY <1>4, <2>2 DEF Grows
<1>5. QED
  BY <1>1, <1>3, <1>4 DEF Fits, Grows

(* What a handler reads fits the tables it was read from.                    *)
LEMMA ReadingFits ==
    ASSUME NEW d, LedgerRows(d), StaffRows(d), RegisterRows(d), NEW op \in Ops, NEW j \in Jobs(op)
    PROVE  Fits(op, j, ReadBy(op, j, d), d)
<1> DEFINE v == ReadBy(op, j, d)
<1>1. CASE op = "journal"
  <2>1. v = AccountsRead(j, d)
    BY <1>1, Zenon DEF ReadBy, UserOps, PortalOps
  <2> HIDE DEF v
  <2>2. v \subseteq d.chart
    BY <2>1 DEF AccountsRead
  <2>3. Fits(op, j, v, d)
    BY <1>1, <2>2 DEF Fits
  <2>4. QED
    BY <2>3 DEF v
<1>8. CASE op = "gl_settings"
  <2>1. v = GLSettingsRead(j, d)
    BY <1>8, Zenon DEF ReadBy, UserOps, PortalOps
  <2> HIDE DEF v
  <2>2. v.found = (j.change[2] \in d.chart \cup {NoAccount})
    BY <2>1 DEF GLSettingsRead
  <2>3. Fits(op, j, v, d)
    BY <1>8, <2>2 DEF Fits
  <2>4. QED
    BY <2>3 DEF v
<1>2. CASE op = "match"
  <2>1. v = MatchRead(j, d)
    BY <1>2 DEF ReadBy, UserOps, PortalOps
  <2> HIDE DEF v
  <2>2. v.posted = (j.entry \in DOMAIN d.entries)
    BY <2>1, Zenon DEF MatchRead
  <2>3. DOMAIN d.entries = 1 .. Len(d.entries)
    BY DEF LedgerRows
  <2>4. v.posted => j.entry \in 1 .. Len(d.entries)
    BY <2>2, <2>3, Zenon
  <2>5. Fits(op, j, v, d)
    BY <1>2, <2>4 DEF Fits
  <2>6. QED
    BY <2>5 DEF v
<1>3. CASE op = "run"
  <2>1. v = RunRead(j, d)
    BY <1>3 DEF ReadBy, UserOps, PortalOps
  <2> HIDE DEF v
  <2>2. v.salary = d.salary
    BY <2>1, Zenon DEF RunRead
  <2>3. Fits(op, j, v, d)
    BY <1>3, <2>2 DEF Fits, StaffRows
  <2>4. QED
    BY <2>3 DEF v
<1>4. CASE op = "process"
  <2>1. v = ProcessRead(j, d)
    BY <1>4 DEF ReadBy, UserOps, PortalOps
  <2>2. CASE j.run \in DOMAIN d.runs
    <3>1. v = [run |-> <<d.runs[j.run]>>, salary |-> d.salary, owed |-> d.owed, gl |-> d.gl,
               chart |-> d.chart]
      BY <2>1, <2>2 DEF ProcessRead
    <3>2. v.run[1] = d.runs[j.run] /\ d.runs[j.run] \in RunRows
      BY <2>2, <3>1 DEF StaffRows
    <3> HIDE DEF v
    <3>3. Fits(op, j, v, d)
      BY <1>4, <2>2, <3>1, <3>2 DEF Fits, LedgerRows, StaffRows
    <3>4. QED
      BY <3>3 DEF v
  <2>3. CASE j.run \notin DOMAIN d.runs
    <3>1. v.run = <<>>
      BY <2>1, <2>3 DEF ProcessRead
    <3>2. QED
      BY <1>4, <3>1 DEF Fits
  <2>4. QED
    BY <2>2, <2>3
<1>5. CASE op = "pay"
  BY <1>5 DEF ReadBy, SlipRead, Fits, UserOps, PortalOps
<1>6. CASE op = "news_delete"
  <2>1. j.item \in News
    BY <1>6 DEF Jobs, DeleteJobs
  <2>2. v = d.news[j.item]
    BY <1>6 DEF ReadBy, ItemRead, UserOps, PortalOps
  <2>3. QED
    BY <1>6, <2>1, <2>2 DEF Fits, RegisterRows
<1>7. QED
  BY <1>1, <1>2, <1>3, <1>4, <1>5, <1>6, <1>8 DEF Fits

(* Cents are near to the mills they are rounded from.                        *)
LEMMA CentsNear ==
    ASSUME NEW x \in Int
    PROVE  Cents(x) \in Int /\ 10 * Cents(x) - x \in -5 .. 5
<1>1. CASE x < 0
  BY <1>1 DEF Cents
<1>2. CASE x >= 0
  BY <1>2 DEF Cents
<1>3. QED
  BY <1>1, <1>2

(* Whole cents are kept as they are.                                         *)
LEMMA CentsExact ==
    ASSUME NEW x \in Int
    PROVE  Cents(10 * x) = x
<1>1. Cents(10 * x) \in Int /\ 10 * Cents(10 * x) - 10 * x \in -5 .. 5
  BY CentsNear
<1>2. QED
  BY <1>1

(* A column of lines, and what it is stored as.                              *)
LEMMA StoredColumn ==
    ASSUME NEW n \in Nat, NEW f, NEW g, \A i \in 1 .. n : f[i] \in Int /\ g[i] = Cents(f[i])
    PROVE  /\ SumFunctionOnSet(f, 1 .. n) \in Int /\ SumFunctionOnSet(g, 1 .. n) \in Int
           /\ 10 * SumFunctionOnSet(g, 1 .. n) - SumFunctionOnSet(f, 1 .. n) \in -(5 * n) .. 5 * n
<1>1. \A i \in 1 .. n : f[i] \in Int /\ g[i] \in Int /\ 10 * g[i] - f[i] \in -5 .. 5
  <2>1. TAKE i \in 1 .. n
  <2>2. f[i] \in Int /\ g[i] = Cents(f[i])
    OBVIOUS
  <2>3. QED
    BY <2>2, CentsNear
<1>2. IsFiniteSet(1 .. n) /\ Cardinality(1 .. n) = n
  BY FS_Interval
<1>3. QED
  BY <1>1, <1>2, SumRounded

(* The lines that are stored are as many, of the same accounts, and out by a *)
(* cent a line at most when they were not out.                               *)
LEMMA StoredNear ==
    ASSUME NEW A, NEW ls \in Seq(Lines(A))
    PROVE  /\ Stored(ls) \in Seq(Lines(A)) /\ Len(Stored(ls)) = Len(ls)
           /\ TotalDebit(ls) = TotalCredit(ls) => OutBy(Stored(ls)) \in -Len(ls) .. Len(ls)
<1> DEFINE n  == Len(ls)
           st == Stored(ls)
           D  == [i \in 1 .. n |-> ls[i].debit]
           C  == [i \in 1 .. n |-> ls[i].credit]
           SD == [i \in 1 .. n |-> st[i].debit]
           SC == [i \in 1 .. n |-> st[i].credit]
           Sum(f) == SumFunctionOnSet(f, 1 .. n)
<1>1. n \in Nat /\ DOMAIN ls = 1 .. n
  OBVIOUS
<1>2. ASSUME NEW i \in 1 .. n
      PROVE  ls[i].account \in A /\ ls[i].debit \in Int /\ ls[i].credit \in Int
  <2>1. ls[i] \in Lines(A)
    BY <1>1, <1>2
  <2>2. QED
    BY <2>1 DEF Lines
<1>3. ASSUME NEW i \in 1 .. n
      PROVE  /\ st[i] \in Lines(A)
             /\ st[i].debit = Cents(ls[i].debit) /\ st[i].credit = Cents(ls[i].credit)
  <2>1. st[i] = [account |-> ls[i].account, debit |-> Cents(ls[i].debit),
                 credit |-> Cents(ls[i].credit)]
    BY <1>1, <1>3 DEF Stored, Line
  <2>2. Cents(ls[i].debit) \in Int /\ Cents(ls[i].credit) \in Int
    BY <1>2, <1>3, CentsNear
  <2> HIDE DEF st
  <2>3. QED
    BY <1>2, <1>3, <2>1, <2>2 DEF Lines
<1>4. DOMAIN st = 1 .. n /\ st = [i \in 1 .. n |-> st[i]]
  BY <1>1 DEF Stored
<1>5. st \in Seq(Lines(A)) /\ Len(st) = n
  <2> HIDE DEF st, n
  <2>1. st \in [1 .. n -> Lines(A)]
    BY <1>3, <1>4
  <2>2. QED
    BY <1>1, <2>1
<1>6. /\ TotalDebit(ls) = Sum(D) /\ TotalCredit(ls) = Sum(C)
      /\ TotalDebit(st) = Sum(SD) /\ TotalCredit(st) = Sum(SC)
  <2> HIDE DEF st
  <2>1. QED
    BY <1>1, <1>4 DEF TotalDebit, TotalCredit, SumFunction
<1>7. Sum(D) \in Int /\ Sum(SD) \in Int /\ 10 * Sum(SD) - Sum(D) \in -(5 * n) .. 5 * n
  <2>1. \A i \in 1 .. n : D[i] \in Int /\ SD[i] = Cents(D[i])
    BY <1>2, <1>3
  <2> HIDE DEF D, SD, n
  <2>2. QED
    BY <1>1, <2>1, StoredColumn
<1>8. Sum(C) \in Int /\ Sum(SC) \in Int /\ 10 * Sum(SC) - Sum(C) \in -(5 * n) .. 5 * n
  <2>1. \A i \in 1 .. n : C[i] \in Int /\ SC[i] = Cents(C[i])
    BY <1>2, <1>3
  <2> HIDE DEF C, SC, n
  <2>2. QED
    BY <1>1, <2>1, StoredColumn
<1> HIDE DEF D, C, SD, SC, Sum, st, n
<1>9. Sum(D) = Sum(C) => Sum(SD) - Sum(SC) \in -n .. n
  <2>1. ASSUME NEW d \in Int, NEW c \in Int, NEW x \in Int, NEW y \in Int, NEW k \in Nat,
               10 * x - d \in -(5 * k) .. 5 * k, 10 * y - c \in -(5 * k) .. 5 * k, d = c
        PROVE  x - y \in -k .. k
    <3>1. -(5 * k) <= 10 * x - d /\ 10 * x - d <= 5 * k
      BY <2>1
    <3>2. -(5 * k) <= 10 * y - c /\ 10 * y - c <= 5 * k
      BY <2>1
    <3>3. QED
      BY <2>1, <3>1, <3>2
  <2>2. QED
    BY <1>1, <1>7, <1>8, <2>1
<1>10. QED
  BY <1>5, <1>6, <1>9 DEF OutBy, st, n

(* Entries stay well formed when accounts are added.                         *)
LEMMA EntriesStay ==
    ASSUME NEW c, NEW e, c \subseteq e
    PROVE  Seq(EntryRows(c)) \subseteq Seq(EntryRows(e))
<1>1. Lines(c) \subseteq Lines(e)
  BY DEF Lines
<1>2. Seq(Lines(c)) \subseteq Seq(Lines(e))
  BY <1>1
<1>3. EntryRows(c) \subseteq EntryRows(e)
  BY <1>2 DEF EntryRows
<1>4. QED
  BY <1>3

(* An entry whose lines balance in mills is one of the journal.              *)
LEMMA EntryIsRow ==
    ASSUME NEW A, NEW ls \in Seq(Lines(A)), TotalDebit(ls) = TotalCredit(ls),
           NEW by \in {"manual", "hr_payroll"},
           NEW about \in {NoAccount} \cup (Periods \X Employees), NEW at \in 0 .. MaxTime
    PROVE  Entry(by, about, at, ls) \in EntryRows(A)
<1> DEFINE e == Entry(by, about, at, ls)
<1>1. e = [by |-> by, about |-> about, date |-> at, lines |-> Stored(ls)]
  BY DEF Entry
<1>2. /\ Stored(ls) \in Seq(Lines(A)) /\ Len(Stored(ls)) = Len(ls)
      /\ OutBy(Stored(ls)) \in -Len(ls) .. Len(ls)
  BY StoredNear
<1> HIDE DEF e
<1>3. e \in [by    : {"manual", "hr_payroll"}, about : {NoAccount} \cup (Periods \X Employees),
             date  : 0 .. MaxTime, lines : Seq(Lines(A))]
  BY <1>1, <1>2
<1>4. e.lines = Stored(ls)
  BY <1>1
<1>5. OutBy(e.lines) \in -Len(e.lines) .. Len(e.lines)
  BY <1>2, <1>4, Zenon
<1>6. e \in EntryRows(A)
  BY <1>3, <1>5, Zenon DEF EntryRows
<1>7. QED
  BY <1>6 DEF e

(* What the handlers of the ledger write.                                    *)
LEMMA LedgerWritten ==
    ASSUME NEW d, DOMAIN d = AllColumns, LedgerRows(d),
           NEW op \in LedgerOps, NEW j \in Jobs(op), NEW v, Accepts(op, j, v), Fits(op, j, v, d)
    PROVE  LedgerRows(Written(op, j, v, d)) /\ Grows(d, Written(op, j, v, d))
<1> DEFINE w == Written(op, j, v, d)
<1>0. /\ {"chart", "gl", "entries", "bank", "runs"} \subseteq AllColumns
      /\ Len(d.entries) \in Nat
  BY DEF AllColumns, LedgerColumns, StaffColumns, LedgerRows
<1>1. op \in Ops /\ "runs" \notin WrittenBy(op) /\ w.runs = d.runs
  <2>1. op \in Ops /\ "runs" \notin WrittenBy(op)
    BY DEF WrittenBy, Ops, LedgerOps
  <2>2. QED
    BY <1>0, <2>1, Frame
<1>2. CASE op = "create_account"
  <2>1. j.account \in Accounts
    BY <1>2 DEF Jobs, AccountJobs
  <2>2. /\ w.chart = d.chart \cup {j.account}
        /\ w.gl = d.gl /\ w.entries = d.entries /\ w.bank = d.bank
    BY <1>0, <1>2 DEF Written, AccountCreated
  <2>3. IsFiniteSet(d.chart \cup {j.account})
    BY FS_AddElement DEF LedgerRows
  <2> HIDE DEF w
  <2>4. w.entries \in Seq(EntryRows(w.chart))
    BY <2>2, EntriesStay DEF LedgerRows
  <2>5. w.gl \in [GLFields -> w.chart \cup {NoAccount}]
    BY <2>2 DEF LedgerRows
  <2>6. LedgerRows(w)
    BY <2>1, <2>2, <2>3, <2>4, <2>5 DEF LedgerRows
  <2>7. Grows(d, w)
    BY <1>0, <1>1, <2>2 DEF Grows
  <2>8. QED
    BY <2>6, <2>7 DEF w
<1>3. CASE op = "journal"
  <2> DEFINE ls == j.lines
             e  == Entry("manual", NoAccount, j.at, ls)
  <2>1. ls \in ManualEntries /\ j.at \in 0 .. MaxTime
    BY <1>3 DEF Jobs
  <2>2. Postable(ls, v) /\ v \subseteq d.chart
    BY <1>3 DEF Accepts, IsPostable, Fits
  <2>3. ls \in Seq(Lines(d.chart))
    <3> HIDE DEF ls
    <3>1. ls \in Seq(Lines(Accounts))
      BY <2>1, LedgerAssumption DEF Lines
    <3>2. \A i \in DOMAIN ls : ls[i] \in Lines(Accounts) /\ ls[i].account \in d.chart
      BY <2>2, <3>1 DEF Postable
    <3>3. \A i \in DOMAIN ls : ls[i] \in Lines(d.chart)
      BY <3>2 DEF Lines
    <3>4. ls \in [1 .. Len(ls) -> Lines(d.chart)] /\ Len(ls) \in Nat
      BY <3>1, <3>3
    <3>5. QED
      BY <3>4
  <2>4. e \in EntryRows(d.chart)
    BY <2>1, <2>2, <2>3, EntryIsRow DEF Postable
  <2>5. /\ w.entries = Append(d.entries, e)
        /\ w.chart = d.chart /\ w.gl = d.gl /\ w.bank = d.bank
    BY <1>0, <1>3 DEF Written, EntryPosted
  <2> HIDE DEF w, e
  <2>6. w.entries \in Seq(EntryRows(d.chart)) /\ Len(w.entries) = Len(d.entries) + 1
    BY <2>4, <2>5 DEF LedgerRows
  <2>7. w.bank \in [BankLines -> -1 .. Len(w.entries)]
    <3>1. -1 .. Len(d.entries) \subseteq -1 .. Len(w.entries)
      BY <1>0, <2>6
    <3>2. QED
      BY <2>5, <3>1 DEF LedgerRows
  <2>8. LedgerRows(w)
    BY <2>5, <2>6, <2>7 DEF LedgerRows
  <2>9. Grows(d, w)
    BY <1>0, <1>1, <2>5, <2>6 DEF Grows
  <2>10. QED
    BY <2>8, <2>9 DEF w
<1>4. CASE op = "gl_settings"
  <2>1. j.change[1] \in GLFields /\ j.change[2] \in d.chart \cup {NoAccount}
    <3>1. j.change \in GLFields \X (Accounts \cup {NoAccount})
      BY <1>4, LedgerAssumption DEF Jobs, SettingsJobs
    <3>2. v.found
      BY <1>4 DEF Accepts, IsAnAccount
    <3>3. QED
      BY <1>4, <3>1, <3>2 DEF Fits
  <2>2. /\ w.gl = [d.gl EXCEPT ![j.change[1]] = j.change[2]]
        /\ w.chart = d.chart /\ w.entries = d.entries /\ w.bank = d.bank
    BY <1>0, <1>4 DEF Written, GLSettingsSet
  <2> HIDE DEF w
  <2>3. LedgerRows(w) /\ Grows(d, w)
    BY <1>0, <1>1, <2>1, <2>2 DEF LedgerRows, Grows
  <2>4. QED
    BY <2>3 DEF w
<1>5. CASE op = "upload"
  <2>1. /\ w.bank = [t \in BankLines |-> IF t \in j.lines THEN 0 ELSE d.bank[t]]
        /\ w.chart = d.chart /\ w.entries = d.entries /\ w.gl = d.gl
    BY <1>0, <1>5 DEF Written, StatementUploaded
  <2> HIDE DEF w
  <2>2. w.bank \in [BankLines -> -1 .. Len(w.entries)]
    BY <1>0, <2>1 DEF LedgerRows
  <2>3. LedgerRows(w) /\ Grows(d, w)
    BY <1>0, <1>1, <2>1, <2>2 DEF LedgerRows, Grows
  <2>4. QED
    BY <2>3 DEF w
<1>6. CASE op = "match"
  <2>1. j.line \in BankLines /\ j.entry \in 1 .. Len(d.entries)
    BY <1>6 DEF Jobs, MatchJobs, Accepts, BothExist, Fits
  <2>2. /\ w.bank = [d.bank EXCEPT ![j.line] = j.entry]
        /\ w.chart = d.chart /\ w.entries = d.entries /\ w.gl = d.gl
    BY <1>0, <1>6 DEF Written, LineMatched
  <2> HIDE DEF w
  <2>3. w.bank \in [BankLines -> -1 .. Len(w.entries)]
    BY <1>0, <2>1, <2>2 DEF LedgerRows
  <2>4. LedgerRows(w) /\ Grows(d, w)
    BY <1>0, <1>1, <2>2, <2>3 DEF LedgerRows, Grows
  <2>5. QED
    BY <2>4 DEF w
<1>7. QED
  BY <1>2, <1>3, <1>4, <1>5, <1>6 DEF LedgerOps

(* No more is deducted than is left of a pay, and nothing is added to it;   *)
(* what is less than nothing is brought to nothing.                          *)
LEMMA DeductionFits ==
    ASSUME NEW asked \in Int, NEW left \in Int
    PROVE  /\ left >= 0 => Deductible(asked, left) \in 0 .. left
           /\ left <= 0 => Deductible(asked, left) = left
  BY DEF Deductible

\* a payslip before it is rounded: deduction and net pay are in mills
MillsAddUp(slip) ==
    /\ slip.net >= 0
    /\ slip.gross >= 0 => slip.deduction >= 0
    /\ slip.gross < 0 => slip.net = 0
    /\ 10 * slip.gross = 10 * slip.paye + 10 * slip.nssf_employee + slip.deduction + slip.net

(* A payslip that is computed adds up, whatever deduction is asked for.      *)
LEMMA ComputedSlip ==
    ASSUME NEW slip \in Slips, NEW j, j.override \in Overrides, NEW v,
           v.salary \in [Employees -> Salaries], v.owed = OwedBy
    PROVE  Computed(slip, j, v) \in Slips /\ MillsAddUp(Computed(slip, j, v))
<1> DEFINE e         == slip.employee
           gross     == v.salary[e]
           left      == 10 * (gross - Paye(gross) - NssfEmployee(gross))
           asked     == IF e \in DOMAIN j.override THEN j.override[e] ELSE 10 * v.owed[e]
           deduction == Deductible(asked, left)
           loan      == deduction > 0 /\ v.owed[e] > 0
           deducts   == deduction > 0
           paye      == Paye(gross)
           mine      == NssfEmployee(gross)
           theirs    == NssfEmployer(gross)
           net       == left - deduction
<1>1. e \in Employees /\ gross \in Int
  BY StaffPayrollAssumption DEF Slips
<1>2. asked \in Int
  <2>1. v.owed[e] \in Nat
    BY <1>1, StaffPayrollAssumption
  <2>2. e \in DOMAIN j.override => j.override[e] \in Int
    BY StaffPayrollAssumption
  <2>3. QED
    BY <2>1, <2>2
<1>3. /\ paye \in Nat /\ mine \in Int /\ theirs \in Int
      /\ left = 10 * (gross - paye - mine)
      /\ gross >= 0 => left >= 0
      /\ gross < 0 => left <= 0
  <2> HIDE DEF gross
  <2>1. /\ Paye(gross) \in Nat /\ NssfEmployee(gross) \in Int /\ NssfEmployer(gross) \in Int
        /\ LeftOf(gross) \in Int
        /\ gross >= 0 => LeftOf(gross) >= 0
        /\ gross < 0 => LeftOf(gross) <= 0
    BY <1>1, TaxesOf
  <2>2. left = 10 * LeftOf(gross)
    BY DEF LeftOf
  <2> HIDE DEF left
  <2>3. (gross >= 0 => left >= 0) /\ (gross < 0 => left <= 0)
    BY <1>1, <2>1, <2>2
  <2>4. left = 10 * (gross - paye - mine)
    BY DEF left
  <2>5. QED
    BY <2>1, <2>3, <2>4
<1>5. Computed(slip, j, v) = [slip EXCEPT !.gross = gross, !.paye = paye, !.nssf_employee = mine,
                                          !.nssf_employer = theirs, !.deduction = deduction,
                                          !.deducts = deducts, !.loan = loan, !.net = net]
  BY Zenon DEF Computed
<1>6. loan \in BOOLEAN /\ deducts \in BOOLEAN
  OBVIOUS
<1> HIDE DEF paye, mine, theirs, gross, asked
<1>7. left \in Int
  BY <1>1, <1>3
<1>8. /\ left >= 0 => deduction \in 0 .. left
      /\ left <= 0 => deduction = left
  BY <1>2, <1>7, DeductionFits
<1>9. net = left - deduction
  OBVIOUS
<1> HIDE DEF left, deduction, loan, deducts, net
<1>10. /\ deduction \in Int /\ net \in Int /\ net >= 0
       /\ gross >= 0 => deduction >= 0
       /\ gross < 0 => net = 0
       /\ 10 * gross = 10 * paye + 10 * mine + deduction + net
  BY <1>1, <1>3, <1>7, <1>8, <1>9
<1> DEFINE c == [slip EXCEPT !.gross = gross, !.paye = paye, !.nssf_employee = mine,
                             !.nssf_employer = theirs, !.deduction = deduction,
                             !.deducts = deducts, !.loan = loan, !.net = net]
<1>11. /\ c.gross = gross /\ c.paye = paye /\ c.nssf_employee = mine
       /\ c.deduction = deduction /\ c.net = net
  BY DEF Slips
<1>12. c \in Slips
  <2> DEFINE s == [slip EXCEPT !.gross = gross, !.paye = paye, !.nssf_employee = mine,
                               !.nssf_employer = theirs, !.deduction = deduction]
             t == [s EXCEPT !.deducts = deducts, !.loan = loan]
  <2>1. s \in Slips
    BY <1>1, <1>3, <1>10 DEF Slips
  <2>2. c = [t EXCEPT !.net = net]
    OBVIOUS
  <2> HIDE DEF s
  <2>3. t \in Slips
    BY <1>6, <2>1, Zenon DEF Slips
  <2> HIDE DEF t, c
  <2>4. net \in Int
    BY <1>10
  <2>5. QED
    BY <2>2, <2>3, <2>4 DEF Slips
<1> HIDE DEF c
<1>13. MillsAddUp(c)
  BY <1>10, <1>11 DEF MillsAddUp
<1>14. QED
  BY <1>5, <1>12, <1>13 DEF c

(* Rounded to cents it adds up but for a cent.                               *)
LEMMA InCentsAddsUp ==
    ASSUME NEW slip \in Slips, MillsAddUp(slip)
    PROVE  /\ InCents(slip) \in Slips /\ SlipAddsUp(InCents(slip))
           /\ \A c \in Columns : InCents(slip)[c] = IF c \in {"deduction", "net"}
                                                    THEN Cents(slip[c]) ELSE slip[c]
<1> DEFINE x == slip.deduction
           y == slip.net
           k == InCents(slip)
<1>1. /\ slip.gross \in Int /\ slip.paye \in Int /\ slip.nssf_employee \in Int
      /\ x \in Int /\ y \in Int
  BY DEF Slips
<1>2. /\ Cents(x) \in Int /\ 10 * Cents(x) - x \in -5 .. 5
      /\ Cents(y) \in Int /\ 10 * Cents(y) - y \in -5 .. 5
  BY <1>1, CentsNear
<1>3. /\ x >= 0 => Cents(x) = (x + 5) \div 10
      /\ y >= 0 => Cents(y) = (y + 5) \div 10
  BY <1>1 DEF Cents
<1>4. k = [slip EXCEPT !.deduction = Cents(x), !.net = Cents(y)]
  BY Zenon DEF InCents
<1> HIDE DEF k
<1>5. /\ k \in Slips
      /\ k.gross = slip.gross /\ k.paye = slip.paye /\ k.nssf_employee = slip.nssf_employee
      /\ k.nssf_employer = slip.nssf_employer /\ k.deduction = Cents(x) /\ k.net = Cents(y)
  BY <1>2, <1>4 DEF Slips
<1>6. SlipAddsUp(k)
  <2> DEFINE left == slip.gross - slip.paye - slip.nssf_employee
  <2>1. left \in Int /\ x + y = 10 * left
    BY <1>1 DEF MillsAddUp
  <2>2. y >= 0 /\ (slip.gross >= 0 => x >= 0) /\ (slip.gross < 0 => y = 0)
    BY DEF MillsAddUp
  <2> HIDE DEF x, y, left
  <2>3. Cents(y) >= 0
    BY <1>1, <1>3, <2>2
  <2>4. x >= 0 => Cents(x) >= 0
    BY <1>1, <1>3
  <2>5. Cents(x) + Cents(y) - left \in {0, 1}
    <3>1. CASE x >= 0
      BY <1>1, <1>3, <2>1, <2>2, <3>1
    <3>2. CASE ~(x >= 0)
      <4>1. y = 0 /\ x = 10 * left
        BY <1>1, <2>1, <2>2, <3>2
      <4>2. Cents(x) = left
        BY <2>1, <4>1, CentsExact
      <4>3. Cents(y) = 0
        BY <1>3, <4>1
      <4>4. QED
        BY <2>1, <4>2, <4>3
    <3>3. QED
      BY <3>1, <3>2
  <2>6. k.paye + k.nssf_employee + k.deduction + k.net - k.gross = Cents(x) + Cents(y) - left
    BY <1>1, <1>2, <1>5 DEF left
  <2>7. QED
    BY <1>1, <1>5, <2>2, <2>3, <2>4, <2>5, <2>6 DEF SlipAddsUp
<1>7. \A c \in Columns : k[c] = IF c \in {"deduction", "net"} THEN Cents(slip[c]) ELSE slip[c]
  BY <1>5 DEF Columns
<1>8. QED
  BY <1>5, <1>6, <1>7 DEF k

(* The lines of a payslip that is posted name accounts and amounts.          *)
LEMMA PayrollLinesTyped ==
    ASSUME NEW slip \in Slips, NEW A, OpeningChart \subseteq A,
           NEW gl, gl \in [GLFields -> A \cup {NoAccount}], Posts(slip, gl)
    PROVE  PayrollLines(slip, gl) \in Seq(Lines(A))
<1>1. /\ slip.gross \in Int /\ slip.paye \in Int /\ slip.nssf_employee \in Int
      /\ slip.nssf_employer \in Int /\ slip.deduction \in Int /\ slip.net \in Int
      /\ slip.employee \in Employees
  BY DEF Slips
<1>2. \A a \in A, n \in Int : Line(a, n, 0) \in Lines(A) /\ Line(a, 0, n) \in Lines(A)
  BY DEF Line, Lines
<1>3. /\ gl["salaries"] \in A /\ gl["nssf_expense"] \in A /\ gl["paye_payable"] \in A
      /\ gl["nssf_payable"] \in A /\ gl["cash"] \in A
  BY DEF GLFields, Posts
<1>4. slip.deducts => LoanAccountOf[slip.employee] \in A
  BY <1>1, StaffPayrollAssumption DEF Posts, HasEntry
<1> DEFINE five == <<Line(gl["salaries"], 10 * slip.gross, 0),
                     Line(gl["nssf_expense"], 10 * slip.nssf_employer, 0),
                     Line(gl["paye_payable"], 0, 10 * slip.paye),
                     Line(gl["nssf_payable"], 0, 10 * (slip.nssf_employee + slip.nssf_employer)),
                     Line(gl["cash"], 0, slip.net)>>
           six  == <<Line(LoanAccountOf[slip.employee], 0, slip.deduction)>>
<1>5. /\ 10 * slip.gross \in Int /\ 10 * slip.nssf_employer \in Int /\ 10 * slip.paye \in Int
      /\ 10 * (slip.nssf_employee + slip.nssf_employer) \in Int
  BY <1>1
<1>6. five \in Seq(Lines(A))
  BY <1>1, <1>2, <1>3, <1>5
<1>7. slip.deducts => six \in Seq(Lines(A))
  BY <1>1, <1>2, <1>4
<1>8. PayrollLines(slip, gl) = five \o (IF slip.deducts THEN six ELSE <<>>)
  BY DEF PayrollLines
<1> HIDE DEF five, six
<1>9. QED
  BY <1>6, <1>7, <1>8

\* the entry of a payslip, or none
Posting(run, slip, v, at) ==
    IF Posts(slip, v.gl) THEN <<Entry("hr_payroll", <<run.period, slip.employee>>, at,
                                      PayrollLines(slip, v.gl))>>
    ELSE <<>>

\* the pieces that the entries of a run are made of
Pieces(run, slips, v, at) == [k \in DOMAIN slips |-> Posting(run, slips[k], v, at)]

(* The entries of a run are those of its payslips, in their order.           *)
LEMMA EntriesOfPieces ==
    ASSUME NEW run, NEW slips, NEW v, NEW at
    PROVE  PayrollEntries(run, slips, v, at) = FlattenSeq(Pieces(run, slips, v, at))
  BY Zenon DEF PayrollEntries, Pieces, Posting

\* what payslips are posted with: entries that balance, of accounts that exist
MayPost(slips, v, A) ==
    /\ OpeningChart \subseteq A
    /\ v.gl \in [GLFields -> A \cup {NoAccount}]
    /\ \A k \in DOMAIN slips :
          Posts(slips[k], v.gl) => Postable(PayrollLines(slips[k], v.gl), v.chart)

(* The pieces are made of entries.                                           *)
LEMMA PiecesTyped ==
    ASSUME NEW run, run.period \in Periods, NEW slips \in Seq(Slips),
           NEW v, NEW A, MayPost(slips, v, A), NEW at \in 0 .. MaxTime
    PROVE  LET p == Pieces(run, slips, v, at) IN
           /\ p \in Seq(Seq(EntryRows(A))) /\ DOMAIN p = DOMAIN slips
           /\ \A k \in DOMAIN p : Len(p[k]) <= 1
<1> DEFINE p == Pieces(run, slips, v, at)
           e(k) == Entry("hr_payroll", <<run.period, slips[k].employee>>, at,
                         PayrollLines(slips[k], v.gl))
<1>1. ASSUME NEW k \in DOMAIN slips, Posts(slips[k], v.gl)
      PROVE  e(k) \in EntryRows(A)
  <2>0. slips[k] \in Slips
    BY <1>1
  <2>1. slips[k].employee \in Employees
    BY <2>0 DEF Slips
  <2>2. PayrollLines(slips[k], v.gl) \in Seq(Lines(A))
    BY <1>1, <2>0, PayrollLinesTyped DEF MayPost
  <2>3. TotalDebit(PayrollLines(slips[k], v.gl)) = TotalCredit(PayrollLines(slips[k], v.gl))
    BY <1>1, Zenon DEF MayPost, Postable
  <2>4. <<run.period, slips[k].employee>> \in {NoAccount} \cup (Periods \X Employees)
    BY <2>1
  <2>5. QED
    BY <2>2, <2>3, <2>4, EntryIsRow
<1>2. ASSUME NEW k \in DOMAIN slips
      PROVE  (Posts(slips[k], v.gl) /\ p[k] = <<e(k)>>) \/ p[k] = <<>>
  BY <1>2 DEF Pieces, Posting
<1>3. DOMAIN p = DOMAIN slips /\ DOMAIN slips = 1 .. Len(slips) /\ Len(slips) \in Nat
  BY DEF Pieces
<1>4. p = [k \in 1 .. Len(slips) |-> p[k]]
  BY <1>3 DEF Pieces
<1> HIDE DEF p, e
<1>5. ASSUME NEW k \in DOMAIN slips
      PROVE  p[k] \in Seq(EntryRows(A)) /\ Len(p[k]) <= 1
  <2>1. CASE Posts(slips[k], v.gl) /\ p[k] = <<e(k)>>
    <3>1. e(k) \in EntryRows(A)
      BY <1>1, <1>5, <2>1
    <3>2. QED
      BY <2>1, <3>1
  <2>2. CASE p[k] = <<>>
    BY <2>2
  <2>3. QED
    BY <1>2, <1>5, <2>1, <2>2
<1>6. p \in Seq(Seq(EntryRows(A)))
  BY <1>3, <1>4, <1>5
<1>7. QED
  BY <1>3, <1>5, <1>6 DEF p

(* What the payroll posts are entries of the journal.                        *)
LEMMA PayrollEntriesTyped ==
    ASSUME NEW run, run.period \in Periods, NEW slips \in Seq(Slips),
           NEW v, NEW A, MayPost(slips, v, A), NEW at \in 0 .. MaxTime
    PROVE  PayrollEntries(run, slips, v, at) \in Seq(EntryRows(A))
  BY EntriesOfPieces, PiecesTyped, FlattenTypes

(* A column of payslips is one of numbers.                                   *)
LEMMA ColumnTyped ==
    ASSUME NEW slip \in Slips, NEW c \in Columns
    PROVE  slip[c] \in Int
<1>1. /\ slip.gross \in Int /\ slip.paye \in Int /\ slip.nssf_employee \in Int
      /\ slip.nssf_employer \in Int /\ slip.deduction \in Int /\ slip.net \in Int
  BY DEF Slips
<1>2. QED
  BY <1>1 DEF Columns

(* The total of a column.                                                    *)
LEMMA TotalIs ==
    ASSUME NEW slips \in Seq(Slips), NEW c \in Columns
    PROVE  LET f == [k \in 1 .. Len(slips) |-> slips[k][c]] IN
           /\ \A k \in 1 .. Len(slips) : f[k] = slips[k][c] /\ f[k] \in Int
           /\ TotalOfColumn(slips, c) = SumFunctionOnSet(f, 1 .. Len(slips))
           /\ TotalOfColumn(slips, c) \in Int
<1> DEFINE n == Len(slips)
           f == [k \in 1 .. n |-> slips[k][c]]
<1>1. DOMAIN slips = 1 .. n /\ n \in Nat
  OBVIOUS
<1>2. \A k \in 1 .. n : f[k] = slips[k][c] /\ f[k] \in Int
  <2>1. TAKE k \in 1 .. n
  <2>2. slips[k] \in Slips
    BY <1>1
  <2>3. QED
    BY <2>2, ColumnTyped
<1>3. TotalOfColumn(slips, c) = SumFunctionOnSet(f, 1 .. n)
  BY <1>1 DEF TotalOfColumn, SumFunction
<1> HIDE DEF n, f
<1>4. SumFunctionOnSet(f, 1 .. n) \in Int
  <2>1. IsFiniteSet(1 .. n) /\ \A k \in 1 .. n : f[k] \in Int
    BY <1>1, <1>2, FS_Interval
  <2>2. QED
    BY <2>1, SumTerms
<1>5. QED
  BY <1>2, <1>3, <1>4 DEF n, f

(* Payslips with the same amounts have the same totals.                      *)
LEMMA TotalsSame ==
    ASSUME NEW slips \in Seq(Slips), NEW others \in Seq(Slips), Len(slips) = Len(others),
           \A k \in DOMAIN slips : \A c \in Columns : slips[k][c] = others[k][c]
    PROVE  \A c \in Columns : TotalOfColumn(slips, c) = TotalOfColumn(others, c)
<1>1. DOMAIN slips = DOMAIN others
  OBVIOUS
<1>2. ASSUME NEW c \in Columns
      PROVE  [k \in DOMAIN slips |-> slips[k][c]] = [k \in DOMAIN others |-> others[k][c]]
  BY <1>1, <1>2
<1>3. QED
  BY <1>2, Zenon DEF TotalOfColumn

(* Totals that are rounded once are near to those of the rounded payslips.   *)
LEMMA TotalsNear ==
    ASSUME NEW slips \in Seq(Slips), NEW kept \in Seq(Slips), Len(kept) = Len(slips),
           \A k \in DOMAIN slips : \A c \in Columns :
              kept[k][c] = IF c \in {"deduction", "net"} THEN Cents(slips[k][c]) ELSE slips[k][c]
    PROVE  /\ TotalsOf(slips) \in [Columns -> Int]
           /\ \A c \in Columns :
                 TotalIsNear(TotalsOf(slips)[c], TotalOfColumn(kept, c), c, Len(kept))
<1> DEFINE n == Len(slips)
<1>1. DOMAIN slips = 1 .. n /\ n \in Nat
  OBVIOUS
<1>2. ASSUME NEW c \in Columns
      PROVE  /\ TotalsOf(slips)[c] \in Int
             /\ TotalIsNear(TotalsOf(slips)[c], TotalOfColumn(kept, c), c, n)
  <2> DEFINE f == [k \in 1 .. n |-> slips[k][c]]
             g == [k \in 1 .. n |-> kept[k][c]]
             F == TotalOfColumn(slips, c)
             E == TotalOfColumn(kept, c)
             T == TotalsOf(slips)[c]
  <2>1. /\ \A k \in 1 .. n : f[k] = slips[k][c] /\ f[k] \in Int
        /\ F = SumFunctionOnSet(f, 1 .. n) /\ F \in Int
    BY <1>2, TotalIs
  <2>2. /\ \A k \in 1 .. n : g[k] = kept[k][c] /\ g[k] \in Int
        /\ E = SumFunctionOnSet(g, 1 .. n) /\ E \in Int
    BY <1>2, TotalIs
  <2>3. T = IF c \in {"deduction", "net"} THEN Cents(F) ELSE F
    BY <1>2 DEF TotalsOf
  <2>4. CASE c \in {"deduction", "net"}
    <3>1. \A k \in 1 .. n : f[k] \in Int /\ g[k] = Cents(f[k])
      BY <1>1, <1>2, <2>1, <2>2, <2>4
    <3> HIDE DEF f, g, F, E, T, n
    <3>2. 10 * E - F \in -(5 * n) .. 5 * n
      BY <1>1, <2>1, <2>2, <3>1, StoredColumn
    <3>3. T \in Int /\ 10 * T - F \in -5 .. 5
      BY <2>1, <2>3, <2>4, CentsNear
    <3>4. 2 * (T - E) \in -(n + 1) .. n + 1
      <4>1. F \in Int /\ E \in Int /\ n \in Nat
        BY <1>1, <2>1, <2>2
      <4>2. 10 * T - 10 * E <= 5 * n + 5 /\ 10 * E - 10 * T <= 5 * n + 5
        BY <3>2, <3>3, <4>1
      <4>3. QED
        BY <3>3, <4>1, <4>2
    <3>5. T \in Int /\ TotalIsNear(T, E, c, n)
      BY <2>4, <3>3, <3>4, Zenon DEF TotalIsNear
    <3>6. QED
      BY <3>5 DEF T, E
  <2>5. CASE c \notin {"deduction", "net"}
    <3>1. \A k \in 1 .. n : f[k] \in Int /\ f[k] = g[k]
      BY <1>1, <1>2, <2>1, <2>2, <2>5
    <3> HIDE DEF f, g, F, E, T, n
    <3>2. F = E /\ T = F
      <4>1. IsFiniteSet(1 .. n)
        BY <1>1, FS_Interval
      <4>2. SumFunctionOnSet(f, 1 .. n) = SumFunctionOnSet(g, 1 .. n)
        BY <3>1, <4>1, SumSame
      <4>3. QED
        BY <2>1, <2>2, <2>3, <2>5, <4>2
    <3>3. T - E = 0 /\ T \in Int
      BY <2>1, <3>2
    <3>4. TotalIsNear(T, E, c, n)
      BY <2>5, <3>3, Zenon DEF TotalIsNear
    <3>5. QED
      BY <3>3, <3>4 DEF T, E
  <2>6. QED
    BY <2>4, <2>5
<1>3. TotalsOf(slips) = [c \in Columns |-> TotalsOf(slips)[c]]
  BY DEF TotalsOf
<1>4. QED
  BY <1>2, <1>3

\* w is d after a run is processed, into slips that are computed
ProcessOutcome(d, j, v, w, slips) ==
    /\ slips \in Seq(Slips) /\ \A k \in DOMAIN slips : MillsAddUp(slips[k])
    /\ DOMAIN slips = DOMAIN d.runs[j.run].slips
    /\ w.runs = [d.runs EXCEPT ![j.run] = w.runs[j.run]]
    /\ w.runs[j.run] \in RunRows
    /\ w.runs[j.run].period = d.runs[j.run].period
    /\ w.runs[j.run].status = "processed"
    /\ Len(w.runs[j.run].slips) = Len(d.runs[j.run].slips)
    /\ \A k \in DOMAIN slips :
          w.runs[j.run].slips[k] = [InCents(slips[k]) EXCEPT !.paid = d.runs[j.run].slips[k].paid]
    /\ w.runs[j.run].totals = TotalsOf(slips)
    /\ w.entries = d.entries \o PayrollEntries(v.run[1], slips, v, j.at)

(* A run that is processed: what is written, payslip by payslip.             *)
LEMMA ProcessWrites ==
    ASSUME NEW d, DOMAIN d = AllColumns, LedgerRows(d), StaffRows(d),
           NEW j, j \in Jobs("process"), NEW v, IsDraft(j, v), Fits("process", j, v, d)
    PROVE  ProcessOutcome(d, j, v, RunProcessed(j, v, d), Computeds(j, v))
<1> DEFINE w == RunProcessed(j, v, d)
           slips == Computeds(j, v)
           r == d.runs[j.run]
           n == Len(r.slips)
           cents == [k \in DOMAIN slips |-> InCents(slips[k])]
           kept == [k \in DOMAIN slips |-> [InCents(slips[k]) EXCEPT !.paid = r.slips[k].paid]]
           q == [r EXCEPT !.status = "processed", !.slips = kept, !.totals = TotalsOf(slips)]
<1>1. /\ v.run # <<>> /\ j.run \in DOMAIN d.runs /\ v.run[1] \in RunRows
      /\ Len(v.run[1].slips) = n
      /\ v.salary \in [Employees -> Salaries] /\ v.owed = OwedBy
      /\ j.override \in Overrides
  BY DEF IsDraft, Fits, Jobs
<1>2. r \in RunRows
  BY <1>1 DEF StaffRows
<1>3. /\ r.slips \in Seq(Slips) /\ v.run[1].slips \in Seq(Slips) /\ n \in Nat
      /\ DOMAIN r.slips = 1 .. n /\ DOMAIN v.run[1].slips = 1 .. n
  <2>1. r.slips \in Seq(Slips) /\ v.run[1].slips \in Seq(Slips)
    BY <1>1, <1>2 DEF RunRows
  <2>2. QED
    BY <1>1, <2>1
<1>4. DOMAIN slips = 1 .. n /\ \A k \in 1 .. n : slips[k] = Computed(v.run[1].slips[k], j, v)
  BY <1>3 DEF Computeds
<1>5. \A k \in 1 .. n : slips[k] \in Slips /\ MillsAddUp(slips[k])
  <2>1. TAKE k \in 1 .. n
  <2>2. v.run[1].slips[k] \in Slips
    BY <1>3
  <2>3. QED
    BY <1>1, <1>4, <2>2, ComputedSlip
<1>6. slips \in Seq(Slips)
  <2>1. slips = [k \in 1 .. n |-> slips[k]]
    BY <1>3 DEF Computeds
  <2> HIDE DEF slips, n
  <2>2. QED
    BY <1>3, <1>5, <2>1
<1>15. \A k \in 1 .. n : /\ cents[k] = InCents(slips[k]) /\ cents[k] \in Slips
                         /\ SlipAddsUp(cents[k])
                         /\ \A c \in Columns : cents[k][c] = IF c \in {"deduction", "net"}
                                                           THEN Cents(slips[k][c]) ELSE slips[k][c]
  <2>1. TAKE k \in 1 .. n
  <2>2. cents[k] = InCents(slips[k])
    BY <1>4
  <2>3. slips[k] \in Slips /\ MillsAddUp(slips[k])
    BY <1>5
  <2> HIDE DEF slips, cents, n
  <2>4. QED
    BY <2>2, <2>3, InCentsAddsUp
<1>7. kept \in Seq(Slips) /\ Len(kept) = n /\ DOMAIN kept = 1 .. n
  <2>1. \A k \in 1 .. n : [InCents(slips[k]) EXCEPT !.paid = r.slips[k].paid] \in Slips
    <3>1. TAKE k \in 1 .. n
    <3>2. InCents(slips[k]) \in Slips /\ r.slips[k] \in Slips
      <4> HIDE DEF cents
      <4>1. QED
        BY <1>3, <1>15
    <3> HIDE DEF slips, r
    <3>3. r.slips[k].paid \in BOOLEAN
      BY <3>2, Zenon DEF Slips
    <3>4. QED
      BY <3>2, <3>3, Zenon DEF Slips
  <2>2. kept = [k \in 1 .. n |-> [InCents(slips[k]) EXCEPT !.paid = r.slips[k].paid]]
    BY <1>4
  <2> HIDE DEF slips, n, r, kept
  <2>3. QED
    BY <1>3, <2>1, <2>2
<1>8. ASSUME NEW k \in 1 .. n
      PROVE  /\ kept[k] = [InCents(slips[k]) EXCEPT !.paid = r.slips[k].paid]
             /\ \A c \in Columns : kept[k][c] = IF c \in {"deduction", "net"}
                                              THEN Cents(slips[k][c]) ELSE slips[k][c]
             /\ SlipAddsUp(kept[k])
  <2>1. kept[k] = [cents[k] EXCEPT !.paid = r.slips[k].paid]
    BY <1>4, <1>8
  <2>2. cents[k] \in Slips /\ SlipAddsUp(cents[k]) /\ cents[k] = InCents(slips[k])
        /\ \A c \in Columns : cents[k][c] = IF c \in {"deduction", "net"}
                                          THEN Cents(slips[k][c]) ELSE slips[k][c]
    <3> HIDE DEF cents, slips, n
    <3>1. QED
      BY <1>8, <1>15
  <2> HIDE DEF slips, n, r, kept, cents
  <2>3. \A c \in Columns : kept[k][c] = cents[k][c]
    BY <2>1, <2>2 DEF Slips, Columns
  <2>4. SlipAddsUp(kept[k])
    BY <2>2, <2>3 DEF SlipAddsUp, Columns
  <2>5. kept[k] = [InCents(slips[k]) EXCEPT !.paid = r.slips[k].paid]
    BY <2>1, <2>2
  <2>6. \A c \in Columns : kept[k][c] = IF c \in {"deduction", "net"}
                                     THEN Cents(slips[k][c]) ELSE slips[k][c]
    BY <2>2, <2>3, Zenon
  <2>7. QED
    BY <2>4, <2>5, <2>6
<1>9. /\ TotalsOf(slips) \in [Columns -> Int]
      /\ \A c \in Columns : TotalIsNear(TotalsOf(slips)[c], TotalOfColumn(kept, c), c, Len(kept))
  <2>1. Len(slips) = n /\ DOMAIN slips = 1 .. n
    BY <1>3, <1>4, <1>6
  <2> HIDE DEF slips, n, r, kept
  <2>2. \A k \in DOMAIN slips : \A c \in Columns :
           kept[k][c] = IF c \in {"deduction", "net"} THEN Cents(slips[k][c]) ELSE slips[k][c]
    BY <1>8, <2>1
  <2>3. QED
    BY <1>6, <1>7, <2>1, <2>2, TotalsNear
<1>10. /\ q \in RunRows /\ q.period = r.period /\ q.status = "processed" /\ q.slips = kept
       /\ q.totals = TotalsOf(slips)
  <2> HIDE DEF slips, n, r, kept
  <2>1. q.period = r.period /\ q.status = "processed" /\ q.slips = kept
        /\ q.totals = TotalsOf(slips)
    BY <1>2 DEF RunRows
  <2>2. q \in [period : Periods, status : {"draft", "processed"},
               slips  : Seq(Slips), totals : [Columns -> Int]]
    BY <1>2, <1>7, <1>9 DEF RunRows
  <2>3. \A k \in DOMAIN kept : SlipAddsUp(kept[k])
    BY <1>7, <1>8
  <2>5. /\ \A k \in DOMAIN q.slips : SlipAddsUp(q.slips[k])
        /\ \A c \in Columns :
              TotalIsNear(q.totals[c], TotalOfColumn(q.slips, c), c, Len(q.slips))
    <3> HIDE DEF q
    <3>1. QED
      BY <1>9, <2>1, <2>3, Zenon
  <2> HIDE DEF q
  <2>4. QED
    BY <2>1, <2>2, <2>5 DEF RunRows
<1>11. w.runs = [d.runs EXCEPT ![j.run] = q]
  <2>1. "runs" \in DOMAIN d /\ "entries" \in DOMAIN d
    BY DEF AllColumns, StaffColumns, LedgerColumns
  <2>2. w = [d EXCEPT !.runs[j.run].status = "processed", !.runs[j.run].slips = kept,
                      !.runs[j.run].totals = TotalsOf(slips),
                      !.entries = d.entries \o PayrollEntries(v.run[1], slips, v, j.at)]
    BY Zenon DEF RunProcessed
  <2> DEFINE ts == TotalsOf(slips)
             es == d.entries \o PayrollEntries(v.run[1], slips, v, j.at)
  <2> HIDE DEF slips, n, kept, w, ts, es
  <2>3. QED
    BY <2>1, <2>2 DEF ts, es
<1>12. w.runs[j.run] = q
  <2> HIDE DEF q, w
  <2>1. QED
    BY <1>1, <1>11
<1>13. w.entries = d.entries \o PayrollEntries(v.run[1], slips, v, j.at)
  <2>1. "entries" \in DOMAIN d
    BY DEF AllColumns, StaffColumns, LedgerColumns
  <2>2. QED
    BY <2>1 DEF RunProcessed
<1> HIDE DEF q, w, slips, n, kept, cents
<1>14. QED
  BY <1>3, <1>4, <1>5, <1>6, <1>7, <1>8, <1>10, <1>11, <1>12, <1>13 DEF ProcessOutcome, w, slips, n

(* What the handlers of the staff payroll write.                             *)
LEMMA StaffWritten ==
    ASSUME NEW d, DOMAIN d = AllColumns, LedgerRows(d), StaffRows(d),
           NEW op \in StaffOps, NEW j \in Jobs(op), NEW v, Accepts(op, j, v), Fits(op, j, v, d)
    PROVE  LET w == Written(op, j, v, d) IN LedgerRows(w) /\ StaffRows(w) /\ Grows(d, w)
<1> DEFINE w == Written(op, j, v, d)
           Good == LedgerRows(w) /\ StaffRows(w) /\ Grows(d, w)
<1>0. /\ {"chart", "gl", "entries", "bank", "runs", "salary", "owed"} \subseteq AllColumns
      /\ Len(d.entries) \in Nat /\ Len(d.runs) \in Nat /\ DOMAIN d.runs = 1 .. Len(d.runs)
      /\ op \in Ops
  BY DEF AllColumns, LedgerColumns, StaffColumns, LedgerRows, StaffRows, Ops
<1>1. ASSUME NEW x, x.chart = d.chart, x.gl = d.gl, x.entries = d.entries, x.bank = d.bank
      PROVE  LedgerRows(x)
  BY <1>1 DEF LedgerRows
<1>2. op # "process" => w.chart = d.chart /\ w.gl = d.gl /\ w.entries = d.entries /\ w.bank = d.bank
  BY <1>0, Frame DEF WrittenBy, StaffOps
<1>3. CASE op = "employee"
  <2>1. j.employee \in Employees /\ j.gross \in Salaries
    BY <1>3 DEF Jobs, EmployeeJobs
  <2>2. /\ w.salary = [d.salary EXCEPT ![j.employee] = j.gross]
        /\ w.owed = d.owed /\ w.runs = d.runs
    BY <1>0, <1>3 DEF Written, SalarySet
  <2> HIDE DEF w
  <2>3. StaffRows(w)
    BY <2>1, <2>2 DEF StaffRows
  <2>4. Grows(d, w)
    BY <1>0, <1>2, <1>3, <2>2 DEF Grows
  <2>5. QED
    BY <1>1, <1>2, <1>3, <2>3, <2>4 DEF w
<1>4. CASE op = "run"
  <2> DEFINE slips == [k \in DOMAIN j.staff |-> DraftSlip(j.staff[k], v.salary)]
             run == [period |-> j.period, status |-> "draft", slips |-> slips,
                     totals |-> [c \in Columns |-> 0]]
  <2>1. j.period \in Periods /\ j.staff \in Seq(Employees)
    BY <1>4, StaffPayrollAssumption DEF Jobs, RunJobs
  <2>2. v.salary \in [Employees -> Salaries]
    BY <1>4 DEF Fits
  <2>3. slips \in Seq(Slips)
    <3>1. \A e \in Employees : DraftSlip(e, v.salary) \in Slips
      <4>1. TAKE e \in Employees
      <4>2. v.salary[e] \in Int
        BY <2>2, StaffPayrollAssumption
      <4> DEFINE g == v.salary[e]
      <4>3. DraftSlip(e, v.salary) =
              [employee |-> e, gross |-> g, paye |-> 0, nssf_employee |-> 0, nssf_employer |-> 0,
               deduction |-> 0, deducts |-> FALSE, loan |-> FALSE, net |-> g, paid |-> FALSE]
        BY DEF DraftSlip
      <4> HIDE DEF g
      <4>4. g \in Int
        BY <4>2 DEF g
      <4>5. 0 \in Nat /\ 0 \in Int
        OBVIOUS
      <4>6. QED
        BY <4>3, <4>4, <4>5 DEF Slips
    <3>2. DOMAIN j.staff = 1 .. Len(j.staff) /\ Len(j.staff) \in Nat
          /\ \A k \in 1 .. Len(j.staff) : j.staff[k] \in Employees
      BY <2>1
    <3>3. QED
      BY <3>1, <3>2
  <2>4. run \in RunRows
    <3> HIDE DEF slips
    <3>1. run.status # "processed"
      OBVIOUS
    <3>2. run \in [period : Periods, status : {"draft", "processed"},
                   slips  : Seq(Slips), totals : [Columns -> Int]]
      BY <2>1, <2>3
    <3>3. QED
      BY <3>1, <3>2 DEF RunRows
  <2>5. /\ w.runs = Append(d.runs, run)
        /\ w.owed = d.owed /\ w.salary = d.salary
    BY <1>0, <1>4 DEF Written, RunCreated
  <2> HIDE DEF w, run
  <2>6. StaffRows(w)
    BY <2>4, <2>5 DEF StaffRows
  <2>7. Len(w.runs) = Len(d.runs) + 1 /\ \A i \in DOMAIN d.runs : w.runs[i] = d.runs[i]
    BY <2>5 DEF StaffRows
  <2>8. Grows(d, w)
    BY <1>0, <1>2, <1>4, <2>7 DEF Grows
  <2>9. QED
    BY <1>1, <1>2, <1>4, <2>6, <2>8 DEF w
<1>5. CASE op = "process"
  <2> DEFINE slips == Computeds(j, v)
             es == PayrollEntries(v.run[1], slips, v, j.at)
             q == w.runs[j.run]
  <2>1. IsDraft(j, v) /\ j \in Jobs("process") /\ Fits("process", j, v, d)
        /\ w = RunProcessed(j, v, d)
    BY <1>5 DEF Accepts, Written
  <2>2. /\ slips \in Seq(Slips)
        /\ w.runs = [d.runs EXCEPT ![j.run] = q]
        /\ q \in RunRows /\ q.period = d.runs[j.run].period
        /\ Len(q.slips) = Len(d.runs[j.run].slips)
        /\ w.entries = d.entries \o es
    <3>1. DOMAIN d = AllColumns /\ LedgerRows(d) /\ StaffRows(d)
      OBVIOUS
    <3>2. ProcessOutcome(d, j, v, RunProcessed(j, v, d), slips)
      BY <2>1, <3>1, ProcessWrites
    <3>3. ProcessOutcome(d, j, v, w, slips)
      BY <2>1, <3>2
    <3> HIDE DEF w, slips
    <3>4. QED
      BY <3>3 DEF ProcessOutcome
  <2>3. /\ v.run # <<>> /\ v.run[1] \in RunRows /\ j.run \in DOMAIN d.runs
        /\ v.chart \subseteq d.chart /\ v.gl \in [GLFields -> v.chart \cup {NoAccount}]
        /\ j.at \in 0 .. MaxTime
    BY <2>1 DEF IsDraft, Fits, Jobs
  <2>4. MayPost(slips, v, d.chart)
    <3>1. \A k \in DOMAIN slips :
             Posts(slips[k], v.gl) => Postable(PayrollLines(slips[k], v.gl), v.chart)
      BY <2>1, Zenon DEF IsDraft
    <3> HIDE DEF slips
    <3>2. QED
      BY <2>3, <3>1 DEF MayPost, LedgerRows
  <2>5. v.run[1].period \in Periods
    BY <2>3 DEF RunRows
  <2>6. /\ w.chart = d.chart /\ w.gl = d.gl /\ w.bank = d.bank
        /\ w.salary = d.salary /\ w.owed = d.owed
    BY <1>0, <1>5, Frame DEF WrittenBy
  <2> HIDE DEF w, es, slips, q
  <2>7. es \in Seq(EntryRows(d.chart))
    BY <2>2, <2>3, <2>4, <2>5, PayrollEntriesTyped DEF es
  <2>8. w.entries \in Seq(EntryRows(d.chart)) /\ Len(w.entries) = Len(d.entries) + Len(es)
        /\ Len(es) \in Nat
    BY <2>2, <2>7 DEF LedgerRows
  <2>9. w.bank \in [BankLines -> -1 .. Len(w.entries)]
    <3>1. -1 .. Len(d.entries) \subseteq -1 .. Len(w.entries)
      BY <1>0, <2>8
    <3>2. QED
      BY <2>6, <3>1 DEF LedgerRows
  <2>10. LedgerRows(w)
    BY <2>6, <2>8, <2>9 DEF LedgerRows
  <2>11. StaffRows(w)
    BY <2>2, <2>3, <2>6 DEF StaffRows
  <2>12. Len(w.runs) = Len(d.runs)
         /\ \A i \in DOMAIN d.runs : w.runs[i] = IF i = j.run THEN q ELSE d.runs[i]
    BY <2>2, <2>3 DEF StaffRows
  <2>13. Grows(d, w)
    BY <1>0, <2>2, <2>6, <2>8, <2>12 DEF Grows
  <2>14. QED
    BY <2>10, <2>11, <2>13 DEF w
<1>6. CASE op = "pay"
  <2> DEFINE r == d.runs[j.run]
             s == r.slips[j.slip]
             paid == [s EXCEPT !.paid = TRUE]
             slips == [r.slips EXCEPT ![j.slip] = paid]
             q == [r EXCEPT !.slips = slips]
  <2>1. j.run \in DOMAIN d.runs /\ j.slip \in DOMAIN r.slips
    BY <1>6 DEF Accepts, IsPending, Fits
  <2>2. r \in RunRows
    BY <2>1 DEF StaffRows
  <2>3. r.slips \in Seq(Slips)
    BY <2>2 DEF RunRows
  <2>4. s \in Slips
    BY <2>1, <2>3
  <2>5. paid \in Slips
    <3> HIDE DEF s
    <3>1. QED
      BY <2>4, Zenon DEF Slips
  <2>6. \A c \in Columns : paid[c] = s[c]
    <3> HIDE DEF s
    <3>1. QED
      BY <2>4 DEF Slips, Columns
  <2>7. slips \in Seq(Slips) /\ Len(slips) = Len(r.slips) /\ DOMAIN slips = DOMAIN r.slips
    <3> HIDE DEF paid
    <3>1. QED
      BY <2>1, <2>3, <2>5
  <2>8. \A k \in DOMAIN r.slips : \A c \in Columns : slips[k][c] = r.slips[k][c]
    <3> HIDE DEF paid
    <3>1. \A k \in DOMAIN r.slips : slips[k] = IF k = j.slip THEN paid ELSE r.slips[k]
      BY <2>1, <2>3
    <3> HIDE DEF slips
    <3>2. QED
      BY <2>6, <3>1
  <2>9. \A c \in Columns : TotalOfColumn(slips, c) = TotalOfColumn(r.slips, c)
    <3> HIDE DEF slips
    <3>1. QED
      BY <2>3, <2>7, <2>8, TotalsSame
  <2>10. q \in RunRows /\ q.period = r.period /\ q.slips = slips
    <3> HIDE DEF slips, r
    <3>1. q \in [period : Periods, status : {"draft", "processed"},
                 slips  : Seq(Slips), totals : [Columns -> Int]]
      BY <2>2, <2>7 DEF RunRows
    <3>2. q.status = r.status /\ q.slips = slips /\ q.totals = r.totals /\ q.period = r.period
      BY <2>2 DEF RunRows
    <3>3. ASSUME r.status = "processed"
          PROVE  /\ \A k \in DOMAIN slips : SlipAddsUp(slips[k])
                 /\ \A c \in Columns :
                       TotalIsNear(r.totals[c], TotalOfColumn(slips, c), c, Len(slips))
      <4>1. /\ \A k \in DOMAIN r.slips : SlipAddsUp(r.slips[k])
            /\ \A c \in Columns :
                  TotalIsNear(r.totals[c], TotalOfColumn(r.slips, c), c, Len(r.slips))
        BY <2>2, <3>3 DEF RunRows
      <4>2. \A k \in DOMAIN slips : SlipAddsUp(slips[k])
        BY <2>7, <2>8, <4>1 DEF SlipAddsUp, Columns
      <4>3. QED
        BY <2>7, <2>9, <4>1, <4>2, Zenon
    <3> HIDE DEF q
    <3>4. QED
      BY <3>1, <3>2, <3>3 DEF RunRows
  <2>11. w.runs = [d.runs EXCEPT ![j.run] = q] /\ w.salary = d.salary /\ w.owed = d.owed
    BY <1>0, <1>6 DEF Written, SlipPaid
  <2> HIDE DEF q, w, slips
  <2>12. StaffRows(w)
    BY <2>1, <2>10, <2>11 DEF StaffRows
  <2>13. Len(w.runs) = Len(d.runs)
         /\ \A i \in DOMAIN d.runs : w.runs[i] = IF i = j.run THEN q ELSE d.runs[i]
    BY <2>1, <2>11 DEF StaffRows
  <2>14. Grows(d, w)
    BY <1>0, <1>2, <1>6, <2>7, <2>10, <2>13 DEF Grows
  <2>15. QED
    BY <1>1, <1>2, <1>6, <2>12, <2>14 DEF w
<1>7. QED
  BY <1>3, <1>4, <1>5, <1>6 DEF StaffOps

(* What the handlers of the registers write.                                 *)
LEMMA RegistersWritten ==
    ASSUME NEW d, DOMAIN d = AllColumns, RegisterRows(d),
           NEW op \in RegisterOps, NEW j \in Jobs(op), NEW v, Accepts(op, j, v), Fits(op, j, v, d)
    PROVE  RegisterRows(Written(op, j, v, d))
<1> DEFINE w == Written(op, j, v, d)
<1>0. /\ {"report", "submitted", "flag", "news"} \subseteq AllColumns
      /\ op \in Ops
  BY DEF AllColumns, RegisterColumns, Ops
<1>1. \A c \in AllColumns \ WrittenBy(op) : w[c] = d[c]
  BY <1>0, Frame
<1>2. CASE op \in {"report", "submit"}
  <2>1. w.flag = d.flag /\ w.news = d.news
    BY <1>0, <1>1, <1>2 DEF WrittenBy
  <2>2. w.report = [d.report EXCEPT ![j.report] = w.report[j.report]]
        /\ w.report[j.report] \in {"prepared", "submitted"}
        /\ w.submitted \in {d.submitted, [d.submitted EXCEPT ![j.report] = d.submitted[j.report] + 1]}
    <3>1. j.report \in Reports
      BY <1>2 DEF Jobs, ReportJobs
    <3>2. CASE op = "report"
      BY <1>0, <3>1, <3>2 DEF Written, ReportPrepared, RegisterRows
    <3>3. CASE op = "submit"
      BY <1>0, <3>1, <3>3 DEF Written, ReportSubmitted, RegisterRows
    <3>4. QED
      BY <1>2, <3>2, <3>3
  <2> HIDE DEF w
  <2>3. RegisterRows(w)
    BY <2>1, <2>2 DEF RegisterRows
  <2>4. QED
    BY <2>3 DEF w
<1>3. CASE op \in {"flag", "resolve"}
  <2>1. w.report = d.report /\ w.submitted = d.submitted /\ w.news = d.news
    BY <1>0, <1>1, <1>3 DEF WrittenBy
  <2>2. \E x \in {"open", "resolved"} : w.flag = [d.flag EXCEPT ![j.flag] = x]
    BY <1>0, <1>3 DEF Written, FlagRaised, FlagResolved, RegisterRows
  <2> HIDE DEF w
  <2>3. RegisterRows(w)
    BY <2>1, <2>2 DEF RegisterRows
  <2>4. QED
    BY <2>3 DEF w
<1>4. CASE op \in {"news_list", "news_post", "news_delete"}
  <2>1. w.report = d.report /\ w.submitted = d.submitted /\ w.flag = d.flag
    BY <1>0, <1>1, <1>4 DEF WrittenBy
  <2>2. w.news \in [News -> Nat]
    <3>1. CASE op = "news_list"
      BY <1>0, <3>1 DEF Written, NewsSeeded, RegisterRows
    <3>2. CASE op = "news_post"
      <4>1. j.item \in News
        BY <3>2 DEF Jobs, PostJobs, News
      <4>2. w.news = [d.news EXCEPT ![j.item] = d.news[j.item] + 1]
        BY <1>0, <3>2 DEF Written, NewsPosted
      <4>3. QED
        BY <4>1, <4>2 DEF RegisterRows
    <3>3. CASE op = "news_delete"
      <4>1. v \in Nat /\ v > 0
        BY <3>3 DEF Accepts, ItemExists, Fits
      <4>2. w.news = [d.news EXCEPT ![j.item] = v - 1]
        BY <1>0, <3>3 DEF Written, NewsDeleted
      <4>3. v - 1 \in Nat
        BY <4>1
      <4> DEFINE left == v - 1
      <4> HIDE DEF w, left
      <4>4. QED
        BY <4>2, <4>3 DEF RegisterRows, left
    <3>4. QED
      BY <1>4, <3>1, <3>2, <3>3
  <2> HIDE DEF w
  <2>3. RegisterRows(w)
    BY <2>1, <2>2 DEF RegisterRows
  <2>4. QED
    BY <2>3 DEF w
<1>5. QED
  BY <1>2, <1>3, <1>4 DEF RegisterOps

\* the rows are well formed, and what sessions have read fits them
RowsInv ==
    /\ LedgerRows(db) /\ StaffRows(db) /\ RegisterRows(db)
    /\ db.user \in [Accountholders -> UserRows]
    /\ \A s \in Sessions : session[s].op \in Ops =>
          Fits(session[s].op, session[s].job, session[s].view, db)

RowColumns == LedgerColumns \cup StaffColumns \cup RegisterColumns

(* Rows that are the same are well formed still, and have grown by nothing.  *)
LEMMA RowsSame ==
    ASSUME NEW d, NEW e, LedgerRows(d), StaffRows(d), RegisterRows(d),
           \A c \in RowColumns : e[c] = d[c]
    PROVE  LedgerRows(e) /\ StaffRows(e) /\ RegisterRows(e) /\ Grows(d, e)
<1>1. /\ e.chart = d.chart /\ e.gl = d.gl /\ e.entries = d.entries /\ e.bank = d.bank
      /\ e.salary = d.salary /\ e.owed = d.owed /\ e.runs = d.runs
      /\ e.report = d.report /\ e.submitted = d.submitted /\ e.flag = d.flag /\ e.news = d.news
  BY DEF RowColumns, LedgerColumns, StaffColumns, RegisterColumns
<1>2. Len(d.entries) \in Nat /\ Len(d.runs) \in Nat
  BY DEF LedgerRows, StaffRows
<1>3. Grows(d, e)
  BY <1>1, <1>2 DEF Grows
<1>4. QED
  BY <1>1, <1>3 DEF LedgerRows, StaffRows, RegisterRows

(* What a commit makes of well-formed rows.                                  *)
LEMMA RowsWritten ==
    ASSUME NEW d, DOMAIN d = AllColumns, LedgerRows(d), StaffRows(d), RegisterRows(d),
           NEW op \in Ops, NEW j \in Jobs(op), NEW v, Accepts(op, j, v), Fits(op, j, v, d)
    PROVE  LET w == Written(op, j, v, d) IN
           LedgerRows(w) /\ StaffRows(w) /\ RegisterRows(w) /\ Grows(d, w)
<1> DEFINE w == Written(op, j, v, d)
<1>1. \A c \in AllColumns \ WrittenBy(op) : w[c] = d[c]
  BY Frame
<1>2. RowColumns \subseteq AllColumns
  BY DEF RowColumns, AllColumns
<1>3. CASE op \in LedgerOps
  <2>1. LedgerRows(w) /\ Grows(d, w)
    BY <1>3, LedgerWritten
  <2>2. WrittenBy(op) \subseteq LedgerColumns
    BY <1>3 DEF WrittenBy, LedgerOps, LedgerColumns
  <2>3. \A c \in StaffColumns \cup RegisterColumns : w[c] = d[c]
    BY <1>1, <2>2 DEF AllColumns, LedgerColumns, StaffColumns, RegisterColumns
  <2> HIDE DEF w
  <2>4. StaffRows(w) /\ RegisterRows(w)
    BY <2>3 DEF StaffRows, RegisterRows, StaffColumns, RegisterColumns
  <2>5. QED
    BY <2>1, <2>4 DEF w
<1>4. CASE op \in StaffOps
  <2>1. LedgerRows(w) /\ StaffRows(w) /\ Grows(d, w)
    BY <1>4, StaffWritten
  <2>2. WrittenBy(op) \subseteq LedgerColumns \cup StaffColumns
    BY <1>4 DEF WrittenBy, StaffOps, LedgerColumns, StaffColumns
  <2>3. \A c \in RegisterColumns : w[c] = d[c]
    BY <1>1, <2>2 DEF AllColumns, LedgerColumns, StaffColumns, RegisterColumns
  <2> HIDE DEF w
  <2>4. RegisterRows(w)
    BY <2>3 DEF RegisterRows, RegisterColumns
  <2>5. QED
    BY <2>1, <2>4 DEF w
<1>5. CASE op \in RegisterOps
  <2>1. RegisterRows(w)
    BY <1>5, RegistersWritten
  <2>2. WrittenBy(op) \subseteq RegisterColumns
    BY <1>5 DEF WrittenBy, RegisterOps, RegisterColumns
  <2>3. \A c \in LedgerColumns \cup StaffColumns : w[c] = d[c]
    BY <1>1, <2>2 DEF AllColumns, LedgerColumns, StaffColumns, RegisterColumns
  <2> DEFINE e == [c \in RowColumns |-> IF c \in RegisterColumns THEN d[c] ELSE w[c]]
  <2>4. \A c \in RowColumns : e[c] = d[c]
    BY <2>3 DEF RowColumns
  <2>5. Grows(d, e) /\ LedgerRows(e) /\ StaffRows(e)
    BY <2>4, RowsSame
  <2>6. \A c \in LedgerColumns \cup StaffColumns : w[c] = e[c]
    BY <2>3, <2>4 DEF RowColumns
  <2> HIDE DEF w, e
  <2>7. LedgerRows(w) /\ StaffRows(w) /\ Grows(d, w)
    BY <2>5, <2>6 DEF LedgerRows, StaffRows, Grows, LedgerColumns, StaffColumns
  <2>8. QED
    BY <2>1, <2>7 DEF w
<1>6. CASE op \in UserOps
  <2>1. WrittenBy(op) \subseteq UserColumns
    BY <1>6 DEF WrittenBy, UserOps, PortalOps, UserColumns
  <2>2. \A c \in RowColumns : w[c] = d[c]
    BY <1>1, <2>1 DEF AllColumns, LedgerColumns, StaffColumns, RegisterColumns, UserColumns, RowColumns
  <2>3. QED
    BY <2>2, RowsSame
<1>7. QED
  BY <1>3, <1>4, <1>5, <1>6 DEF Ops

(* Every step keeps the rows well formed and lets them grow only, whatever   *)
(* the isolation level.                                                      *)
LEMMA RowsStep ==
    ASSUME WorkInv, RowsInv, [Next]_vars
    PROVE  RowsInv' /\ Grows(db, db')
<1> DEFINE Rows(d) == LedgerRows(d) /\ StaffRows(d) /\ RegisterRows(d)
<1>0. /\ DOMAIN db = AllColumns /\ DOMAIN session = Sessions /\ RowColumns \subseteq AllColumns
      /\ RowColumns \cap (NoticeColumns \cup {"token"}) = {}
      /\ Rows(db)
  BY DEF WorkInv, SessionsAtWork, RowsInv, AllColumns, RowColumns, LedgerColumns, StaffColumns,
     RegisterColumns, NoticeColumns
<1>1. ASSUME Rows(db'), Grows(db, db'),
             \A s \in Sessions : session'[s].op \in Ops =>
                Fits(session'[s].op, session'[s].job, session'[s].view, db')
      PROVE  RowsInv' /\ Grows(db, db')
  <2>1. db'.user \in [Accountholders -> UserRows]
    BY UsersTyped DEF RowsInv
  <2>2. QED
    BY <1>1, <2>1 DEF RowsInv
<1>2. ASSUME Rows(db'), Grows(db, db'),
             \A s \in Sessions : session'[s].op \in Ops => session'[s] = session[s]
      PROVE  RowsInv' /\ Grows(db, db')
  <2>1. ASSUME NEW s \in Sessions, session'[s].op \in Ops
        PROVE  Fits(session'[s].op, session'[s].job, session'[s].view, db')
    <3>1. session'[s] = session[s] /\ session[s].op \in Ops
      BY <1>2, <2>1
    <3>2. Fits(session[s].op, session[s].job, session[s].view, db)
      BY <3>1 DEF RowsInv
    <3>3. Fits(session[s].op, session[s].job, session[s].view, db')
      BY <1>0, <1>2, <3>2, FitsStill
    <3>4. QED
      BY <3>1, <3>3
  <2>2. QED
    BY <1>1, <1>2, <2>1
<1>3. (\A c \in RowColumns : db'[c] = db[c]) => Rows(db') /\ Grows(db, db')
  BY <1>0, RowsSame
<1>4. ASSUME NEW s \in Sessions, NEW op \in Ops, Opens(s, op)
      PROVE  RowsInv' /\ Grows(db, db')
  <2>1. PICK j \in Jobs(op) :
           session' = [session EXCEPT ![s] = [op |-> op, job |-> j, view |-> ReadBy(op, j, db)]]
    BY <1>4 DEF Opens
  <2>2. db' = db
    BY <1>4 DEF Opens
  <2>3. Rows(db') /\ Grows(db, db')
    BY <1>3, <2>2
  <2>4. Fits(op, j, ReadBy(op, j, db), db)
    BY <1>0, ReadingFits
  <2>5. ASSUME NEW t \in Sessions, session'[t].op \in Ops
        PROVE  Fits(session'[t].op, session'[t].job, session'[t].view, db')
    <3>1. CASE t = s
      BY <1>0, <2>1, <2>2, <2>4, <3>1
    <3>2. CASE t # s
      BY <1>0, <2>1, <2>2, <2>5, <3>2 DEF RowsInv
    <3>3. QED
      BY <3>1, <3>2
  <2>6. QED
    BY <1>1, <2>3, <2>5
<1>5. ASSUME NEW s \in Sessions, NEW op \in Ops, CommitsIt(s, op)
      PROVE  RowsInv' /\ Grows(db, db')
  <2>1. session[s].op = op /\ Fits(op, session[s].job, session[s].view, db)
    BY <1>5 DEF CommitsIt, RowsInv
  <2>2. session[s].job \in Jobs(op) /\ Accepts(op, session[s].job, session[s].view)
    BY <1>5, CommitFinds
  <2>3. db' = Written(op, session[s].job, session[s].view, db)
        /\ session' = [session EXCEPT ![s] = Idle]
    BY <1>5 DEF CommitsIt
  <2>4. Rows(db') /\ Grows(db, db')
    BY <1>0, <2>1, <2>2, <2>3, RowsWritten
  <2>5. \A t \in Sessions : session'[t].op \in Ops => session'[t] = session[t]
    BY <1>0, <2>3 DEF Idle, Ops, LedgerOps, StaffOps, UserOps, PortalOps, RegisterOps
  <2>6. QED
    BY <1>2, <2>4, <2>5
<1>6. CASE \E s \in Sessions : NoticeStep(s)
  <2>1. PICK s \in Sessions : NoticeStep(s)
    BY <1>6
  <2>2. /\ session' = [session EXCEPT ![s] = session'[s]]
        /\ session'[s] = Idle \/ OnNotice(session'[s])
        /\ \A c \in AllColumns \ NoticeColumns : db'[c] = db[c]
    BY <2>1, NoticesKeep
  <2>3. \A t \in Sessions : session'[t].op \in Ops => session'[t] = session[t]
    BY <1>0, <2>2
       DEF Idle, OnNotice, NoticeOps, Ops, LedgerOps, StaffOps, UserOps, PortalOps, RegisterOps
  <2>4. \A c \in RowColumns : db'[c] = db[c]
    BY <1>0, <2>2
  <2>5. QED
    BY <1>2, <1>3, <2>3, <2>4
<1>7. CASE ServerRestarts
  <2>1. \A t \in Sessions : session'[t].op \notin Ops
    BY <1>7
       DEF ServerRestarts, Idle, Ops, LedgerOps, StaffOps, UserOps, PortalOps, RegisterOps
  <2>2. \A c \in RowColumns : db'[c] = db[c]
    BY <1>0, <1>7 DEF ServerRestarts, NoticeColumns
  <2>3. QED
    BY <1>2, <1>3, <2>1, <2>2
<1>8. CASE Expiry
  <2>1. session' = session /\ \A c \in RowColumns : db'[c] = db[c]
    BY <1>0, <1>8 DEF Expiry
  <2>2. QED
    BY <1>2, <1>3, <2>1
<1>9. CASE NothingWritten
  <2>1. db' = db /\ \A t \in Sessions : session'[t].op \in Ops => session'[t] = session[t]
    BY <1>0, <1>9
       DEF NothingWritten, Idle, Ops, LedgerOps, StaffOps, UserOps, PortalOps, RegisterOps
  <2>2. QED
    BY <1>2, <1>3, <2>1
<1>10. QED
  BY <1>4, <1>5, <1>6, <1>7, <1>8, <1>9, EveryStep DEF Served

(* At the start the rows are well formed.                                    *)
LEMMA RowsInit == Init => RowsInv
<1>1. /\ Tables.chart = OpeningChart /\ Tables.gl = OpeningGL /\ Tables.entries = <<>>
      /\ Tables.bank = [t \in BankLines |-> -1]
  <2>1. /\ LedgerTables.chart = OpeningChart /\ LedgerTables.gl = OpeningGL
        /\ LedgerTables.entries = <<>> /\ LedgerTables.bank = [t \in BankLines |-> -1]
    BY DEF LedgerTables
  <2>2. QED
    BY <2>1, TheTables DEF LedgerColumns
<1>2. /\ Tables.salary = StaffTables.salary /\ Tables.owed = OwedBy /\ Tables.runs = <<>>
  <2>1. StaffTables.owed = OwedBy /\ StaffTables.runs = <<>>
    BY DEF StaffTables
  <2>2. QED
    BY <2>1, TheTables DEF StaffColumns
<1>3. /\ Tables.report = [r \in Reports |-> "none"] /\ Tables.submitted = [r \in Reports |-> 0]
      /\ Tables.flag = [f \in Flags |-> "none"] /\ Tables.news = [n \in News |-> 0]
  <2>1. /\ RegisterTables.report = [r \in Reports |-> "none"]
        /\ RegisterTables.submitted = [r \in Reports |-> 0]
        /\ RegisterTables.flag = [f \in Flags |-> "none"] /\ RegisterTables.news = [n \in News |-> 0]
    BY DEF RegisterTables
  <2>2. QED
    BY <2>1, TheTables DEF RegisterColumns
<1>4. Tables.user \in [Accountholders -> UserRows]
  <2>1. UserTables.user \in [Accountholders -> UserRows]
    BY DEF UserTables, UserRows, Portals
  <2>2. QED
    BY <2>1, TheTables DEF UserColumns
<1>5. LedgerRows(Tables)
  BY <1>1, LedgerAssumption DEF LedgerRows
<1>6. StaffRows(Tables)
  <2>1. Tables.salary \in [Employees -> Salaries]
    <3>1. StaffTables.salary = [e \in Employees |-> CHOOSE g \in Salaries : g > 0]
      BY DEF StaffTables
    <3>2. (CHOOSE g \in Salaries : g > 0) \in Salaries
      BY StaffPayrollAssumption
    <3>3. QED
      BY <1>2, <3>1, <3>2
  <2>2. QED
    BY <1>2, <2>1 DEF StaffRows
<1>7. RegisterRows(Tables)
  BY <1>3 DEF RegisterRows
<1>8. QED
  BY <1>4, <1>5, <1>6, <1>7
     DEF Init, RequestsInit, RowsInv, Idle, Ops, LedgerOps, StaffOps, UserOps, PortalOps, RegisterOps

(* The rows of the ledger, the payroll, the registers and the users are well *)
(* formed, and what handlers go on with fits them, whatever the isolation    *)
(* level: rows are added and never taken away.                               *)
THEOREM RowsAreWellFormed == Spec => [](WorkInv /\ RowsInv)
<1>1. WorkInv /\ RowsInv /\ [Next]_vars => RowsInv'
  BY RowsStep
<1>2. QED
  BY RowsInit, WorkIsAccepted, <1>1, PTL DEF Spec

(* Every table and every session has its type, whatever the isolation level  *)
(* and however many employees, accounts, messages and sessions there are.    *)
THEOREM BackOfficeTypes == Spec => []TypeOK
<1>1. ASSUME WorkInv, RowsInv, MessagesInv
      PROVE  TypeOK
  <2>1. RequestsTypeOK
    <3>1. ASSUME NEW s \in Sessions
          PROVE  session[s] = Idle \/ /\ DOMAIN session[s] = {"op", "job", "view"}
                                      /\ session[s].op \in desk
      BY <1>1 DEF WorkInv, SessionsAtWork, OnRequest, OnNotice
    <3>2. QED
      BY <1>1, <3>1 DEF WorkInv, RequestsTypeOK
  <2>2. LedgerTypeOK
    <3>1. ASSUME NEW i \in DOMAIN db.entries
          PROVE  /\ DOMAIN db.entries[i] = {"by", "about", "date", "lines"}
                 /\ \A k \in DOMAIN db.entries[i].lines :
                       db.entries[i].lines[k] \in [account : db.chart, debit : Int, credit : Int]
      <4>1. db.entries[i] \in EntryRows(db.chart)
        BY <1>1, <3>1 DEF RowsInv, LedgerRows
      <4>2. DOMAIN db.entries[i] = {"by", "about", "date", "lines"}
            /\ db.entries[i].lines \in Seq(Lines(db.chart))
        BY <4>1 DEF EntryRows
      <4>3. \A k \in DOMAIN db.entries[i].lines : db.entries[i].lines[k] \in Lines(db.chart)
        BY <4>2
      <4>4. QED
        BY <4>2, <4>3 DEF Lines
    <3>2. QED
      BY <1>1, <3>1 DEF RowsInv, LedgerRows, LedgerTypeOK
  <2>3. StaffTypeOK
    <3>1. ASSUME NEW r \in DOMAIN db.runs
          PROVE  /\ DOMAIN db.runs[r] = {"period", "status", "slips", "totals"}
                 /\ db.runs[r].period \in Periods
                 /\ db.runs[r].status \in {"draft", "processed"}
                 /\ \A k \in DOMAIN db.runs[r].slips : db.runs[r].slips[k] \in Slips
                 /\ db.runs[r].totals \in [Columns -> Int]
      <4>1. db.runs[r] \in RunRows
        BY <1>1, <3>1 DEF RowsInv, StaffRows
      <4>2. /\ DOMAIN db.runs[r] = {"period", "status", "slips", "totals"}
            /\ db.runs[r].period \in Periods
            /\ db.runs[r].status \in {"draft", "processed"}
            /\ db.runs[r].slips \in Seq(Slips)
            /\ db.runs[r].totals \in [Columns -> Int]
        BY <4>1 DEF RunRows
      <4>3. QED
        BY <4>2
    <3>2. QED
      BY <1>1, <3>1 DEF RowsInv, StaffRows, StaffTypeOK
  <2>4. UsersTypeOK
    BY <1>1 DEF WorkInv, RowsInv, UserRows, UsersTypeOK
  <2>5. NoticesTypeOK
    BY <1>1 DEF WorkInv, MessagesInv, NoticesTypeOK
  <2>6. RegistersTypeOK
    BY <1>1 DEF RowsInv, RegisterRows, RegistersTypeOK
  <2>7. DOMAIN db = DOMAIN Tables
    BY <1>1, TheTables DEF WorkInv
  <2>8. QED
    BY <2>1, <2>2, <2>3, <2>4, <2>5, <2>6, <2>7 DEF TypeOK
<1>2. WorkInv /\ MessagesInv /\ [Next]_vars => MessagesInv'
  BY MessagesKept
<1>3. QED
  BY RowsAreWellFormed, NothingSentYet, <1>1, <1>2, PTL DEF Spec

(* What the registers say was done once was done once.                       *)
LEMMA RegisterDone ==
    ASSUME WorkInv, RowsInv, OnceOnly,
           NEW op \in RegisterOps, NEW j, NEW v, Alone(op, j, v)
    PROVE  OnceOnly'
<1> USE RegistersAssumption
<1>0. /\ RegisterRows(db) /\ DOMAIN db = AllColumns
      /\ {"report", "submitted", "flag", "news"} \subseteq AllColumns
      /\ j \in Jobs(op)
  BY DEF RowsInv, WorkInv, AllColumns, RegisterColumns, Alone
<1>1. op \in Ops
  BY DEF Ops
<1>2. \A c \in AllColumns \ WrittenBy(op) : db'[c] = db[c]
  BY <1>0, <1>1, Frame DEF Alone
<1> USE DEF OnceOnly, SubmittedOnce, SeededOnce, RegisterRows
<1>3. CASE op = "report"
  <2>1. j.report \in Reports /\ db.report[j.report] = "none"
    BY <1>0, <1>3 DEF Alone, Same, Jobs, ReportJobs, Accepts, ReadBy, NotPrepared, ReportRead, UserOps, PortalOps
  <2>2. /\ db'.report = [db.report EXCEPT ![j.report] = "prepared"]
        /\ db'.submitted = db.submitted /\ db'.news = db.news
    BY <1>0, <1>3 DEF Alone, Written, ReportPrepared
  <2>3. QED
    BY <1>0, <2>1, <2>2
<1>4. CASE op = "submit"
  <2>1. j.report \in Reports /\ db.report[j.report] = "prepared"
    BY <1>0, <1>4 DEF Alone, Same, Jobs, ReportJobs, Accepts, ReadBy, NotSubmitted, ReportRead, UserOps, PortalOps
  <2>2. /\ db'.report = [db.report EXCEPT ![j.report] = "submitted"]
        /\ db'.submitted = [db.submitted EXCEPT ![j.report] = db.submitted[j.report] + 1]
        /\ db'.news = db.news
    BY <1>0, <1>4 DEF Alone, Written, ReportSubmitted
  <2>3. QED
    BY <1>0, <2>1, <2>2
<1>5. CASE op \in {"flag", "resolve"}
  <2>1. db'.report = db.report /\ db'.submitted = db.submitted /\ db'.news = db.news
    BY <1>0, <1>2, <1>5 DEF WrittenBy
  <2>2. QED
    BY <2>1
<1>6. CASE op = "news_list"
  <2>1. \A n \in SeedNews : db.news[n] = 0
    <3>1. \A n \in News : v[n] = 0
      BY <1>6 DEF Alone, Accepts, IsEmpty
    <3>2. \A n \in SeedNews : db.news[n] = v[n]
      BY <1>6 DEF Alone, Same, SameSeeds, ReadBy, NewsRead, UserOps, PortalOps
    <3>3. QED
      BY <3>1, <3>2 DEF News
  <2>2. /\ db'.report = db.report /\ db'.submitted = db.submitted
        /\ db'.news = [n \in News |-> IF n \in SeedNews THEN db.news[n] + 1 ELSE db.news[n]]
    BY <1>0, <1>6 DEF Alone, Written, NewsSeeded
  <2>3. QED
    BY <1>0, <2>1, <2>2 DEF News
<1>7. CASE op = "news_post"
  <2>1. j.item \in StaffNews
    BY <1>0, <1>7 DEF Jobs, PostJobs
  <2>2. /\ db'.report = db.report /\ db'.submitted = db.submitted
        /\ db'.news = [db.news EXCEPT ![j.item] = db.news[j.item] + 1]
    BY <1>0, <1>7 DEF Alone, Written, NewsPosted
  <2>3. QED
    BY <1>0, <2>1, <2>2 DEF News
<1>8. CASE op = "news_delete"
  <2>1. j.item \in News /\ db.news[j.item] > 0 /\ v = db.news[j.item]
    BY <1>0, <1>8 DEF Alone, Same, Jobs, DeleteJobs, Accepts, ReadBy, ItemExists, ItemRead,
                      UserOps, PortalOps
  <2>2. /\ db'.report = db.report /\ db'.submitted = db.submitted
        /\ db'.news = [db.news EXCEPT ![j.item] = db.news[j.item] - 1]
    BY <1>0, <1>8, <2>1 DEF Alone, Written, NewsDeleted
  <2>3. \A n \in SeedNews : db'.news[n] <= db.news[n] /\ db.news[n] \in Nat /\ db'.news[n] \in Int
    BY <1>0, <2>1, <2>2 DEF News
  <2>4. QED
    BY <1>0, <2>2, <2>3
<1>9. QED
  BY <1>3, <1>4, <1>5, <1>6, <1>7, <1>8 DEF RegisterOps

(* On a serializable database a report is submitted once and an empty news   *)
(* table is filled once, however many requests find it undone                *)
(* (submit_compliance_report, seed_default_news_if_empty).                   *)
THEOREM DoneOnce ==
    ASSUME Isolation = "serializable"
    PROVE  Spec => []OnceOnly
<1>1. Init => OnceOnly
  <2>1. /\ RegisterTables.report = [r \in Reports |-> "none"]
        /\ RegisterTables.submitted = [r \in Reports |-> 0]
        /\ RegisterTables.news = [n \in News |-> 0]
    BY DEF RegisterTables
  <2>2. QED
    BY <2>1, TheTables DEF RegisterColumns, Init, OnceOnly, SubmittedOnce, SeededOnce, News
<1>2. ASSUME WorkInv, RowsInv, OnceOnly, [Next]_vars
      PROVE  OnceOnly'
  <2>1. CASE db'.report = db.report /\ db'.submitted = db.submitted /\ db'.news = db.news
    BY <1>2, <2>1 DEF OnceOnly, SubmittedOnce, SeededOnce
  <2>2. ASSUME NEW op \in Ops, NEW j, NEW v, Alone(op, j, v)
        PROVE  OnceOnly'
    <3>1. CASE op \in RegisterOps
      BY <1>2, <2>2, <3>1, RegisterDone
    <3>2. CASE op \notin RegisterOps
      <4>1. WrittenBy(op) \cap RegisterColumns = {}
        BY <3>2 DEF WrittenBy, Ops, LedgerOps, StaffOps, UserOps, PortalOps, RegisterColumns
      <4>2. QED
        BY <1>2, <2>1, <2>2, <4>1, Frame DEF Alone, WorkInv, AllColumns, RegisterColumns
    <3>3. QED
      BY <3>1, <3>2
  <2>3. CASE Keeps(NoticeColumns \cup {"token"})
    BY <2>1, <2>3 DEF Keeps, AllColumns, RegisterColumns, NoticeColumns
  <2>4. QED
    BY <1>2, <2>2, <2>3, StepAlone
<1>3. QED
  BY RowsAreWellFormed, <1>1, <1>2, PTL DEF Spec

\* the lines of the entries up to a day, each with its place
LinesTo(day) ==
    {x \in UNION {{i} \X DOMAIN db.entries[i].lines : i \in DOMAIN db.entries} :
        db.entries[x[1]].date \in 0 .. day}

\* what a line says
LineAt(x)    == db.entries[x[1]].lines[x[2]]
AccountAt(x) == LineAt(x).account

\* debits, credits, and the debits less the credits, of the lines of S
DebitsOf(S)  == [x \in S |-> LineAt(x).debit]
CreditsOf(S) == [x \in S |-> LineAt(x).credit]
NetOf(S)     == [x \in S |-> LineAt(x).debit - LineAt(x).credit]

(* The lines are finitely many, and well formed.                             *)
LEMMA LinesTyped ==
    ASSUME LedgerRows(db), NEW day
    PROVE  /\ IsFiniteSet(LinesTo(day)) /\ IsFiniteSet(DOMAIN db.entries)
           /\ \A x \in LinesTo(day) :
                 /\ x[1] \in DOMAIN db.entries /\ x[2] \in DOMAIN db.entries[x[1]].lines
                 /\ x = <<x[1], x[2]>>
                 /\ LineAt(x).debit \in Int /\ LineAt(x).credit \in Int
                 /\ AccountAt(x) \in db.chart
           /\ \A i \in DOMAIN db.entries :
                 /\ db.entries[i] \in EntryRows(db.chart)
                 /\ IsFiniteSet(DOMAIN db.entries[i].lines)
                 /\ \A k \in DOMAIN db.entries[i].lines : db.entries[i].lines[k] \in Lines(db.chart)
<1>1. IsFiniteSet(DOMAIN db.entries)
  <2>1. DOMAIN db.entries = 1 .. Len(db.entries) /\ Len(db.entries) \in Nat
    BY DEF LedgerRows
  <2>2. QED
    BY <2>1, FS_Interval
<1>2. ASSUME NEW i \in DOMAIN db.entries
      PROVE  /\ db.entries[i] \in EntryRows(db.chart)
             /\ IsFiniteSet(DOMAIN db.entries[i].lines)
             /\ \A k \in DOMAIN db.entries[i].lines : db.entries[i].lines[k] \in Lines(db.chart)
  <2>1. db.entries[i] \in EntryRows(db.chart)
    BY <1>2 DEF LedgerRows
  <2>2. db.entries[i].lines \in Seq(Lines(db.chart))
    BY <2>1 DEF EntryRows
  <2> DEFINE ls == db.entries[i].lines
  <2> HIDE DEF ls
  <2>3. ls \in Seq(Lines(db.chart))
    BY <2>2 DEF ls
  <2>4. DOMAIN ls = 1 .. Len(ls) /\ Len(ls) \in Nat /\ \A k \in DOMAIN ls : ls[k] \in Lines(db.chart)
    BY <2>3
  <2>5. IsFiniteSet(DOMAIN ls)
    BY <2>4, FS_Interval
  <2>6. QED
    BY <2>1, <2>4, <2>5 DEF ls
<1>3. ASSUME NEW x \in LinesTo(day)
      PROVE  /\ x[1] \in DOMAIN db.entries /\ x[2] \in DOMAIN db.entries[x[1]].lines
             /\ x = <<x[1], x[2]>>
             /\ LineAt(x).debit \in Int /\ LineAt(x).credit \in Int
             /\ AccountAt(x) \in db.chart
  <2>1. PICK i \in DOMAIN db.entries : x \in {i} \X DOMAIN db.entries[i].lines
    BY <1>3 DEF LinesTo
  <2>2. /\ x[1] \in DOMAIN db.entries /\ x[2] \in DOMAIN db.entries[x[1]].lines
        /\ x = <<x[1], x[2]>>
    BY <2>1
  <2>3. LineAt(x) \in Lines(db.chart)
    BY <1>2, <2>2 DEF LineAt
  <2>4. QED
    BY <2>2, <2>3 DEF Lines, AccountAt
<1>4. IsFiniteSet(LinesTo(day))
  <2> DEFINE P(i) == {i} \X DOMAIN db.entries[i].lines
             U == {P(i) : i \in DOMAIN db.entries}
  <2>1. \A i \in DOMAIN db.entries : IsFiniteSet(P(i))
    <3>1. TAKE i \in DOMAIN db.entries
    <3>2. IsFiniteSet({i})
      BY FS_Singleton
    <3>3. QED
      BY <1>2, <3>2, FS_Product
  <2> HIDE DEF P
  <2>2. IsFiniteSet(U)
    <3> DEFINE f == [i \in DOMAIN db.entries |-> P(i)]
    <3>1. f \in Surjection(DOMAIN db.entries, U)
      BY DEF Surjection
    <3> HIDE DEF f, U
    <3>2. QED
      BY <1>1, <3>1, FS_Surjection
  <2>3. \A T \in U : IsFiniteSet(T)
    BY <2>1
  <2> HIDE DEF U
  <2>4. IsFiniteSet(UNION U)
    BY <2>2, <2>3, FS_UNION
  <2>5. LinesTo(day) \subseteq UNION U
    BY DEF LinesTo, U, P
  <2>6. QED
    BY <2>4, <2>5, FS_Subset
<1>5. QED
  BY <1>1, <1>2, <1>3, <1>4

-----------------------------------------------------------------------------
(* The reports computed from the journal.                                   *)

\* what the lines up to a day leave on each account, and on each type of account
Posted(day) == [a \in db.chart |->
                   SumFunctionOnSet(NetOf(LinesTo(day)), {x \in LinesTo(day) : AccountAt(x) = a})]
Held(day)   == [t \in ReportedTypes |->
                   SumFunctionOnSet(Posted(day), {a \in db.chart : TypeOf[a] = t})]

(* What is posted to an account is its debits less its credits.              *)
LEMMA PostedIs ==
    ASSUME LedgerRows(db), NEW day, NEW a \in db.chart
    PROVE  LET debit  == SumFunction([x \in LinesOf(a, 0, day) |->
                                         db.entries[x[1]].lines[x[2]].debit])
               credit == SumFunction([x \in LinesOf(a, 0, day) |->
                                         db.entries[x[1]].lines[x[2]].credit])
           IN  /\ debit \in Int /\ credit \in Int
               /\ Posted(day)[a] = debit - credit
               /\ Posted(day)[a] =
                    SumFunction([x \in LinesOf(a, 0, day) |->
                        db.entries[x[1]].lines[x[2]].debit - db.entries[x[1]].lines[x[2]].credit])
<1> DEFINE S == {x \in LinesTo(day) : AccountAt(x) = a}
           D == [x \in S |-> LineAt(x).debit]
           C == [x \in S |-> LineAt(x).credit]
           M == [x \in S |-> LineAt(x).debit - LineAt(x).credit]
           N == NetOf(LinesTo(day))
<1>1. LinesOf(a, 0, day) = S
  BY DEF LinesOf, LinesTo, AccountAt, LineAt
<1>2. /\ IsFiniteSet(LinesTo(day))
      /\ \A x \in LinesTo(day) : LineAt(x).debit \in Int /\ LineAt(x).credit \in Int
  BY LinesTyped
<1>3. S \subseteq LinesTo(day)
  OBVIOUS
<1>4. IsFiniteSet(S)
  BY <1>2, <1>3, FS_Subset
<1>5. \A x \in S : D[x] \in Int /\ C[x] \in Int /\ N[x] \in Int /\ D[x] = C[x] + N[x]
  <2>1. TAKE x \in S
  <2>2. N[x] = LineAt(x).debit - LineAt(x).credit
    BY DEF NetOf
  <2>3. D[x] = LineAt(x).debit /\ C[x] = LineAt(x).credit
    OBVIOUS
  <2>4. LineAt(x).debit \in Int /\ LineAt(x).credit \in Int
    BY <1>2
  <2> HIDE DEF N, D, C
  <2>5. QED
    BY <2>2, <2>3, <2>4
<1>6. [x \in LinesOf(a, 0, day) |-> db.entries[x[1]].lines[x[2]].debit] = D
  BY <1>1 DEF LineAt
<1>7. [x \in LinesOf(a, 0, day) |-> db.entries[x[1]].lines[x[2]].credit] = C
  BY <1>1 DEF LineAt
<1>15. /\ [x \in LinesOf(a, 0, day) |->
            db.entries[x[1]].lines[x[2]].debit - db.entries[x[1]].lines[x[2]].credit] = M
       /\ DOMAIN M = S /\ \A x \in S : M[x] = N[x]
  BY <1>1 DEF LineAt, NetOf
<1>8. DOMAIN D = S /\ DOMAIN C = S
  OBVIOUS
<1>9. Posted(day)[a] = SumFunctionOnSet(N, S)
  BY DEF Posted
<1> HIDE DEF S, D, C, M, N
<1>10. SumFunctionOnSet(D, S) = SumFunctionOnSet(C, S) + SumFunctionOnSet(N, S)
  BY <1>4, <1>5, SumPlus
<1>11. /\ SumFunctionOnSet(D, S) \in Int
       /\ SumFunctionOnSet(C, S) \in Int
       /\ SumFunctionOnSet(N, S) \in Int
  BY <1>4, <1>5, SumTerms
<1>12. SumFunction(D) = SumFunctionOnSet(D, S) /\ SumFunction(C) = SumFunctionOnSet(C, S)
  BY <1>8 DEF SumFunction
<1>13. /\ SumFunction(D) \in Int /\ SumFunction(C) \in Int
       /\ Posted(day)[a] = SumFunction(D) - SumFunction(C)
  BY <1>9, <1>10, <1>11, <1>12
<1>16. Posted(day)[a] = SumFunction(M)
  <2>1. SumFunctionOnSet(N, S) = SumFunctionOnSet(M, S)
    BY <1>4, <1>5, <1>15, SumSame
  <2>2. QED
    BY <1>9, <1>15, <2>1 DEF SumFunction
<1>14. QED
  BY <1>6, <1>7, <1>13, <1>15, <1>16

(* The report's total of a type is what is held, on the side of its balance. *)
LEMMA TotalIsHeld ==
    ASSUME LedgerRows(db), NEW day, NEW t \in ReportedTypes
    PROVE  /\ Held(day)[t] \in Int
           /\ TotalOf(t, 0, day) = IF t \in DebitNormal THEN Held(day)[t] ELSE -Held(day)[t]
<1> DEFINE debit(a)  == SumFunction([x \in LinesOf(a, 0, day) |->
                                       db.entries[x[1]].lines[x[2]].debit])
           credit(a) == SumFunction([x \in LinesOf(a, 0, day) |->
                                       db.entries[x[1]].lines[x[2]].credit])
           S == {a \in db.chart : TypeOf[a] = t}
           B == [a \in S |-> Balance(a, debit(a), credit(a))]
           P == Posted(day)
<1>1. \A a \in S : debit(a) \in Int /\ credit(a) \in Int /\ P[a] = debit(a) - credit(a)
  BY PostedIs
<1>2. TotalOf(t, 0, day) = SumFunction(B)
  BY DEF TotalOf
<1>3. DOMAIN B = S /\ \A a \in S : B[a] = Balance(a, debit(a), credit(a)) /\ TypeOf[a] = t
  OBVIOUS
<1>4. IsFiniteSet(S)
  <2>1. IsFiniteSet(db.chart) /\ S \subseteq db.chart
    BY DEF LedgerRows
  <2>2. QED
    BY <2>1, FS_Subset
<1>5. Held(day)[t] = SumFunctionOnSet(P, S)
  BY DEF Held
<1> HIDE DEF debit, credit, S, B, P
<1>6. \A a \in S : P[a] \in Int
  BY <1>1
<1>7. SumFunctionOnSet(P, S) \in Int
  BY <1>4, <1>6, SumTerms
<1>8. SumFunction(B) = SumFunctionOnSet(B, S)
  BY <1>3 DEF SumFunction
<1>9. CASE t \in DebitNormal
  <2>1. \A a \in S : P[a] \in Int /\ P[a] = B[a]
    BY <1>1, <1>3, <1>9 DEF Balance
  <2>2. SumFunctionOnSet(P, S) = SumFunctionOnSet(B, S)
    BY <1>4, <2>1, SumSame
  <2>3. QED
    BY <1>2, <1>5, <1>7, <1>8, <1>9, <2>2
<1>10. CASE t \notin DebitNormal
  <2>1. \A a \in S : P[a] \in Int /\ B[a] = -P[a]
    BY <1>1, <1>3, <1>10 DEF Balance
  <2>2. SumFunctionOnSet(B, S) = -SumFunctionOnSet(P, S)
    BY <1>4, <2>1, SumMinus
  <2>3. QED
    BY <1>2, <1>5, <1>7, <1>8, <1>10, <2>2
<1>11. QED
  BY <1>9, <1>10

(* The lines of one entry leave what it is out by, from its day on.          *)
LEMMA EntryLeaves ==
    ASSUME LedgerRows(db), NEW day, NEW i \in DOMAIN db.entries
    PROVE  /\ OutBy(db.entries[i].lines) \in Int
           /\ SumFunctionOnSet(NetOf(LinesTo(day)), {x \in LinesTo(day) : x[1] = i}) =
                 IF db.entries[i].date \in 0 .. day THEN OutBy(db.entries[i].lines) ELSE 0
<1> DEFINE X == LinesTo(day)
           S == {x \in X : x[1] = i}
           N == NetOf(X)
           ls == db.entries[i].lines
           K == DOMAIN ls
           d == [k \in K |-> ls[k].debit]
           c == [k \in K |-> ls[k].credit]
           n == [k \in K |-> ls[k].debit - ls[k].credit]
<1>1. /\ IsFiniteSet(K)
      /\ \A k \in K : ls[k].debit \in Int /\ ls[k].credit \in Int
  BY LinesTyped DEF Lines
<1>2. \A k \in K : d[k] \in Int /\ c[k] \in Int /\ n[k] \in Int /\ d[k] = c[k] + n[k]
  <2>1. TAKE k \in K
  <2>2. ls[k].debit \in Int /\ ls[k].credit \in Int
    BY <1>1
  <2>3. d[k] = ls[k].debit /\ c[k] = ls[k].credit /\ n[k] = ls[k].debit - ls[k].credit
    OBVIOUS
  <2> HIDE DEF d, c, n, ls
  <2>4. QED
    BY <2>2, <2>3
<1>3. OutBy(ls) = SumFunctionOnSet(d, K) - SumFunctionOnSet(c, K)
  BY DEF OutBy, TotalDebit, TotalCredit, SumFunction
<1>4. OutBy(ls) \in Int /\ OutBy(ls) = SumFunctionOnSet(n, K)
  <2> HIDE DEF d, c, n, K, ls
  <2>1. SumFunctionOnSet(d, K) = SumFunctionOnSet(c, K) + SumFunctionOnSet(n, K)
    BY <1>1, <1>2, SumPlus
  <2>2. SumFunctionOnSet(d, K) \in Int
    BY <1>1, <1>2, SumTerms
  <2>3. SumFunctionOnSet(c, K) \in Int
    BY <1>1, <1>2, SumTerms
  <2>4. SumFunctionOnSet(n, K) \in Int
    BY <1>1, <1>2, SumTerms
  <2>5. QED
    BY <1>3, <2>1, <2>2, <2>3, <2>4
<1>5. CASE db.entries[i].date \in 0 .. day
  <2> DEFINE at == [k \in K |-> <<i, k>>]
  <2>1. \A x \in S : x = <<i, x[2]>> /\ x[2] \in K
    BY LinesTyped
  <2>2. \A k \in K : at[k] \in S
    BY <1>5 DEF LinesTo
  <2>3. (\A k, l \in K : at[k] = at[l] => k = l) /\ S = {at[k] : k \in K}
    <3>1. \A k, l \in K : at[k] = at[l] => k = l
      OBVIOUS
    <3>2. S \subseteq {at[k] : k \in K}
      BY <2>1
    <3>3. QED
      BY <2>2, <3>1, <3>2
  <2>4. \A k \in K : N[at[k]] = n[k]
    <3>1. TAKE k \in K
    <3>2. at[k] \in S
      BY <2>2
    <3>3. N[at[k]] = LineAt(at[k]).debit - LineAt(at[k]).credit
      BY <3>2 DEF NetOf
    <3>4. QED
      BY <3>3 DEF LineAt
  <2> HIDE DEF d, c, n, at, K, S, N
  <2>5. SumFunctionOnSet(N, S) = SumFunctionOnSet(n, K)
    BY <1>1, <1>2, <2>3, <2>4, SumRenamed
  <2>6. QED
    BY <1>4, <1>5, <2>5 DEF N, S
<1>6. CASE db.entries[i].date \notin 0 .. day
  <2>1. S = {}
    BY <1>6 DEF LinesTo
  <2>2. SumFunctionOnSet(N, S) = 0
    BY <2>1, SumEmpty
  <2> HIDE DEF d, c, n, K, S, N
  <2>3. QED
    BY <1>4, <1>6, <2>2 DEF N, S
<1>7. QED
  BY <1>5, <1>6

\* the entries up to a day
EntriesTo(day) == {i \in DOMAIN db.entries : db.entries[i].date \in 0 .. day}

(* All the lines together leave what the entries are out by.                 *)
LEMMA AllLinesLeave ==
    ASSUME LedgerRows(db), NEW day
    PROVE  /\ SumFunctionOnSet(NetOf(LinesTo(day)), LinesTo(day)) \in Int
           /\ SumFunctionOnSet(NetOf(LinesTo(day)), LinesTo(day)) =
                 SumFunction([i \in EntriesTo(day) |-> OutBy(db.entries[i].lines)])
<1> DEFINE X == LinesTo(day)
           N == NetOf(X)
           E == DOMAIN db.entries
           T == EntriesTo(day)
           key == [x \in X |-> x[1]]
           left == [i \in E |-> SumFunctionOnSet(N, {x \in X : key[x] = i})]
           out == [i \in T |-> OutBy(db.entries[i].lines)]
<1>1. IsFiniteSet(X) /\ IsFiniteSet(E) /\ \A x \in X : N[x] \in Int /\ key[x] \in E
  BY LinesTyped DEF NetOf
<1>2. T \in SUBSET E /\ \A i \in E : i \in T <=> db.entries[i].date \in 0 .. day
  BY DEF EntriesTo
<1>3. \A i \in E : /\ left[i] = IF i \in T THEN OutBy(db.entries[i].lines) ELSE 0
                  /\ OutBy(db.entries[i].lines) \in Int
  <2>1. TAKE i \in E
  <2>2. {x \in X : key[x] = i} = {x \in X : x[1] = i}
    OBVIOUS
  <2>3. left[i] = SumFunctionOnSet(N, {x \in X : x[1] = i})
    BY <2>2
  <2>4. /\ OutBy(db.entries[i].lines) \in Int
        /\ SumFunctionOnSet(N, {x \in X : x[1] = i}) =
              IF db.entries[i].date \in 0 .. day THEN OutBy(db.entries[i].lines) ELSE 0
    BY EntryLeaves
  <2> HIDE DEF X, N, left, T
  <2>5. QED
    BY <1>2, <2>3, <2>4
<1>4. \A i \in T : out[i] = OutBy(db.entries[i].lines)
  OBVIOUS
<1>5. DOMAIN out = T
  OBVIOUS
<1>6. SumFunctionOnSet(N, X) = SumFunctionOnSet(left, E)
  <2> HIDE DEF X, N, E, key
  <2>1. QED
    BY <1>1, SumByKey
<1>7. SumFunctionOnSet(N, X) \in Int
  <2> HIDE DEF X, N
  <2>1. QED
    BY <1>1, SumTerms
<1> HIDE DEF left, E, T, out
<1>8. \A i \in E : left[i] \in Int
  BY <1>3
<1>9. \A i \in E \ T : left[i] = 0
  BY <1>3
<1>10. SumFunctionOnSet(left, E) = SumFunctionOnSet(left, T)
  BY <1>1, <1>2, <1>8, <1>9, SumSupport
<1>11. IsFiniteSet(T) /\ \A i \in T : left[i] \in Int /\ left[i] = out[i]
  <2>1. IsFiniteSet(T)
    BY <1>1, <1>2, FS_Subset
  <2>2. \A i \in T : left[i] \in Int /\ left[i] = out[i]
    BY <1>2, <1>3, <1>4
  <2>3. QED
    BY <2>1, <2>2
<1>12. SumFunctionOnSet(left, T) = SumFunctionOnSet(out, T)
  BY <1>11, SumSame
<1>13. SumFunctionOnSet(N, X) = SumFunction(out)
  BY <1>5, <1>6, <1>10, <1>12 DEF SumFunction
<1>14. QED
  BY <1>7, <1>13 DEF out, T

(* The accounts, those of a reported type and the others, add up to it.      *)
LEMMA HeldInAll ==
    ASSUME LedgerRows(db), NEW day
    PROVE  /\ Unreported(day) \in Int
           /\ SumFunctionOnSet(Held(day), ReportedTypes) + Unreported(day) =
                 SumFunction([i \in EntriesTo(day) |-> OutBy(db.entries[i].lines)])
<1> DEFINE X == LinesTo(day)
           N == NetOf(X)
           A == db.chart
           key == [x \in X |-> AccountAt(x)]
           P == [a \in A |-> SumFunctionOnSet(N, {x \in X : key[x] = a})]
           R == {a \in A : TypeOf[a] \in ReportedTypes}
           U == {a \in A : TypeOf[a] \notin ReportedTypes}
           Sum(T) == SumFunctionOnSet(P, T)
<1>1. IsFiniteSet(X) /\ \A x \in X : N[x] \in Int /\ key[x] \in A
  BY LinesTyped DEF NetOf
<1>2. IsFiniteSet(A)
  BY DEF LedgerRows
<1>3. P = Posted(day)
  <2>1. \A a \in A : {x \in X : key[x] = a} = {x \in X : AccountAt(x) = a}
    OBVIOUS
  <2>2. QED
    BY <2>1 DEF Posted
<1>4. SumFunctionOnSet(N, X) = Sum(A)
  <2> HIDE DEF X, N, A, key
  <2>1. QED
    BY <1>1, <1>2, SumByKey
<1>5. Sum(A) = SumFunction([i \in EntriesTo(day) |-> OutBy(db.entries[i].lines)])
  BY <1>4, AllLinesLeave
<1>6. \A a \in A : P[a] \in Int
  <2>1. TAKE a \in A
  <2>2. {x \in X : key[x] = a} \subseteq X
    OBVIOUS
  <2> DEFINE G == {x \in X : key[x] = a}
  <2>3. P[a] = SumFunctionOnSet(N, G)
    OBVIOUS
  <2> HIDE DEF X, N, key, G, P
  <2>4. IsFiniteSet(G) /\ \A x \in G : N[x] \in Int
    <3>1. G \subseteq X
      BY <2>2 DEF G
    <3>2. QED
      BY <1>1, <3>1, FS_Subset
  <2>5. QED
    BY <2>3, <2>4, SumTerms
<1>7. IsFiniteSet(ReportedTypes)
  <2>1. ReportedTypes = {"asset", "expense"} \cup {"liability"} \cup {"equity", "income"}
    BY DEF ReportedTypes, DebitNormal, CreditNormal
  <2>2. \A x, y : IsFiniteSet({x, y})
    <3>1. TAKE x, y
    <3>2. IsFiniteSet({x}) /\ {x, y} = {x} \cup {y}
      BY FS_Singleton
    <3>3. QED
      BY <3>2, FS_AddElement
  <2>3. IsFiniteSet({"asset", "expense"} \cup {"liability"})
    BY <2>2, FS_AddElement
  <2>4. QED
    BY <2>1, <2>2, <2>3, FS_Union
<1>8. R \cup U = A /\ R \cap U = {} /\ \A a \in R : TypeOf[a] \in ReportedTypes
  OBVIOUS
<1>9. IsFiniteSet(R) /\ IsFiniteSet(U)
  BY <1>2, <1>8, FS_Subset
<1>10. \A t \in ReportedTypes : {a \in R : TypeOf[a] = t} = {a \in A : TypeOf[a] = t}
  OBVIOUS
<1>11. Sum(R) = SumFunctionOnSet(Held(day), ReportedTypes)
  <2> DEFINE H == [t \in ReportedTypes |-> SumFunctionOnSet(P, {a \in R : TypeOf[a] = t})]
  <2>1. H = Held(day)
    BY <1>3, <1>10 DEF Held
  <2>2. \A a \in R : P[a] \in Int
    BY <1>6, <1>8
  <2> HIDE DEF P, A, R
  <2>3. SumFunctionOnSet(P, R) = SumFunctionOnSet(H, ReportedTypes)
    BY <1>7, <1>8, <1>9, <2>2, SumByKey
  <2>4. QED
    BY <2>1, <2>3
<1>12. Sum(U) = Unreported(day)
  <2> DEFINE V == [a \in U |-> SumFunction([x \in LinesOf(a, 0, day) |->
                      db.entries[x[1]].lines[x[2]].debit - db.entries[x[1]].lines[x[2]].credit])]
  <2>1. Unreported(day) = SumFunction(V) /\ DOMAIN V = U
    BY DEF Unreported
  <2>2. \A a \in U : P[a] \in Int /\ P[a] = V[a]
    <3>1. TAKE a \in U
    <3>2. a \in A
      OBVIOUS
    <3>3. Posted(day)[a] = V[a]
      BY <3>2, PostedIs
    <3> HIDE DEF P, V
    <3>4. QED
      BY <1>3, <1>6, <3>2, <3>3
  <2> HIDE DEF P, V, U
  <2>3. SumFunctionOnSet(P, U) = SumFunctionOnSet(V, U)
    BY <1>9, <2>2, SumSame
  <2>4. QED
    BY <2>1, <2>3 DEF SumFunction
<1> HIDE DEF P, R, U, A
<1>13. \A a \in R \cup U : P[a] \in Int
  BY <1>6, <1>8
<1>14. Sum(R \cup U) = Sum(R) + Sum(U)
  BY <1>8, <1>9, <1>13, SumUnion
<1>15. Sum(U) \in Int
  <2>1. \A a \in U : P[a] \in Int
    BY <1>13
  <2>2. QED
    BY <1>9, <2>1, SumTerms
<1>16. QED
  BY <1>5, <1>8, <1>11, <1>12, <1>14, <1>15

(* The sum over the five types of accounts.                                  *)
LEMMA SumOfTypes ==
    ASSUME NEW h, \A t \in ReportedTypes : h[t] \in Int
    PROVE  SumFunctionOnSet(h, ReportedTypes) =
             h["asset"] + h["expense"] + h["liability"] + h["equity"] + h["income"]
<1> DEFINE S(T) == SumFunctionOnSet(h, T)
<1>1. IsFiniteSet({"asset"}) /\ IsFiniteSet({}) /\ S({}) = 0
  BY FS_Singleton, FS_EmptySet, SumEmpty
<1>2. h["asset"] \in Int /\ h["expense"] \in Int /\ h["liability"] \in Int
      /\ h["equity"] \in Int /\ h["income"] \in Int
  BY DEF ReportedTypes, DebitNormal, CreditNormal
<1> DEFINE A == {"asset"}
           B == A \cup {"expense"}
           C == B \cup {"liability"}
           D == C \cup {"equity"}
           E == D \cup {"income"}
<1>3. ReportedTypes = E
  BY DEF ReportedTypes, DebitNormal, CreditNormal
<1>4. IsFiniteSet(A) /\ IsFiniteSet(B) /\ IsFiniteSet(C) /\ IsFiniteSet(D)
  BY <1>1, FS_AddElement
<1>5. "expense" \notin A /\ "liability" \notin B /\ "equity" \notin C /\ "income" \notin D
  OBVIOUS
<1>6. /\ \A t \in B : h[t] \in Int
      /\ \A t \in C : h[t] \in Int
      /\ \A t \in D : h[t] \in Int
      /\ \A t \in E : h[t] \in Int
  BY <1>2
<1>7. S(A) = h["asset"]
  <2>1. {} \cup A = A /\ \A t \in {} \cup A : h[t] \in Int
    BY <1>2
  <2>2. S({} \cup A) = h["asset"] + S({})
    BY <1>1, <2>1, SumAdd
  <2>3. QED
    BY <1>1, <1>2, <2>1, <2>2
<1> HIDE DEF S
<1>8. S(B) = h["expense"] + S(A)
  BY <1>4, <1>5, <1>6, SumAdd DEF S
<1>9. S(C) = h["liability"] + S(B)
  BY <1>4, <1>5, <1>6, SumAdd DEF S
<1>10. S(D) = h["equity"] + S(C)
  BY <1>4, <1>5, <1>6, SumAdd DEF S
<1>11. S(E) = h["income"] + S(D)
  BY <1>4, <1>5, <1>6, SumAdd DEF S
<1>12. S(E) = SumFunctionOnSet(h, ReportedTypes)
  BY <1>3 DEF S
<1> HIDE DEF A, B, C, D, E
<1>13. QED
  BY <1>2, <1>7, <1>8, <1>9, <1>10, <1>11, <1>12

(* Well-formed tables make books that agree: what one entry leaves on the    *)
(* accounts is what it is out by, so what all of them leave on the five      *)
(* types of accounts and on the others is that of all of them, and the       *)
(* reports show each of the five types on its own side.                      *)
LEMMA RowsAgree ==
    ASSUME LedgerRows(db)
    PROVE  BooksAgree
<1>1. TrialBalances
  BY LinesTyped DEF TrialBalances, EntryRows
<1>2. ASSUME NEW day \in 0 .. now
      PROVE  LET sheet == BalanceSheet(day) IN
             sheet["asset"] - sheet["liability"] - sheet["equity"] - NetSurplus(0, day)
                + Unreported(day)
             = SumFunction([i \in EntriesTo(day) |-> OutBy(db.entries[i].lines)])
  <2> DEFINE h == Held(day)
             T(t) == TotalOf(t, 0, day)
             out == SumFunction([i \in EntriesTo(day) |-> OutBy(db.entries[i].lines)])
  <2>1. \A t \in ReportedTypes : h[t] \in Int
    BY TotalIsHeld
  <2>2. /\ T("asset") = h["asset"] /\ T("expense") = h["expense"]
        /\ T("liability") = -h["liability"] /\ T("equity") = -h["equity"]
        /\ T("income") = -h["income"]
    BY TotalIsHeld DEF ReportedTypes, DebitNormal, CreditNormal
  <2> HIDE DEF h
  <2>3. SumFunctionOnSet(h, ReportedTypes) =
          h["asset"] + h["expense"] + h["liability"] + h["equity"] + h["income"]
    BY <2>1, SumOfTypes
  <2>4. /\ SumFunctionOnSet(h, ReportedTypes) + Unreported(day) = out
        /\ Unreported(day) \in Int
    BY HeldInAll DEF h
  <2>5. /\ BalanceSheet(day)["asset"] = T("asset")
        /\ BalanceSheet(day)["liability"] = T("liability")
        /\ BalanceSheet(day)["equity"] = T("equity")
    BY DEF BalanceSheet
  <2>6. NetSurplus(0, day) = T("income") - T("expense")
    BY DEF NetSurplus
  <2>7. /\ h["asset"] \in Int /\ h["expense"] \in Int /\ h["liability"] \in Int
        /\ h["equity"] \in Int /\ h["income"] \in Int
    BY <2>1 DEF ReportedTypes, DebitNormal, CreditNormal
  <2> HIDE DEF T, out
  <2>8. BalanceSheet(day)["asset"] - BalanceSheet(day)["liability"] - BalanceSheet(day)["equity"]
           - NetSurplus(0, day) + Unreported(day) = out
    BY <2>2, <2>3, <2>4, <2>5, <2>6, <2>7
  <2>9. QED
    BY <2>8 DEF out
<1>3. ReportsAgree
  BY <1>2 DEF ReportsAgree, EntriesTo
<1>4. QED
  BY <1>1, <1>3 DEF BooksAgree

(* The books agree in every state, whatever is posted, by whom and at what   *)
(* isolation: an entry is out by a cent a line at most (post_journal_entry   *)
(* checks amounts that the columns round), and the balance sheet of every    *)
(* day and the surplus up to it are out by what the entries are and by the   *)
(* accounts of a type that no report asks for (get_balance_sheet,            *)
(* get_income_statement).                                                    *)
THEOREM BooksAlwaysAgree == Spec => []BooksAgree
<1>1. Spec => [](WorkInv /\ RowsInv)
  BY RowsAreWellFormed
<1>2. RowsInv => BooksAgree
  BY RowsAgree DEF RowsInv
<1>3. QED
  BY <1>1, <1>2, PTL

-----------------------------------------------------------------------------
(* The payroll, once in the ledger and whole.                               *)

(* The debits of the entry of a payslip are its gross pay and what the       *)
(* employer adds to it.                                                      *)
LEMMA PayrollDebits ==
    ASSUME NEW slip \in Slips, NEW gl
    PROVE  TotalDebit(Stored(PayrollLines(slip, gl))) = slip.gross + slip.nssf_employer
<1> DEFINE ls == PayrollLines(slip, gl)
           l6 == Line(LoanAccountOf[slip.employee], 0, slip.deduction)
           five == <<Line(gl["salaries"], 10 * slip.gross, 0),
                     Line(gl["nssf_expense"], 10 * slip.nssf_employer, 0),
                     Line(gl["paye_payable"], 0, 10 * slip.paye),
                     Line(gl["nssf_payable"], 0, 10 * (slip.nssf_employee + slip.nssf_employer)),
                     Line(gl["cash"], 0, slip.net)>>
           rest == IF slip.deducts THEN <<l6>> ELSE <<>>
           st == Stored(ls)
           f == [i \in DOMAIN st |-> st[i].debit]
           n == Len(ls)
<1>1. ls = five \o rest
  BY DEF PayrollLines
<1>2. slip.gross \in Int /\ slip.nssf_employer \in Int
  BY DEF Slips
<1>3. /\ five[1].debit = 10 * slip.gross /\ five[2].debit = 10 * slip.nssf_employer
      /\ five[3].debit = 0 /\ five[4].debit = 0 /\ five[5].debit = 0
      /\ Len(five) = 5 /\ \A i \in 1 .. 5 : five[i] = five[i]
  BY DEF Line
<1>4. \/ rest = <<>>
      \/ rest = <<l6>>
  OBVIOUS
<1>5. /\ Len(rest) \in {0, 1} /\ \A i \in 1 .. Len(rest) : rest[i].debit = 0
  BY <1>4 DEF Line
<1>6. five \in Seq({five[1], five[2], five[3], five[4], five[5]})
  OBVIOUS
<1>7. \E R : rest \in Seq(R)
  <2>1. rest = <<>> \/ rest = <<l6>>
    BY <1>4
  <2> HIDE DEF rest, l6
  <2>2. <<l6>> \in Seq({l6}) /\ <<>> \in Seq({l6})
    OBVIOUS
  <2>4. rest \in Seq({l6})
    BY <2>1, <2>2
  <2>3. QED
    BY <2>4
<1> HIDE DEF five, rest, ls, n
<1>8. /\ n = 5 + Len(rest) /\ DOMAIN ls = 1 .. n
      /\ \A i \in 1 .. 5 : ls[i] = five[i]
      /\ \A i \in 6 .. n : ls[i] = rest[i - 5]
  <2>1. PICK R : rest \in Seq(R)
    BY <1>7
  <2>2. \E F : five \in Seq(F) /\ rest \in Seq(F)
    <3>1. five \in Seq({five[1], five[2], five[3], five[4], five[5]} \cup R)
      BY <1>6
    <3>2. rest \in Seq({five[1], five[2], five[3], five[4], five[5]} \cup R)
      BY <2>1
    <3>3. QED
      BY <3>1, <3>2
  <2>3. PICK F : five \in Seq(F) /\ rest \in Seq(F)
    BY <2>2
  <2>8. /\ five \o rest \in Seq(F) /\ Len(five \o rest) = Len(five) + Len(rest)
        /\ \A i \in 1 .. Len(five) : (five \o rest)[i] = five[i]
        /\ \A i \in Len(five) + 1 .. Len(five) + Len(rest) : (five \o rest)[i] = rest[i - Len(five)]
    BY ONLY <2>3, Joined, Zenon
  <2>4. five \o rest \in Seq(F) /\ Len(five \o rest) = 5 + Len(rest)
    BY <1>3, <2>8
  <2>5. DOMAIN ls = 1 .. n
    BY <1>1, <2>4 DEF n
  <2>6. /\ \A i \in 1 .. 5 : (five \o rest)[i] = five[i]
        /\ \A i \in 6 .. 5 + Len(rest) : (five \o rest)[i] = rest[i - 5]
    BY <1>3, <2>8
  <2>7. QED
    BY <1>1, <2>4, <2>5, <2>6 DEF n
<1>9. n \in {5, 6}
  BY <1>5, <1>8
<1>9a. /\ DOMAIN st = 1 .. n
       /\ \A i \in 1 .. n : f[i] = Cents(ls[i].debit)
  <2> HIDE DEF ls, n
  <2>1. QED
    BY <1>8 DEF Stored, Line
<1> HIDE DEF st, l6
<1>9b. Cents(0) = 0 /\ Cents(10 * slip.gross) = slip.gross
       /\ Cents(10 * slip.nssf_employer) = slip.nssf_employer
  BY <1>2, CentsExact DEF Cents
<1>10. /\ f[1] = slip.gross /\ f[2] = slip.nssf_employer /\ \A i \in 3 .. n : f[i] = 0
  <2>1. 1 \in 1 .. n /\ 2 \in 1 .. n /\ 1 \in 1 .. 5 /\ 2 \in 1 .. 5
    BY <1>9
  <2>2. f[1] = Cents(five[1].debit) /\ f[2] = Cents(five[2].debit)
    BY <1>8, <1>9a, <2>1
  <2>3. ASSUME NEW i \in 3 .. n
        PROVE  f[i] = 0
    <3>0. f[i] = Cents(ls[i].debit)
      BY <1>9, <1>9a
    <3>1. CASE i \in 3 .. 5
      <4>1. ls[i].debit = five[i].debit
        BY <1>8, <3>1
      <4>2. five[i].debit = 0
        BY <1>3, <3>1
      <4>3. QED
        BY <1>9b, <3>0, <4>1, <4>2
    <3>2. CASE i \notin 3 .. 5
      <4>1. n = 6 /\ i = 6 /\ Len(rest) = 1
        BY <1>8, <1>9, <1>5, <3>2
      <4>2. ls[i].debit = rest[1].debit
        BY <1>8, <4>1
      <4>3. QED
        BY <1>5, <1>9b, <3>0, <4>1, <4>2
    <3>3. QED
      BY <3>1, <3>2
  <2>4. QED
    BY <1>3, <1>9b, <2>2, <2>3
<1>11. TotalDebit(st) = SumFunctionOnSet(f, 1 .. n)
  BY <1>9a DEF TotalDebit, SumFunction
<1> HIDE DEF f
<1>12. \A i \in 1 .. n : f[i] \in Int
  <2>1. 1 \in 1 .. n /\ 2 \in 1 .. n /\ \A i \in 1 .. n : i = 1 \/ i = 2 \/ i \in 3 .. n
    BY <1>9
  <2>2. QED
    BY <1>2, <1>10, <2>1
<1> DEFINE two == {1, 2}
           others == 3 .. n
<1>13. 1 .. n = two \cup others /\ two \cap others = {}
  BY <1>9
<1>14. IsFiniteSet(others) /\ IsFiniteSet({2}) /\ IsFiniteSet(two) /\ two = {2} \cup {1}
  <2>1. IsFiniteSet({2}) /\ two = {2} \cup {1}
    BY FS_Singleton
  <2>2. IsFiniteSet({2} \cup {1})
    BY <2>1, FS_AddElement
  <2>3. IsFiniteSet(others)
    BY <1>9, FS_Interval
  <2>4. QED
    BY <2>1, <2>2, <2>3
<1>15. SumFunctionOnSet(f, two) = f[1] + f[2]
  <2>1. SumFunctionOnSet(f, {} \cup {2}) = f[2] + SumFunctionOnSet(f, {})
    <3>1. IsFiniteSet({}) /\ 2 \notin {} /\ \A y \in {} \cup {2} : f[y] \in Int
      BY <1>9, <1>12, FS_EmptySet
    <3>2. QED
      BY <3>1, SumAdd
  <2>2. SumFunctionOnSet(f, {}) = 0 /\ {} \cup {2} = {2}
    BY SumEmpty
  <2>3. SumFunctionOnSet(f, {2} \cup {1}) = f[1] + SumFunctionOnSet(f, {2})
    <3>1. 1 \notin {2} /\ \A y \in {2} \cup {1} : f[y] \in Int
      BY <1>9, <1>12
    <3>2. QED
      BY <1>14, <3>1, SumAdd
  <2>4. f[2] \in Int /\ f[1] \in Int
    BY <1>9, <1>12
  <2>5. SumFunctionOnSet(f, {2}) = f[2]
    BY <2>1, <2>2, <2>4
  <2>6. SumFunctionOnSet(f, {2} \cup {1}) = f[1] + f[2]
    BY <2>3, <2>5
  <2>7. QED
    BY <1>14, <2>6
<1>16. SumFunctionOnSet(f, others) = 0
  BY <1>10, <1>14, SumZero
<1>17. SumFunctionOnSet(f, two \cup others) = SumFunctionOnSet(f, two) + SumFunctionOnSet(f, others)
  <2>1. \A y \in two \cup others : f[y] \in Int
    BY <1>12, <1>13
  <2> HIDE DEF two, others
  <2>2. QED
    BY <1>13, <1>14, <2>1, SumUnion
<1> HIDE DEF two, others
<1>18. TotalDebit(st) = f[1] + f[2] + 0
  BY <1>11, <1>13, <1>15, <1>16, <1>17
<1>19. QED
  BY <1>2, <1>10, <1>18 DEF ls, st

\* what the ledger sees of two payslips is the same
AlikeInLedger(a, b) ==
    /\ a.employee = b.employee /\ a.gross = b.gross /\ a.nssf_employer = b.nssf_employer
    /\ HasEntry(a) <=> HasEntry(b)

\* the entries about the payroll of a period, in the tables d
About(d, period) ==
    {i \in DOMAIN d.entries : d.entries[i].by = "hr_payroll" /\ d.entries[i].about[1] = period}

\* the entries of the run r are none, or one for each payslip that has one
PostedWhole(d, r) ==
    LET run   == d.runs[r]
        slips == {k \in DOMAIN run.slips : HasEntry(run.slips[k])}
    IN About(d, run.period) # {} =>
          /\ Cardinality(About(d, run.period)) = Cardinality(slips)
          /\ \A k \in slips : \E i \in About(d, run.period) :
                /\ d.entries[i].about[2] = run.slips[k].employee
                /\ TotalDebit(d.entries[i].lines) = run.slips[k].gross + run.slips[k].nssf_employer

(* A run that stays, as the ledger sees it, with the entries of its period,  *)
(* is posted as it was.                                                      *)
LEMMA PostedStill ==
    ASSUME NEW d, NEW w, NEW r, PostedWhole(d, r),
           w.runs[r].period = d.runs[r].period,
           DOMAIN w.runs[r].slips = DOMAIN d.runs[r].slips,
           \A k \in DOMAIN d.runs[r].slips : AlikeInLedger(d.runs[r].slips[k], w.runs[r].slips[k]),
           About(w, d.runs[r].period) = About(d, d.runs[r].period),
           \A i \in DOMAIN d.entries : w.entries[i] = d.entries[i]
    PROVE  PostedWhole(w, r)
<1> DEFINE old == d.runs[r]
           new == w.runs[r]
           S == {k \in DOMAIN old.slips : HasEntry(old.slips[k])}
           T == {k \in DOMAIN new.slips : HasEntry(new.slips[k])}
           A == About(d, old.period)
<1>1. S = T
  BY DEF AlikeInLedger
<1>2. About(w, new.period) = A
  OBVIOUS
<1>3. A # {} => /\ Cardinality(A) = Cardinality(S)
                /\ \A k \in S : \E i \in A :
                      /\ d.entries[i].about[2] = old.slips[k].employee
                      /\ TotalDebit(d.entries[i].lines) = old.slips[k].gross + old.slips[k].nssf_employer
  BY DEF PostedWhole
<1>4. \A k \in S : /\ new.slips[k].employee = old.slips[k].employee
                   /\ new.slips[k].gross = old.slips[k].gross
                   /\ new.slips[k].nssf_employer = old.slips[k].nssf_employer
  BY DEF AlikeInLedger
<1>5. \A i \in A : w.entries[i] = d.entries[i]
  BY DEF About
<1> HIDE DEF S, A
<1>6. A # {} => /\ Cardinality(A) = Cardinality(T)
                /\ \A k \in T : \E i \in A :
                      /\ w.entries[i].about[2] = new.slips[k].employee
                      /\ TotalDebit(w.entries[i].lines) = new.slips[k].gross + new.slips[k].nssf_employer
  BY <1>1, <1>3, <1>4, <1>5
<1>7. QED
  BY <1>2, <1>6 DEF PostedWhole

(* Entries that the payroll did not write change nothing about it.           *)
LEMMA AboutStays ==
    ASSUME NEW d, NEW w, NEW p, DOMAIN d.entries \subseteq DOMAIN w.entries,
           \A i \in DOMAIN d.entries : w.entries[i] = d.entries[i],
           \A i \in DOMAIN w.entries \ DOMAIN d.entries :
              ~(w.entries[i].by = "hr_payroll" /\ w.entries[i].about[1] = p)
    PROVE  About(w, p) = About(d, p)
  BY DEF About

\* one run for each period, whose payroll is posted once and whole, and
\* nothing posted by another
PayrollPosted ==
    /\ OneRunPerPeriod
    /\ \A r \in Processed : PostedWhole(db, r)
    /\ \A i \in DOMAIN db.entries : db.entries[i].by = "hr_payroll" =>
          \E r \in Processed : db.runs[r].period = db.entries[i].about[1]

(* A run that is processed alone is a draft, and becomes what was read of it. *)
LEMMA ProcessAlone ==
    ASSUME WorkInv, RowsInv, NEW j, NEW v, Alone("process", j, v), Fits("process", j, v, db)
    PROVE  /\ j.run \in DOMAIN db.runs /\ db.runs[j.run].status = "draft"
           /\ ProcessOutcome(db, j, v, db', Computeds(j, v))
           /\ v.run[1] = db.runs[j.run]
           /\ MayPost(Computeds(j, v), v, db.chart)
           /\ j.at \in 0 .. MaxTime
<1>1. /\ j \in Jobs("process") /\ IsDraft(j, v) /\ db' = RunProcessed(j, v, db)
      /\ ProcessRead(j, db).run = v.run
  BY DEF Alone, ReadBy, Accepts, Written, Same, SameRun, UserOps, PortalOps
<1>2. j.run \in DOMAIN db.runs /\ v.run # <<>> /\ v.run[1].status = "draft"
  BY <1>1 DEF IsDraft, Fits
<1>3. v.run[1] = db.runs[j.run]
  BY <1>1, <1>2 DEF ProcessRead
<1>4. j.at \in 0 .. MaxTime
  BY <1>1 DEF Jobs
<1>5. ProcessOutcome(db, j, v, RunProcessed(j, v, db), Computeds(j, v))
  BY <1>1, ProcessWrites DEF WorkInv, RowsInv
<1>6. ProcessOutcome(db, j, v, db', Computeds(j, v))
  BY <1>1, <1>5
<1>7. MayPost(Computeds(j, v), v, db.chart)
  <2> DEFINE slips == Computeds(j, v)
  <2>1. \A k \in DOMAIN slips :
           Posts(slips[k], v.gl) => Postable(PayrollLines(slips[k], v.gl), v.chart)
    BY <1>1, Zenon DEF IsDraft
  <2>2. v.chart \subseteq db.chart /\ v.gl \in [GLFields -> v.chart \cup {NoAccount}]
    BY <1>2 DEF Fits
  <2> HIDE DEF slips
  <2>3. MayPost(slips, v, db.chart)
    BY <2>1, <2>2 DEF MayPost, RowsInv, LedgerRows
  <2>4. QED
    BY <2>3 DEF slips
<1>8. QED
  BY <1>2, <1>3, <1>4, <1>6, <1>7

\* entries about the payroll of a period, one for each payslip that has one
PostsSlips(es, period, slips) ==
    /\ \A i \in DOMAIN es : es[i].by = "hr_payroll" /\ es[i].about[1] = period
    /\ es # <<>> =>
          /\ Len(es) = Cardinality({k \in DOMAIN slips : HasEntry(slips[k])})
          /\ \A k \in DOMAIN slips : HasEntry(slips[k]) => \E i \in DOMAIN es :
                /\ es[i].about[2] = slips[k].employee
                /\ TotalDebit(es[i].lines) = slips[k].gross + slips[k].nssf_employer

(* What the processing of a run adds to the journal: an entry about its      *)
(* period for each payslip that has one, or nothing at all.                  *)
LEMMA PayrollAdds ==
    ASSUME NEW run, run.period \in Periods, NEW slips \in Seq(Slips),
           NEW v, NEW A, MayPost(slips, v, A), NEW at \in 0 .. MaxTime
    PROVE  PostsSlips(PayrollEntries(run, slips, v, at), run.period, slips)
<1> DEFINE es == PayrollEntries(run, slips, v, at)
           full == {k \in DOMAIN slips : Posts(slips[k], v.gl)}
           p == Pieces(run, slips, v, at)
           e(k) == Entry("hr_payroll", <<run.period, slips[k].employee>>, at,
                         PayrollLines(slips[k], v.gl))
<1>1. p \in Seq(Seq(EntryRows(A))) /\ DOMAIN p = DOMAIN slips /\ \A k \in DOMAIN p : Len(p[k]) <= 1
  BY PiecesTyped
<1>2. es = FlattenSeq(p) /\ es \in Seq(EntryRows(A))
  BY EntriesOfPieces, PayrollEntriesTyped
<1>3. ASSUME NEW k \in DOMAIN slips
      PROVE  IF Posts(slips[k], v.gl) THEN p[k] = <<e(k)>> ELSE p[k] = <<>>
  BY DEF Pieces, Posting
<1>4. full = {k \in DOMAIN p : p[k] # <<>>}
  <2> HIDE DEF p, e
  <2>1. ASSUME NEW k \in DOMAIN slips
        PROVE  Posts(slips[k], v.gl) <=> p[k] # <<>>
    <3>1. CASE Posts(slips[k], v.gl)
      <4>1. p[k] = <<e(k)>>
        BY <1>3, <3>1, Zenon
      <4>2. QED
        BY <3>1, <4>1
    <3>2. CASE ~Posts(slips[k], v.gl)
      BY <1>3, <3>2, Zenon
    <3>3. QED
      BY <3>1, <3>2
  <2>2. QED
    BY <1>1, <2>1
<1>5. \A k \in full : p[k][1] = e(k)
  <2>1. TAKE k \in full
  <2>2. k \in DOMAIN slips /\ Posts(slips[k], v.gl)
    OBVIOUS
  <2> HIDE DEF p, e
  <2>3. p[k] = <<e(k)>>
    BY <1>3, <2>2, Zenon
  <2>4. QED
    BY <2>3
<1>6. \A k \in full : /\ e(k).by = "hr_payroll" /\ e(k).about[1] = run.period
                      /\ e(k).about[2] = slips[k].employee
                      /\ TotalDebit(e(k).lines) = slips[k].gross + slips[k].nssf_employer
  <2>1. TAKE k \in full
  <2>2. slips[k] \in Slips
    OBVIOUS
  <2>3. TotalDebit(Stored(PayrollLines(slips[k], v.gl))) = slips[k].gross + slips[k].nssf_employer
    BY <2>2, PayrollDebits
  <2>4. QED
    BY <2>3 DEF Entry
<1>7. /\ Len(es) = Cardinality(full)
      /\ \A i \in DOMAIN es : \E k \in full : es[i] = p[k][1]
      /\ \A k \in full : \E i \in DOMAIN es : es[i] = p[k][1]
  <2> HIDE DEF p, es, full
  <2>1. QED
    BY <1>1, <1>2, <1>4, FlattenSingles
<1> DEFINE due == {k \in DOMAIN slips : HasEntry(slips[k])}
           Missing == NoAccount \in {v.gl[f] : f \in GLFields}
<1>8. full = IF Missing THEN {} ELSE due
  BY Zenon DEF Posts
<1> HIDE DEF p, es, e, full, due, Missing
<1>9. \A i \in DOMAIN es : es[i].by = "hr_payroll" /\ es[i].about[1] = run.period
  BY <1>5, <1>6, <1>7
<1>10. \A k \in full : \E i \in DOMAIN es :
          /\ es[i].about[2] = slips[k].employee
          /\ TotalDebit(es[i].lines) = slips[k].gross + slips[k].nssf_employer
  BY <1>5, <1>6, <1>7, SMTT(40)
<1>11. es # <<>> => full = due
  <2>1. CASE Missing
    <3>1. Len(es) = 0
      BY <1>7, <1>8, <2>1, FS_EmptySet
    <3>2. QED
      BY <1>2, <3>1
  <2>2. CASE ~Missing
    BY <1>8, <2>2
  <2>3. QED
    BY <2>1, <2>2
<1>12. QED
  BY <1>7, <1>9, <1>10, <1>11 DEF es, due, PostsSlips

(* Whatever does not write entries of the payroll, nor process a run, leaves *)
(* the payroll posted as it is.                                              *)
LEMMA PostedKept ==
    ASSUME PayrollPosted,
           DOMAIN db.entries \subseteq DOMAIN db'.entries,
           \A i \in DOMAIN db.entries : db'.entries[i] = db.entries[i],
           \A i \in DOMAIN db'.entries \ DOMAIN db.entries : db'.entries[i].by # "hr_payroll",
           DOMAIN db.runs \subseteq DOMAIN db'.runs,
           \A r \in DOMAIN db.runs :
              /\ db'.runs[r].period = db.runs[r].period /\ db'.runs[r].status = db.runs[r].status
              /\ DOMAIN db'.runs[r].slips = DOMAIN db.runs[r].slips
              /\ \A k \in DOMAIN db.runs[r].slips :
                    AlikeInLedger(db.runs[r].slips[k], db'.runs[r].slips[k]),
           \A r \in DOMAIN db'.runs \ DOMAIN db.runs :
              /\ db'.runs[r].status = "draft"
              /\ \A q \in DOMAIN db'.runs : db'.runs[q].period = db'.runs[r].period => q = r
    PROVE  PayrollPosted'
<1>1. Processed' = Processed
  BY DEF Processed
<1>2. OneRunPerPeriod'
  BY DEF OneRunPerPeriod, PayrollPosted
<1>3. ASSUME NEW r \in Processed
      PROVE  PostedWhole(db', r)
  <2>1. r \in DOMAIN db.runs /\ PostedWhole(db, r)
    BY <1>3 DEF Processed, PayrollPosted
  <2>2. About(db', db.runs[r].period) = About(db, db.runs[r].period)
    BY AboutStays
  <2>3. QED
    BY <2>1, <2>2, PostedStill
<1>4. ASSUME NEW i \in DOMAIN db'.entries, db'.entries[i].by = "hr_payroll"
      PROVE  \E r \in Processed : db'.runs[r].period = db'.entries[i].about[1]
  <2>1. i \in DOMAIN db.entries /\ db'.entries[i] = db.entries[i]
    BY <1>4
  <2>2. PICK r \in Processed : db.runs[r].period = db.entries[i].about[1]
    BY <1>4, <2>1 DEF PayrollPosted
  <2>3. db'.runs[r].period = db.runs[r].period
    BY <2>2 DEF Processed
  <2>4. QED
    BY <2>1, <2>2, <2>3
<1>5. QED
  BY <1>1, <1>2, <1>3, <1>4 DEF PayrollPosted

(* Processing a draft posts its payroll, once and whole.                     *)
LEMMA ProcessPosts ==
    ASSUME WorkInv, RowsInv, PayrollPosted,
           NEW j, NEW v, Alone("process", j, v), Fits("process", j, v, db)
    PROVE  PayrollPosted'
<1> DEFINE slips == Computeds(j, v)
           r0    == j.run
           old   == db.runs[r0]
           new   == db'.runs[r0]
           es    == PayrollEntries(old, slips, v, j.at)
           n     == Len(db.entries)
<1>1. /\ r0 \in DOMAIN db.runs /\ old.status = "draft" /\ v.run[1] = old
      /\ ProcessOutcome(db, j, v, db', slips) /\ j.at \in 0 .. MaxTime
      /\ MayPost(slips, v, db.chart)
  BY ProcessAlone
<1>2. /\ slips \in Seq(Slips) /\ \A k \in DOMAIN slips : MillsAddUp(slips[k])
      /\ DOMAIN slips = DOMAIN old.slips
      /\ db'.runs = [db.runs EXCEPT ![r0] = new]
      /\ new \in RunRows /\ new.period = old.period /\ new.status = "processed"
      /\ Len(new.slips) = Len(old.slips)
      /\ \A k \in DOMAIN slips : new.slips[k] = [InCents(slips[k]) EXCEPT !.paid = old.slips[k].paid]
      /\ db'.entries = db.entries \o es
  <2> HIDE DEF slips
  <2>1. QED
    BY <1>1 DEF ProcessOutcome
<1>3. /\ old \in RunRows /\ db.entries \in Seq(EntryRows(db.chart))
  BY <1>1 DEF RowsInv, LedgerRows, StaffRows
<1>4. old.period \in Periods /\ old.slips \in Seq(Slips) /\ new.slips \in Seq(Slips)
  BY <1>2, <1>3 DEF RunRows
<1>5. DOMAIN new.slips = DOMAIN slips
  BY <1>2, <1>4
<1> DEFINE full == {k \in DOMAIN slips : HasEntry(slips[k])}
<1>6. /\ es \in Seq(EntryRows(db.chart))
      /\ \A i \in DOMAIN es : es[i].by = "hr_payroll" /\ es[i].about[1] = old.period
      /\ es # <<>> =>
            /\ Len(es) = Cardinality(full)
            /\ \A k \in full : \E i \in DOMAIN es :
                  /\ es[i].about[2] = slips[k].employee
                  /\ TotalDebit(es[i].lines) = slips[k].gross + slips[k].nssf_employer
  <2> HIDE DEF slips, old
  <2>1. es \in Seq(EntryRows(db.chart))
    BY <1>1, <1>2, <1>4, PayrollEntriesTyped
  <2>2. PostsSlips(PayrollEntries(old, slips, v, j.at), old.period, slips)
    BY <1>1, <1>2, <1>4, PayrollAdds
  <2> HIDE DEF es
  <2>3. PostsSlips(es, old.period, slips)
    BY <2>2 DEF es
  <2>4. QED
    BY <2>1, <2>3 DEF PostsSlips
<1>7. ASSUME NEW k \in DOMAIN slips
      PROVE  /\ new.slips[k].employee = slips[k].employee /\ new.slips[k].gross = slips[k].gross
             /\ new.slips[k].nssf_employer = slips[k].nssf_employer
             /\ HasEntry(new.slips[k]) <=> HasEntry(slips[k])
  <2> DEFINE s == slips[k]
             c == InCents(s)
             t == [c EXCEPT !.paid = old.slips[k].paid]
  <2>1. s \in Slips /\ MillsAddUp(s)
    BY <1>2
  <2>2. new.slips[k] = t
    BY <1>2
  <2> HIDE DEF s
  <2>3. c \in Slips /\ \A x \in Columns : c[x] = IF x \in {"deduction", "net"} THEN Cents(s[x]) ELSE s[x]
    BY <2>1, InCentsAddsUp
  <2>4. c.gross = s.gross /\ c.nssf_employer = s.nssf_employer
    BY <2>3 DEF Columns
  <2>5. c.employee = s.employee /\ c.deducts = s.deducts /\ c.loan = s.loan
    BY <2>1, Zenon DEF Slips, InCents
  <2> HIDE DEF c
  <2>6. t.employee = c.employee /\ t.gross = c.gross /\ t.nssf_employer = c.nssf_employer
    BY <2>3 DEF Slips
  <2>7. t.deducts = c.deducts /\ t.loan = c.loan
    BY <2>3, Zenon DEF Slips
  <2> HIDE DEF t
  <2>8. HasEntry(t) <=> HasEntry(s)
    BY <2>5, <2>6, <2>7, Zenon DEF HasEntry
  <2>9. QED
    BY <2>2, <2>4, <2>5, <2>6, <2>8 DEF s
<1> HIDE DEF slips, old, new, es, n
<1>8. /\ DOMAIN db.entries = 1 .. n /\ n \in Nat /\ Len(es) \in Nat /\ DOMAIN es = 1 .. Len(es)
      /\ DOMAIN db'.entries = 1 .. n + Len(es)
      /\ \A i \in 1 .. n : db'.entries[i] = db.entries[i]
      /\ \A i \in 1 .. Len(es) : db'.entries[n + i] = es[i]
  <2>1. db.entries \in Seq(EntryRows(db.chart)) /\ es \in Seq(EntryRows(db.chart))
    BY <1>3, <1>6
  <2>2. /\ db.entries \o es \in Seq(EntryRows(db.chart))
        /\ Len(db.entries \o es) = Len(db.entries) + Len(es)
        /\ \A i \in 1 .. Len(db.entries) : (db.entries \o es)[i] = db.entries[i]
        /\ \A i \in Len(db.entries) + 1 .. Len(db.entries) + Len(es) :
              (db.entries \o es)[i] = es[i - Len(db.entries)]
    BY ONLY <2>1, Joined, ZenonT(40)
  <2>3. /\ DOMAIN db.entries = 1 .. n /\ n \in Nat /\ Len(es) \in Nat /\ DOMAIN es = 1 .. Len(es)
    BY <2>1 DEF n
  <2>4. DOMAIN db'.entries = 1 .. n + Len(es) /\ \A i \in 1 .. n : db'.entries[i] = db.entries[i]
    BY <1>2, <2>2, <2>3 DEF n
  <2>5. ASSUME NEW i \in 1 .. Len(es)
        PROVE  db'.entries[n + i] = es[i]
    <3>1. n + i \in n + 1 .. n + Len(es) /\ (n + i) - n = i
      BY <2>3
    <3>2. QED
      BY <1>2, <2>2, <3>1 DEF n
  <2>6. QED
    BY <2>3, <2>4, <2>5
<1>9. Processed' = Processed \cup {r0} /\ r0 \notin Processed
  BY <1>1, <1>2 DEF Processed, old, new
<1>10. \A r \in DOMAIN db.runs : r # r0 => db'.runs[r] = db.runs[r] /\ db.runs[r].period # old.period
  BY <1>1, <1>2 DEF PayrollPosted, OneRunPerPeriod, old
<1>11. OneRunPerPeriod'
  <2>1. DOMAIN db'.runs = DOMAIN db.runs
        /\ \A r \in DOMAIN db.runs : db'.runs[r].period = db.runs[r].period
    BY <1>1, <1>2, <1>10 DEF old, new
  <2>2. QED
    BY <2>1 DEF PayrollPosted, OneRunPerPeriod
<1>12. About(db, old.period) = {}
  <2> SUFFICES ASSUME NEW i \in About(db, old.period) PROVE FALSE
    OBVIOUS
  <2>1. i \in DOMAIN db.entries /\ db.entries[i].by = "hr_payroll"
        /\ db.entries[i].about[1] = old.period
    BY DEF About
  <2>2. PICK r \in Processed : db.runs[r].period = old.period
    BY <2>1 DEF PayrollPosted
  <2>3. QED
    BY <1>9, <1>10, <2>2 DEF Processed
<1>13. About(db', old.period) = n + 1 .. n + Len(es)
  <2>1. \A i \in 1 .. n : i \notin About(db', old.period)
    BY <1>8, <1>12 DEF About
  <2>2. ASSUME NEW i \in n + 1 .. n + Len(es)
        PROVE  i \in About(db', old.period)
    <3>1. i - n \in 1 .. Len(es) /\ n + (i - n) = i
      BY <1>8
    <3>2. db'.entries[i] = es[i - n]
      BY <1>8, <3>1
    <3>3. QED
      BY <1>6, <1>8, <3>1, <3>2 DEF About
  <2>3. About(db', old.period) \subseteq 1 .. n + Len(es)
    BY <1>8 DEF About
  <2>4. \A i \in 1 .. n + Len(es) : i \in 1 .. n \/ i \in n + 1 .. n + Len(es)
    BY <1>8
  <2>5. QED
    BY <2>1, <2>2, <2>3, <2>4
<1>14. PostedWhole(db', r0)
  <2>1. {k \in DOMAIN new.slips : HasEntry(new.slips[k])} = full
    BY <1>5, <1>7
  <2>2. CASE es = <<>>
    <3>1. About(db', new.period) = {}
      BY <1>2, <1>8, <1>13, <2>2
    <3>2. QED
      BY <3>1 DEF PostedWhole, new
  <2>3. CASE es # <<>>
    <3>1. Cardinality(n + 1 .. n + Len(es)) = Len(es)
      <4> DEFINE a == n + 1
                 b == n + Len(es)
      <4>1. a \in Int /\ b \in Int /\ Len(es) = IF a > b THEN 0 ELSE b - a + 1
        BY <1>8
      <4> HIDE DEF a, b
      <4>2. Cardinality(a .. b) = IF a > b THEN 0 ELSE b - a + 1
        BY <4>1, FS_Interval
      <4>3. QED
        BY <4>1, <4>2 DEF a, b
    <3>2. ASSUME NEW k \in full
          PROVE  \E i \in n + 1 .. n + Len(es) :
                    /\ db'.entries[i].about[2] = new.slips[k].employee
                    /\ TotalDebit(db'.entries[i].lines) = new.slips[k].gross + new.slips[k].nssf_employer
      <4>1. PICK i \in DOMAIN es :
               /\ es[i].about[2] = slips[k].employee
               /\ TotalDebit(es[i].lines) = slips[k].gross + slips[k].nssf_employer
        BY <1>6, <2>3
      <4>2. n + i \in n + 1 .. n + Len(es) /\ db'.entries[n + i] = es[i]
        BY <1>8
      <4>3. QED
        BY <1>7, <4>1, <4>2
    <3> HIDE DEF full
    <3>3. About(db', new.period) = n + 1 .. n + Len(es)
      BY <1>2, <1>13
    <3>4. Len(es) = Cardinality(full)
      BY <1>6, <2>3
    <3>5. QED
      BY <2>1, <3>1, <3>2, <3>3, <3>4 DEF PostedWhole, new
  <2>4. QED
    BY <2>2, <2>3
<1>15. ASSUME NEW r \in Processed
       PROVE  PostedWhole(db', r)
  <2>1. r \in DOMAIN db.runs /\ PostedWhole(db, r) /\ r # r0
    BY <1>9, <1>15 DEF Processed, PayrollPosted
  <2>2. db'.runs[r] = db.runs[r] /\ db.runs[r].period # old.period
    BY <1>10, <2>1
  <2>3. About(db', db.runs[r].period) = About(db, db.runs[r].period)
    <3>1. ASSUME NEW i \in DOMAIN db'.entries \ DOMAIN db.entries
          PROVE  db'.entries[i].about[1] = old.period
      <4>1. i - n \in 1 .. Len(es) /\ n + (i - n) = i
        BY <1>8
      <4>2. QED
        BY <1>6, <1>8, <4>1
    <3>2. DOMAIN db.entries \subseteq DOMAIN db'.entries
      BY <1>8
    <3> DEFINE per == db.runs[r].period
    <3>3. per # old.period /\ \A i \in DOMAIN db.entries : db'.entries[i] = db.entries[i]
      BY <1>8, <2>2
    <3> HIDE DEF per
    <3>4. About(db', per) = About(db, per)
      BY <3>1, <3>2, <3>3, AboutStays
    <3>5. QED
      BY <3>4 DEF per
  <2>4. \A k \in DOMAIN db.runs[r].slips : AlikeInLedger(db.runs[r].slips[k], db'.runs[r].slips[k])
    BY <2>2 DEF AlikeInLedger
  <2>5. QED
    BY <1>8, <2>1, <2>2, <2>3, <2>4, PostedStill
<1>16. ASSUME NEW i \in DOMAIN db'.entries, db'.entries[i].by = "hr_payroll"
       PROVE  \E r \in Processed' : db'.runs[r].period = db'.entries[i].about[1]
  <2>1. CASE i \in 1 .. n
    <3>1. PICK r \in Processed : db.runs[r].period = db.entries[i].about[1]
      BY <1>8, <1>16, <2>1 DEF PayrollPosted
    <3>2. db'.runs[r] = db.runs[r]
      BY <1>9, <1>10, <3>1 DEF Processed
    <3>3. QED
      BY <1>8, <1>9, <2>1, <3>1, <3>2
  <2>2. CASE i \notin 1 .. n
    <3>1. i - n \in 1 .. Len(es) /\ n + (i - n) = i
      BY <1>8, <2>2
    <3>2. db'.entries[i].about[1] = old.period
      BY <1>6, <1>8, <3>1
    <3>3. QED
      BY <1>2, <1>9, <3>2 DEF new
  <2>3. QED
    BY <2>1, <2>2
<1>17. QED
  BY <1>9, <1>11, <1>14, <1>15, <1>16 DEF PayrollPosted

(* A payslip that is marked paid: what is written.                           *)
LEMMA PayAlone ==
    ASSUME WorkInv, RowsInv, NEW j, NEW v, Alone("pay", j, v)
    PROVE  LET r == db.runs[j.run]
           IN  /\ j.run \in DOMAIN db.runs /\ j.slip \in DOMAIN r.slips
               /\ db'.entries = db.entries
               /\ db'.runs = [db.runs EXCEPT ![j.run] =
                     [r EXCEPT !.slips = [r.slips EXCEPT ![j.slip] =
                        [r.slips[j.slip] EXCEPT !.paid = TRUE]]]]
<1>1. /\ IsPending(j, SlipRead(j, db)) /\ db' = SlipPaid(j, SlipRead(j, db), db)
  BY DEF Alone, ReadBy, Accepts, Written, Same, UserOps, PortalOps
<1>2. j.run \in DOMAIN db.runs /\ j.slip \in DOMAIN db.runs[j.run].slips
  BY <1>1 DEF IsPending, SlipRead
<1>3. "runs" \in DOMAIN db /\ "entries" \in DOMAIN db
  BY DEF WorkInv, AllColumns, StaffColumns, LedgerColumns
<1>4. QED
  BY <1>1, <1>2, <1>3 DEF SlipPaid

(* A new run: what is written.                                               *)
LEMMA RunAlone ==
    ASSUME WorkInv, RowsInv, NEW j, NEW v, Alone("run", j, v)
    PROVE  \E run : /\ db'.runs = Append(db.runs, run) /\ db'.entries = db.entries
                    /\ run.status = "draft" /\ run.period = j.period
                    /\ \A r \in DOMAIN db.runs : db.runs[r].period # j.period
<1> DEFINE run == [period |-> j.period, status |-> "draft",
                   slips  |-> [k \in DOMAIN j.staff |-> DraftSlip(j.staff[k], v.salary)],
                   totals |-> [c \in Columns |-> 0]]
<1>1. /\ PeriodIsFree(j, v) /\ db' = RunCreated(j, v, db)
      /\ RunRead(j, db).taken = v.taken
  BY DEF Alone, ReadBy, Accepts, Written, Same, SamePeriod, UserOps, PortalOps
<1>2. \A r \in DOMAIN db.runs : db.runs[r].period # j.period
  BY <1>1 DEF PeriodIsFree, RunRead
<1>3. "runs" \in DOMAIN db /\ "entries" \in DOMAIN db
  BY DEF WorkInv, AllColumns, StaffColumns, LedgerColumns
<1>4. db'.runs = Append(db.runs, run) /\ db'.entries = db.entries
  BY <1>1, <1>3 DEF RunCreated
<1>5. run.status = "draft" /\ run.period = j.period
  OBVIOUS
<1> HIDE DEF run
<1>6. QED
  BY <1>2, <1>4, <1>5

(* What payroll handlers other than process_payroll_run write.               *)
LEMMA OthersPost ==
    ASSUME WorkInv, RowsInv, PayrollPosted,
           NEW op \in {"journal", "run", "pay"}, NEW j, NEW v, Alone(op, j, v)
    PROVE  PayrollPosted'
<1>0. /\ "runs" \in DOMAIN db /\ "entries" \in DOMAIN db
      /\ db.entries \in Seq(EntryRows(db.chart)) /\ db.runs \in Seq(RunRows)
  BY DEF WorkInv, AllColumns, StaffColumns, LedgerColumns, RowsInv, LedgerRows, StaffRows
<1>1. ASSUME NEW s
      PROVE  AlikeInLedger(s, s)
  BY DEF AlikeInLedger
<1>2. CASE op = "journal"
  <2> DEFINE e == Entry("manual", NoAccount, j.at, j.lines)
  <2>1. db'.entries = Append(db.entries, e) /\ db'.runs = db.runs
    BY <1>0, <1>2 DEF Alone, Written, EntryPosted
  <2>2. e.by # "hr_payroll"
    BY DEF Entry
  <2> HIDE DEF e
  <2>3. /\ DOMAIN db.entries \subseteq DOMAIN db'.entries
        /\ \A i \in DOMAIN db.entries : db'.entries[i] = db.entries[i]
        /\ \A i \in DOMAIN db'.entries \ DOMAIN db.entries : db'.entries[i] = e
    BY <1>0, <2>1
  <2>4. QED
    BY <1>1, <2>1, <2>2, <2>3, PostedKept
<1>3. CASE op = "run"
  <2>1. PICK run : /\ db'.runs = Append(db.runs, run) /\ db'.entries = db.entries
                   /\ run.status = "draft" /\ run.period = j.period
                   /\ \A r \in DOMAIN db.runs : db.runs[r].period # j.period
    BY <1>3, RunAlone
  <2>2. /\ DOMAIN db.runs \subseteq DOMAIN db'.runs
        /\ \A i \in DOMAIN db.runs : db'.runs[i] = db.runs[i]
        /\ \A i, q \in DOMAIN db'.runs \ DOMAIN db.runs : db'.runs[i] = run /\ i = q
    BY <1>0, <2>1
  <2>3. ASSUME NEW r \in DOMAIN db'.runs \ DOMAIN db.runs
        PROVE  /\ db'.runs[r].status = "draft"
               /\ \A q \in DOMAIN db'.runs : db'.runs[q].period = db'.runs[r].period => q = r
    BY <2>1, <2>2
  <2>4. QED
    BY <1>1, <2>1, <2>2, <2>3, PostedKept
<1>4. CASE op = "pay"
  <2> DEFINE r == db.runs[j.run]
             s == r.slips[j.slip]
             paid == [s EXCEPT !.paid = TRUE]
             slips == [r.slips EXCEPT ![j.slip] = paid]
             q == [r EXCEPT !.slips = slips]
  <2>1. /\ j.run \in DOMAIN db.runs /\ j.slip \in DOMAIN r.slips
        /\ db'.entries = db.entries /\ db'.runs = [db.runs EXCEPT ![j.run] = q]
    BY <1>4, PayAlone
  <2>2. r \in RunRows
    BY <1>0, <2>1
  <2>3. r.slips \in Seq(Slips)
    BY <2>2 DEF RunRows
  <2>4. s \in Slips
    BY <2>1, <2>3
  <2>5. AlikeInLedger(s, paid)
    <3> HIDE DEF s
    <3>1. paid.employee = s.employee /\ paid.gross = s.gross
          /\ paid.nssf_employer = s.nssf_employer
      BY <2>4 DEF Slips
    <3>2. paid.loan = s.loan /\ paid.deducts = s.deducts
      BY <2>4, Zenon DEF Slips
    <3> HIDE DEF paid
    <3>3. HasEntry(s) <=> HasEntry(paid)
      BY <3>1, <3>2, Zenon DEF HasEntry
    <3>4. QED
      BY <3>1, <3>3 DEF AlikeInLedger
  <2>6. q.period = r.period /\ q.status = r.status /\ q.slips = slips
    <3> HIDE DEF r, slips
    <3>1. QED
      BY <2>2 DEF RunRows
  <2> HIDE DEF paid, q
  <2>7. DOMAIN slips = DOMAIN r.slips
        /\ \A k \in DOMAIN r.slips : slips[k] = IF k = j.slip THEN paid ELSE r.slips[k]
    OBVIOUS
  <2> HIDE DEF slips
  <2>8. \A k \in DOMAIN r.slips : AlikeInLedger(r.slips[k], q.slips[k])
    BY <1>1, <2>5, <2>6, <2>7
  <2>9. DOMAIN db'.runs = DOMAIN db.runs
        /\ \A i \in DOMAIN db.runs : db'.runs[i] = IF i = j.run THEN q ELSE db.runs[i]
    BY <1>0, <2>1
  <2>10. \A i \in DOMAIN db.runs :
              /\ db'.runs[i].period = db.runs[i].period /\ db'.runs[i].status = db.runs[i].status
              /\ DOMAIN db'.runs[i].slips = DOMAIN db.runs[i].slips
              /\ \A k \in DOMAIN db.runs[i].slips :
                    AlikeInLedger(db.runs[i].slips[k], db'.runs[i].slips[k])
    BY <1>1, <2>6, <2>7, <2>8, <2>9
  <2>11. QED
    BY <2>1, <2>9, <2>10, PostedKept
<1>5. QED
  BY <1>2, <1>3, <1>4

(* Processed payslips add up, whatever ran beside their processing.          *)
LEMMA RowsAddUp ==
    ASSUME StaffRows(db)
    PROVE  PayslipsAddUp
<1>1. ASSUME NEW r \in Processed
      PROVE  /\ \A k \in DOMAIN db.runs[r].slips : SlipAddsUp(db.runs[r].slips[k])
             /\ \A c \in Columns : TotalIsNear(db.runs[r].totals[c],
                                               TotalOfColumn(db.runs[r].slips, c), c,
                                               Len(db.runs[r].slips))
  <2>1. db.runs[r] \in RunRows /\ db.runs[r].status = "processed"
    BY <1>1 DEF StaffRows, Processed
  <2>2. QED
    BY <2>1 DEF RunRows
<1>2. QED
  BY <1>1, Zenon DEF PayslipsAddUp, SlipAddsUp, TotalIsNear

(* Whatever the isolation level, a processed payslip adds up but for the cent *)
(* that rounding may add and leaves nobody with less than nothing, and the   *)
(* totals of its run are its payslips' but for their rounding                *)
(* (process_payroll_run).                                                    *)
THEOREM PayslipsAlwaysAddUp == Spec => []PayslipsAddUp
<1>1. RowsInv => PayslipsAddUp
  BY RowsAddUp DEF RowsInv
<1>2. QED
  BY RowsAreWellFormed, <1>1, PTL

(* The payroll stays posted once and whole in every step of a serializable   *)
(* database.                                                                 *)
LEMMA PayrollStep ==
    ASSUME Isolation = "serializable", WorkInv, RowsInv, PayrollPosted, [Next]_vars
    PROVE  PayrollPosted'
<1>1. CASE db'.runs = db.runs /\ db'.entries = db.entries
  <2>1. \A s : AlikeInLedger(s, s)
    BY DEF AlikeInLedger
  <2>2. QED
    BY <1>1, <2>1, PostedKept
<1>2. ASSUME NEW op \in Ops, NEW j, NEW v, Alone(op, j, v), Fits(op, j, v, db)
      PROVE  PayrollPosted'
  <2>1. CASE op = "process"
    BY <1>2, <2>1, ProcessPosts
  <2>2. CASE op \in {"journal", "run", "pay"}
    BY <1>2, <2>2, OthersPost
  <2>3. CASE op \notin {"process", "journal", "run", "pay"}
    <3>1. {"runs", "entries"} \subseteq AllColumns /\ DOMAIN db = AllColumns
      BY DEF WorkInv, AllColumns, StaffColumns, LedgerColumns
    <3>2. WrittenBy(op) \cap {"runs", "entries"} = {}
      BY <2>3 DEF WrittenBy, Ops, LedgerOps, StaffOps, UserOps, PortalOps, RegisterOps
    <3>3. QED
      BY <1>1, <1>2, <3>1, <3>2, Frame DEF Alone
  <2>4. QED
    BY <2>1, <2>2, <2>3
<1>3. CASE Keeps(NoticeColumns \cup {"token"})
  BY <1>1, <1>3 DEF Keeps, AllColumns, StaffColumns, LedgerColumns, NoticeColumns
<1>4. CASE \E s \in Sessions : /\ session[s].op \in Ops
                               /\ Alone(session[s].op, session[s].job, session[s].view)
  BY <1>2, <1>4 DEF RowsInv
<1>5. QED
  BY <1>3, <1>4, StepAlone

(* On a serializable database the payroll adds up from the tax table to the  *)
(* ledger: there is one run for a period, and its entries are in the ledger  *)
(* once or not at all, one for each payslip that has one, with its amounts   *)
(* (create_payroll_run, process_payroll_run, post_payroll_gl).               *)
THEOREM PayrollAlwaysAddsUp ==
    ASSUME Isolation = "serializable"
    PROVE  Spec => []PayrollAddsUp
<1>1. Init => PayrollPosted
  <2>1. Init => db.runs = <<>> /\ db.entries = <<>>
    BY TheTables DEF Init, StaffTables, LedgerTables, StaffColumns, LedgerColumns
  <2>2. QED
    BY <2>1 DEF PayrollPosted, OneRunPerPeriod, Processed
<1>2. WorkInv /\ RowsInv /\ PayrollPosted /\ [Next]_vars => PayrollPosted'
  BY PayrollStep
<1>3. RowsInv /\ PayrollPosted => PayrollAddsUp
  <2>1. PayrollPosted => OneRunPerPeriod /\ PostedOnceAndWhole
    BY DEF PayrollPosted, PostedOnceAndWhole, PostedWhole, About, EntriesAbout
  <2>2. QED
    BY <2>1, RowsAddUp, TaxTableIsMarginal DEF RowsInv, PayrollAddsUp
<1>4. QED
  BY RowsAreWellFormed, <1>1, <1>2, <1>3, PTL DEF Spec

(* A processed run is immutable on a serializable database: a run is         *)
(* processed once, and then only payslips are marked paid                    *)
(* (process_payroll_run, mark_payslip_paid).                                 *)
THEOREM ProcessedStaysProcessed ==
    ASSUME Isolation = "serializable"
    PROVE  Spec => ProcessedIsImmutable
<1> DEFINE Kept == \A r \in Processed :
                      /\ db.runs'[r].status = "processed" /\ db.runs'[r].totals = db.runs[r].totals
                      /\ \A k \in DOMAIN db.runs[r].slips :
                            \/ db.runs'[r].slips[k] = db.runs[r].slips[k]
                            \/ db.runs'[r].slips[k] = [db.runs[r].slips[k] EXCEPT !.paid = TRUE]
<1>1. ASSUME WorkInv, RowsInv, [Next]_vars
      PROVE  Kept
  <2>0. /\ DOMAIN db = AllColumns /\ "runs" \in AllColumns /\ "runs" \notin NoticeColumns
        /\ db.runs \in Seq(RunRows)
    BY <1>1 DEF WorkInv, AllColumns, StaffColumns, NoticeColumns, RowsInv, StaffRows
  <2>1. CASE \A r \in Processed : db'.runs[r] = db.runs[r]
    BY <2>1 DEF Processed
  <2>2. ASSUME NEW op \in Ops, NEW j, NEW v, Alone(op, j, v), Fits(op, j, v, db)
        PROVE  Kept
    <3>1. CASE op = "process"
      <4>1. /\ j.run \in DOMAIN db.runs /\ db.runs[j.run].status = "draft"
            /\ ProcessOutcome(db, j, v, db', Computeds(j, v))
        BY <1>1, <2>2, <3>1, ProcessAlone
      <4>2. db'.runs = [db.runs EXCEPT ![j.run] = db'.runs[j.run]]
        BY <4>1 DEF ProcessOutcome
      <4>3. \A r \in Processed : r \in DOMAIN db.runs /\ r # j.run
        BY <4>1 DEF Processed
      <4>4. QED
        BY <2>1, <4>2, <4>3
    <3>2. CASE op = "run"
      <4>1. PICK run : db'.runs = Append(db.runs, run)
        BY <1>1, <2>2, <3>2, RunAlone
      <4>2. \A r \in DOMAIN db.runs : db'.runs[r] = db.runs[r]
        BY <2>0, <4>1
      <4>3. QED
        BY <2>1, <4>2 DEF Processed
    <3>3. CASE op = "pay"
      <4> DEFINE old == db.runs[j.run]
                 paid == [old.slips[j.slip] EXCEPT !.paid = TRUE]
                 slips == [old.slips EXCEPT ![j.slip] = paid]
                 q == [old EXCEPT !.slips = slips]
      <4>1. /\ j.run \in DOMAIN db.runs /\ j.slip \in DOMAIN old.slips
            /\ db'.runs = [db.runs EXCEPT ![j.run] = q]
        BY <1>1, <2>2, <3>3, PayAlone
      <4>2. old \in RunRows
        BY <2>0, <4>1
      <4>3. q.status = old.status /\ q.totals = old.totals /\ q.slips = slips
        <5> HIDE DEF old, slips
        <5>1. QED
          BY <4>2 DEF RunRows
      <4>4. \A k \in DOMAIN old.slips : slips[k] = IF k = j.slip THEN paid ELSE old.slips[k]
        <5> HIDE DEF paid
        <5>1. QED
          OBVIOUS
      <4>5. ASSUME NEW r \in Processed
            PROVE  /\ db'.runs[r].status = "processed" /\ db'.runs[r].totals = db.runs[r].totals
                   /\ \A k \in DOMAIN db.runs[r].slips :
                         \/ db'.runs[r].slips[k] = db.runs[r].slips[k]
                         \/ db'.runs[r].slips[k] = [db.runs[r].slips[k] EXCEPT !.paid = TRUE]
        <5>1. r \in DOMAIN db.runs /\ db.runs[r].status = "processed"
          BY <4>5 DEF Processed
        <5>2. CASE r = j.run
          <6>1. db'.runs[r] = q
            <7> HIDE DEF q
            <7>1. QED
              BY <4>1, <5>1, <5>2
          <6> HIDE DEF q, slips
          <6>2. /\ db'.runs[r].status = "processed" /\ db'.runs[r].totals = old.totals
                /\ db'.runs[r].slips = slips
            BY <4>3, <5>1, <5>2, <6>1
          <6>3. QED
            BY <4>4, <5>2, <6>2
        <5>3. CASE r # j.run
          <6> HIDE DEF q
          <6>1. db'.runs[r] = db.runs[r]
            BY <4>1, <5>1, <5>3
          <6>2. QED
            BY <5>1, <6>1
        <5>4. QED
          BY <5>2, <5>3
      <4>6. QED
        BY <4>5
    <3>4. CASE op \notin {"process", "run", "pay"}
      <4>1. "runs" \notin WrittenBy(op)
        BY <3>4 DEF WrittenBy, Ops, LedgerOps, StaffOps, UserOps, PortalOps, RegisterOps
      <4>2. QED
        BY <2>0, <2>1, <2>2, <4>1, Frame DEF Alone
    <3>5. QED
      BY <3>1, <3>2, <3>3, <3>4
  <2>3. CASE Keeps(NoticeColumns \cup {"token"})
    BY <2>0, <2>1, <2>3 DEF Keeps
  <2>4. CASE \E s \in Sessions : /\ session[s].op \in Ops
                                 /\ Alone(session[s].op, session[s].job, session[s].view)
    BY <1>1, <2>2, <2>4 DEF RowsInv
  <2>5. QED
    BY <1>1, <2>3, <2>4, StepAlone
<1>2. QED
  BY RowsAreWellFormed, <1>1, PTL DEF Spec, ProcessedIsImmutable
=============================================================================
