------------------------------ MODULE Members ------------------------------
(***************************************************************************)
(* Members: their registration, status changes by staff, the exit with its *)
(* checks, and the daily sweep for dormant members.                        *)
(*                                                                         *)
(*   db.status[m]    Member.status, "absent" before the registration       *)
(*   db.since[m]     Member.last_activity_at: written at the registration  *)
(*                   and by no transaction, or Never                       *)
(*   db.stage[m]     Member.dormancy_notified_stage                        *)
(*   db.notices[m]   Notification rows of each stage                       *)
(*   db.sent[m]      the stages whose notice has been handed to the SMS    *)
(*                   and mail gateways: no rollback takes them back        *)
(*   db.borrows[m]   whether the member has an ACTIVE loan                 *)
(***************************************************************************)
EXTENDS Shares

CONSTANTS Scheduler,   \* the session of the scheduled job
          WarnAfter, DormantAfter, EscalateAfter, \* 150, 180 and 210 days
          Original,    \* the members there are at the start
          Undated      \* those that may have no date of a last activity

ASSUME MembersAssumption ==
    /\ Scheduler \in Sessions
    /\ WarnAfter \in Nat /\ DormantAfter \in Nat /\ EscalateAfter \in Nat
    /\ WarnAfter < DormantAfter /\ DormantAfter < EscalateAfter
    /\ Original \subseteq Members
    /\ Undated \subseteq Original

\* last_activity_at is empty
Never == -1

MemberStatuses == {"ACTIVE", "DORMANT", "SUSPENDED", "EXITED"}
Stages         == 1 .. 3

MemberTables ==
    [status  |-> [m \in Members |-> IF m \in Original THEN "ACTIVE" ELSE "absent"],
     since   |-> NoGain,
     stage   |-> NoGain,
     notices |-> [m \in Members |-> [k \in Stages |-> 0]],
     sent    |-> [m \in Members |-> {}],
     borrows |-> [m \in Members |-> FALSE]]

\* the dates of the last activities at the start
SinceStart(undated) == [m \in Members |-> IF m \in undated THEN Never ELSE 0]

MembersTypeOK ==
    /\ db.status \in [Members -> MemberStatuses \cup {"absent"}]
    /\ db.since \in [Members -> Never .. MaxTime]
    /\ db.stage \in [Members -> 0 .. 3]
    /\ db.notices \in [Members -> [Stages -> Nat]]
    /\ db.sent \in [Members -> SUBSET Stages]
    /\ db.borrows \in [Members -> BOOLEAN]

MemberJobs == [member : Members]

-----------------------------------------------------------------------------
RegistrationJobs == [member : Members, at : {now}]

StatusRead(j, d) == d.status[j.member]

IsNew(j, v) == v = "absent"

\* national_id is unique in the table as well
MemberAdded(j, v, d) ==
    IF d.status[j.member] # "absent" THEN d
    ELSE [d EXCEPT !.status[j.member] = "ACTIVE", !.since[j.member] = j.at]

\* create_member
CreateMember(s) == Serves(s, "create_member", RegistrationJobs, StatusRead, IsNew, MemberAdded)

UpdateJobs == [member : Members, to : MemberStatuses]

IsKnown(j, v) == v # "absent"

StatusSet(j, v, d) == [d EXCEPT !.status[j.member] = j.to]

\* update_member, which writes any status and checks none
UpdateMember(s) == Serves(s, "update_member", UpdateJobs, StatusRead, IsKnown, StatusSet)

-----------------------------------------------------------------------------
\* what exit_member looks at
ExitReads(j, d) ==
    [status  |-> d.status[j.member],  balance |-> d.balance[j.member],
     shares  |-> SharesOf(d.holdings, j.member), borrows |-> d.borrows[j.member]]

\* Mutant: nobody asks for the loans
NothingLeft(j, v) == v.status # "absent" /\ v.balance = 0 /\ v.shares = 0

\* Any ACTIVE loan refuses the exit: the check of its principal raises an
\* AttributeError.
Clear(j, v) == v.status # "absent" /\ ~v.borrows /\ v.balance = 0 /\ v.shares = 0

Left(j, v, d) == [d EXCEPT !.status[j.member] = "EXITED"]

\* The member's row is written, and a disbursement reads it for its notice.
\* The accounts and the holdings are only read, and their writers do not look
\* at the row of the member: they may change while the exit runs.
SameStanding(j, view, rows) == rows.status = view.status /\ rows.borrows = view.borrows

\* exit_member
ExitMember(s) == ServesWhile(s, "exit", MemberJobs, ExitReads, Clear, SameStanding, Left)

BorrowerRead(j, d) == [known |-> d.status[j.member] # "absent", borrows |-> d.borrows[j.member]]

NoLoanYet(j, v) == v.known /\ ~v.borrows

LoanActive(j, v, d) == [d EXCEPT !.borrows[j.member] = TRUE]

\* execute_disbursement, seen from the member: LoanOrigination and LoanBook
\* have the rest
DisburseLoan(s) == Serves(s, "disburse", MemberJobs, BorrowerRead, NoLoanYet, LoanActive)

-----------------------------------------------------------------------------
MembersRead(j, d) == [status |-> d.status, since |-> d.since, stage |-> d.stage]

SilentFor(j, v, m) == j.at - v.since[m]

\* the three queries of the sweep; each sees what the one before it flushed
SilentSince(j, v, m, days) == v.since[m] # Never /\ SilentFor(j, v, m) >= days

Warned(j, v, m) == v.status[m] = "ACTIVE" /\ SilentSince(j, v, m, WarnAfter) /\ v.stage[m] < 1

\* Mutant: members of any status
FallsDormantAnyway(j, v, m) ==
    SilentSince(j, v, m, DormantAfter) /\ v.stage[m] < 2 /\ v.status[m] # "absent"

\* Mutant: only on the day itself
FallsDormantThatDay(j, v, m) ==
    /\ v.status[m] = "ACTIVE" /\ v.stage[m] < 2
    /\ v.since[m] # Never /\ SilentFor(j, v, m) = DormantAfter

FallsDormant(j, v, m) ==
    v.status[m] = "ACTIVE" /\ SilentSince(j, v, m, DormantAfter) /\ v.stage[m] < 2

Escalated(j, v, m) ==
    /\ v.status[m] = "DORMANT" \/ FallsDormant(j, v, m)
    /\ SilentSince(j, v, m, EscalateAfter) /\ v.stage[m] < 3

Noticed(j, v, m) == {k \in Stages : \/ k = 1 /\ Warned(j, v, m)
                                    \/ k = 2 /\ FallsDormant(j, v, m)
                                    \/ k = 3 /\ Escalated(j, v, m)}

\* Mutant: a stage is recorded only when the status changes with it
StageOfDormant(j, v, m) == IF FallsDormant(j, v, m) THEN 2 ELSE v.stage[m]

StageAfter(j, v, m) ==
    IF Noticed(j, v, m) = {} THEN v.stage[m]
    ELSE CHOOSE k \in Noticed(j, v, m) : \A i \in Noticed(j, v, m) : i <= k

SomebodySilent(j, v) == \E m \in Members : Noticed(j, v, m) # {}

Swept(j, v, d) ==
    [d EXCEPT !.status  = [m \in Members |-> IF FallsDormant(j, v, m) THEN "DORMANT" ELSE @[m]],
              !.stage   = [m \in Members |->
                              IF Noticed(j, v, m) # {} THEN StageAfter(j, v, m) ELSE @[m]],
              !.notices = [m \in Members |-> [k \in Stages |->
                              IF k \in Noticed(j, v, m) THEN @[m][k] + 1 ELSE @[m][k]]]]

SweepJobs == [at : {now}, sent : {FALSE}]

\* sweep_dormant_members, started by staff
TriggerSweep(s) ==
    /\ served < MaxRequests
    /\ \E j \in SweepJobs : /\ SomebodySilent(j, MembersRead(j, db))
                            /\ Opened(s, "sweep", j, MembersRead(j, db))
    /\ served' = served + 1

\* _run_dormancy_sweep_job.  It does not count as a request.
StartDailySweep ==
    /\ \E j \in SweepJobs :
          /\ SomebodySilent(j, MembersRead(j, db))
          /\ Opened(Scheduler, "daily_sweep", j, MembersRead(j, db))
    /\ UNCHANGED served

Sweeps == {"sweep", "daily_sweep"}

Sweeping(s) == session[s].op \in Sweeps

\* dispatch, one member after the other, inside the transaction of the sweep:
\* taken as one step, between its queries and its commit
SendNotices(s) ==
    /\ Sweeping(s) /\ ~session[s].job.sent
    /\ LET work == session[s] IN
       db' = [db EXCEPT !.sent = [m \in Members |-> @[m] \cup Noticed(work.job, work.view, m)]]
    /\ session' = [session EXCEPT ![s].job.sent = TRUE]
    /\ UNCHANGED <<served, desk, now>>

\* The rows of the members a sweep writes are guarded.  The others it has only
\* read, and update_member and exit_member read no row of a sweep.
SameSilent(j, view, rows) ==
    \A m \in Members : Noticed(j, view, m) # {} =>
        /\ rows.status[m] = view.status[m]
        /\ rows.since[m] = view.since[m]
        /\ rows.stage[m] = view.stage[m]

\* the commit at the end of either sweep
FinishSweep(s) ==
    /\ Sweeping(s) /\ session[s].job.sent
    /\ LET work == session[s] IN
       Committed(s, work.op, SameSilent(work.job, work.view, MembersRead(work.job, db)),
                 Swept(work.job, work.view, db))

-----------------------------------------------------------------------------
\* the session s commits a handler in this step
Commits(s, op) == session[s].op = op /\ session'[s] = Idle /\ db' # db

\* Nobody exits with an active loan: a disbursement that runs beside the exit
\* either is seen by it or is refused, or makes the exit's commit refused.
ExitsCleared ==
    [][\A s \in Sessions :
          Commits(s, "exit") => ~db.borrows[session[s].job.member]]_<<db, session>>

\* A sweep, scheduled or started by staff, only takes an active member to
\* dormant: it never undoes an exit, a suspension or a reactivation that
\* happened while it ran.
SweepKeepsDecisions ==
    [][\A s \in Sessions : Commits(s, "sweep") \/ Commits(s, "daily_sweep") =>
          \A m \in Members : db'.status[m] # db.status[m] =>
              db.status[m] = "ACTIVE" /\ db'.status[m] = "DORMANT"]_<<db, session>>

\* However many sweeps overlap and whatever staff do to a member in between,
\* there is one Notification row for each stage, the row of the member records
\* the stage, and the message has left the server.  The converse is not true:
\* a sweep that fails or is refused has sent its messages, leaves no row, and
\* the next sweep sends them again.
NoticesOnce ==
    \A m \in Members : \A k \in Stages :
        /\ db.notices[m][k] <= 1
        /\ db.notices[m][k] = 1 => db.stage[m] >= k /\ k \in db.sent[m]

\* A member with a dated activity who is silent for the dormancy period and
\* has not been through it before does not stay active for ever: the daily
\* sweep finds the member, or staff decide otherwise.
SilentFallDormant ==
    \A m \in Members :
        ("daily_sweep" \in desk /\ db.status[m] = "ACTIVE" /\ db.stage[m] < 2
            /\ db.since[m] # Never /\ now - db.since[m] >= DormantAfter)
        ~> ~(db.status[m] = "ACTIVE" /\ db.stage[m] < 2)
=============================================================================
