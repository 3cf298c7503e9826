--------------------------- MODULE LoanOrigination ---------------------------
(***************************************************************************)
(* A loan application from its submission to its disbursement: guarantors  *)
(* who answer, group guarantees that staff ask for and approve, the        *)
(* correction round, the decision and the payout at the counter.           *)
(*                                                                         *)
(* Each request is a session: it reads rows, checks them, and commits the  *)
(* columns it changed.  Nothing locks what it read.  A request whose check *)
(* fails changes nothing and is not a step.                                *)
(***************************************************************************)
EXTENDS Naturals, FiniteSets

CONSTANTS Guarantors,    \* the rows of guarantors an application may name
          MinGuarantors, \* LoanProduct.min_guarantors, 0 when none is required
          Guarantees,    \* ids of group guarantees
          Sessions,
          Isolation,     \* "read_committed" or "serializable"
          MaxRequests    \* bound on requests

ASSUME RulesAssumption == MinGuarantors \in Nat
ASSUME NamesAssumption ==
    /\ Guarantors \cap Guarantees = {}
    /\ "loan" \notin Guarantors \cup Guarantees
ASSUME InstanceAssumption ==
    /\ Isolation \in {"read_committed", "serializable"}
    /\ MaxRequests \in Nat

\* Mutant: an approved application is still open
OpenAfterApproval == {"pending", "under_review", "approved"}

Open     == {"pending", "under_review"}
Statuses == Open \cup {"none", "approved", "rejected", "active"}
Answers  == {"unnamed", "pending", "accepted", "declined"}
Consents == {"absent", "asked", "approved"}
Subjects == {"loan"} \cup Guarantors \cup Guarantees
Kinds    == {"accept", "decline", "ask_group", "approve_group",
             "return", "approve", "reject", "disburse"}

VARIABLES
    status,   \* LoanApplication.status, "none" before it is submitted
    answer,   \* Guarantor.status of each row
    consent,  \* GroupLoanGuarantee rows: not there, asked for, approved
    payouts,  \* disbursements of the loan
    phase,    \* "idle" or "working", for each session
    job,      \* what the session does, and to whom
    view,     \* the rows as the session read them
    stale,    \* whether one of the rows it read has changed since
    requests  \* requests so far

loan     == <<status, answer, consent, payouts>>
sessions == <<phase, job, view, stale, requests>>
vars     == <<loan, sessions>>

NoJob  == [kind |-> "return", of |-> "loan"]
Unread == [status |-> "none",
           answer |-> [g \in Guarantors |-> "unnamed"],
           consent |-> [q \in Guarantees |-> "absent"]]
Views  == [status : Statuses, answer : [Guarantors -> Answers],
           consent : [Guarantees -> Consents]]

TypeOK ==
    /\ status \in Statuses
    /\ answer \in [Guarantors -> Answers]
    /\ consent \in [Guarantees -> Consents]
    /\ payouts \in Nat
    /\ phase \in [Sessions -> {"idle", "working"}]
    /\ job \in [Sessions -> [kind : Kinds, of : Subjects]]
    /\ view \in [Sessions -> Views]
    /\ stale \in [Sessions -> BOOLEAN]
    /\ requests \in Nat

Init ==
    /\ status = "none"
    /\ answer = Unread.answer
    /\ consent = Unread.consent
    /\ payouts = 0
    /\ phase = [s \in Sessions |-> "idle"]
    /\ job = [s \in Sessions |-> NoJob]
    /\ view = [s \in Sessions |-> Unread]
    /\ stale = [s \in Sessions |-> FALSE]
    /\ requests = 0

-----------------------------------------------------------------------------
\* apply_for_loan
Apply(named) ==
    /\ status = "none"
    /\ Cardinality(named) >= MinGuarantors
    /\ status' = "pending"
    /\ answer' = [g \in Guarantors |-> IF g \in named THEN "pending" ELSE "unnamed"]
    /\ UNCHANGED <<consent, payouts, sessions>>

\* whom a request may be about
SubjectsOf(k) ==
    CASE k \in {"accept", "decline"}          -> {g \in Guarantors : answer[g] # "unnamed"}
      [] k \in {"ask_group", "approve_group"} -> Guarantees
      [] OTHER                                -> {"loan"}

\* pending_guarantors and pending_group_guarantees
NobodyPending(v) ==
    /\ \A g \in Guarantors : v.answer[g] # "pending"
    /\ \A q \in Guarantees : v.consent[q] # "asked"

\* Mutant: the guarantees are somebody else's business
MayApproveOpen(v) == v.status \in Open

MayApprove(v) == v.status \in Open /\ NobodyPending(v)

\* The checks of the handlers on what they read.  respond_to_guarantee has
\* none, not even on the loan's status: an answer may come late or change.
Passes(k, x, v) ==
    CASE k \in {"accept", "decline"} -> TRUE
      [] k = "ask_group"             -> v.status \in Open /\ v.consent[x] = "absent"
      [] k = "approve_group"         -> v.consent[x] = "asked"
      [] k = "return"                -> v.status \in Open
      [] k = "approve"               -> MayApprove(v)
      [] k = "reject"                -> v.status \in Open
      [] k = "disburse"              -> v.status = "approved"

Current == [status |-> status, answer |-> answer, consent |-> consent]

Begin(s, k, x) ==
    /\ phase[s] = "idle"
    /\ status # "none"
    /\ requests < MaxRequests
    /\ x \in SubjectsOf(k)
    /\ Passes(k, x, Current)
    /\ phase' = [phase EXCEPT ![s] = "working"]
    /\ job' = [job EXCEPT ![s] = [kind |-> k, of |-> x]]
    /\ view' = [view EXCEPT ![s] = Current]
    /\ requests' = requests + 1
    /\ UNCHANGED <<loan, stale>>

-----------------------------------------------------------------------------
\* rows that the request has read
Reads(j) ==
    CASE j.kind \in {"accept", "decline", "approve_group"} -> {j.of}
      [] j.kind = "ask_group"                              -> {"loan", j.of}
      [] j.kind = "approve"                                -> Subjects
      [] OTHER                                             -> {"loan"}

\* what it makes of them
After(j, v) ==
    CASE j.kind = "accept"        -> [v EXCEPT !.answer[j.of] = "accepted"]
      [] j.kind = "decline"       -> [v EXCEPT !.answer[j.of] = "declined"]
      [] j.kind = "ask_group"     -> [v EXCEPT !.consent[j.of] = "asked"]
      [] j.kind = "approve_group" -> [v EXCEPT !.consent[j.of] = "approved"]
      [] j.kind = "return"        -> [v EXCEPT !.status = "under_review"]
      [] j.kind = "approve"       -> [v EXCEPT !.status = "approved"]
      [] j.kind = "reject"        -> [v EXCEPT !.status = "rejected"]
      [] j.kind = "disburse"      -> [v EXCEPT !.status = "active"]

\* the unit of work updates a column when its value is not the one it read
Update(current, read, new) == IF new # read THEN new ELSE current

\* rows whose value is not the same after the step
Changed ==
    {x \in Subjects : \/ x = "loan" /\ status' # status
                      \/ x \in Guarantors /\ answer'[x] # answer[x]
                      \/ x \in Guarantees /\ consent'[x] # consent[x]}

End(s) ==
    /\ phase' = [phase EXCEPT ![s] = "idle"]
    /\ job' = [job EXCEPT ![s] = NoJob]
    /\ view' = [view EXCEPT ![s] = Unread]

MayCommit(s) ==
    /\ phase[s] = "working"
    /\ Isolation = "serializable" => ~ stale[s]

Commit(s) ==
    LET v   == view[s]
        new == After(job[s], v)
    IN  /\ MayCommit(s)
        /\ status' = Update(status, v.status, new.status)
        /\ answer' = [g \in Guarantors |-> Update(answer[g], v.answer[g], new.answer[g])]
        /\ consent' = [q \in Guarantees |-> Update(consent[q], v.consent[q], new.consent[q])]
        /\ payouts' = IF job[s].kind = "disburse" THEN payouts + 1 ELSE payouts
        /\ stale' = [r \in Sessions |->
              /\ r # s
              /\ stale[r] \/ (phase[r] = "working" /\ Reads(job[r]) \cap Changed # {})]
        /\ End(s)
        /\ UNCHANGED requests

\* the commit is refused or fails, or the process dies
Fail(s) ==
    /\ phase[s] = "working"
    /\ End(s)
    /\ stale' = [stale EXCEPT ![s] = FALSE]
    /\ UNCHANGED <<loan, requests>>

Next ==
    \/ \E named \in SUBSET Guarantors : Apply(named)
    \/ \E s \in Sessions, k \in Kinds, x \in Subjects : Begin(s, k, x)
    \/ \E s \in Sessions : Commit(s) \/ Fail(s)

Spec == Init /\ [][Next]_vars

-----------------------------------------------------------------------------
(* Properties                                                              *)

\* No loan is approved while a guarantor has not answered or a group
\* guarantee has not been approved, and none of them becomes pending later.
ApprovedIsGuaranteed ==
    status \in {"approved", "active"} => NobodyPending(Current)

\* A product that requires guarantors has as many who accepted once its loan
\* is approved.
ApprovedIsAccepted ==
    status = "approved" =>
        Cardinality({g \in Guarantors : answer[g] = "accepted"}) >= MinGuarantors

\* The loan is disbursed once, whatever requests overlap.
DisbursedOnce == payouts <= 1

\* The module implements LoanLifecycle: an application is decided once, a
\* decision is never overwritten, and only an approved loan is paid, once.
Lifecycle == INSTANCE LoanLifecycle
LifecycleSpec == Lifecycle!Spec
=============================================================================
