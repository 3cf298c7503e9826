------------------------ MODULE LoanOriginationProofs ------------------------
(***************************************************************************)
(* Theorems about LoanOrigination, for any guarantors, group guarantees    *)
(* and number of requests.                                                 *)
(***************************************************************************)
EXTENDS LoanOrigination, TLAPS

\* What a request makes of the rows are rows.
LEMMA AfterIsView ==
    ASSUME NEW j \in [kind : Kinds, of : Subjects], NEW v \in Views
    PROVE  After(j, v) \in Views
<1> USE DEF Views, Statuses, Open, Answers, Consents
<1>1. CASE j.kind = "accept"
  BY <1>1 DEF After
<1>2. CASE j.kind = "decline"
  BY <1>2 DEF After
<1>3. CASE j.kind = "ask_group"
  BY <1>3 DEF After
<1>4. CASE j.kind = "approve_group"
  BY <1>4 DEF After
<1>5. CASE j.kind = "return"
  BY <1>5 DEF After
<1>6. CASE j.kind = "approve"
  BY <1>6 DEF After
<1>7. CASE j.kind = "reject"
  BY <1>7 DEF After
<1>8. CASE j.kind = "disburse"
  BY <1>8 DEF After
<1>9. j.kind \in Kinds
  OBVIOUS
<1> QED
  BY <1>1, <1>2, <1>3, <1>4, <1>5, <1>6, <1>7, <1>8, <1>9 DEF Kinds

\* What an idle session has, and what a session may have read.
LEMMA IdleValues == Unread \in Views /\ NoJob \in [kind : Kinds, of : Subjects]
BY DEF Unread, NoJob, Views, Statuses, Answers, Consents, Kinds, Subjects

\* The rows are something a session may read.
LEMMA CurrentIsView == TypeOK => Current \in Views
BY DEF TypeOK, Current, Views

\* Every request leaves the rows and the sessions in their types, whatever
\* the database guarantees.
THEOREM TypeCorrect == Spec => []TypeOK
<1>1. Init => TypeOK
  BY IdleValues DEF Init, TypeOK, Unread, Statuses, Answers, Consents
<1>2. TypeOK /\ [Next]_vars => TypeOK'
  <2> SUFFICES ASSUME TypeOK, [Next]_vars
               PROVE  TypeOK'
    OBVIOUS
  <2> USE DEF TypeOK
  <2>1. ASSUME NEW named \in SUBSET Guarantors, Apply(named)
        PROVE  TypeOK'
    BY <2>1 DEF Apply, sessions, Statuses, Open, Answers
  <2>2. ASSUME NEW s \in Sessions, NEW k \in Kinds, NEW x \in Subjects, Begin(s, k, x)
        PROVE  TypeOK'
    BY <2>2, CurrentIsView DEF Begin, loan
  <2>3. ASSUME NEW s \in Sessions, Commit(s)
        PROVE  TypeOK'
    <3> DEFINE new == After(job[s], view[s])
    <3>1. new \in Views /\ view[s] \in Views
      BY AfterIsView
    <3>2. status' \in Statuses
      BY <2>3, <3>1 DEF Commit, Update, Views
    <3>3. answer' \in [Guarantors -> Answers]
      BY <2>3, <3>1 DEF Commit, Update, Views
    <3>4. consent' \in [Guarantees -> Consents]
      BY <2>3, <3>1 DEF Commit, Update, Views
    <3>5. payouts' \in Nat
      BY <2>3 DEF Commit
    <3>6. stale' \in [Sessions -> BOOLEAN]
      BY <2>3 DEF Commit
    <3>7. phase' \in [Sessions -> {"idle", "working"}] /\ view' \in [Sessions -> Views]
          /\ job' \in [Sessions -> [kind : Kinds, of : Subjects]]
      BY <2>3, IdleValues DEF Commit, End
    <3> QED
      BY <2>3, <3>2, <3>3, <3>4, <3>5, <3>6, <3>7 DEF Commit
  <2>4. ASSUME NEW s \in Sessions, Fail(s)
        PROVE  TypeOK'
    BY <2>4, IdleValues DEF Fail, End, loan
  <2>5. CASE UNCHANGED vars
    BY <2>5 DEF vars, loan, sessions
  <2> QED
    BY <2>1, <2>2, <2>3, <2>4, <2>5 DEF Next
<1> QED
  BY <1>1, <1>2, PTL DEF Spec

-----------------------------------------------------------------------------
(* The inductive invariant about sessions: what a running request read     *)
(* passed its checks, and still holds unless it was marked stale.          *)

RightSubject(j) ==
    /\ j.kind \in {"accept", "decline"} => j.of \in Guarantors
    /\ j.kind \in {"ask_group", "approve_group"} => j.of \in Guarantees

Agrees(j, v) ==
    \A x \in Reads(j) :
        /\ x = "loan" => v.status = status
        /\ x \in Guarantors => v.answer[x] = answer[x]
        /\ x \in Guarantees => v.consent[x] = consent[x]

SessionsKnow ==
    \A s \in Sessions :
        phase[s] = "working" =>
            /\ RightSubject(job[s])
            /\ Passes(job[s].kind, job[s].of, view[s])
            /\ ~ stale[s] => Agrees(job[s], view[s])

IdleIsFresh == \A s \in Sessions : phase[s] = "idle" => ~ stale[s]

PaidIsActive == payouts = IF status = "active" THEN 1 ELSE 0

NoneBefore == status = "none" => \A s \in Sessions : phase[s] = "idle"

IInv ==
    /\ TypeOK
    /\ NoneBefore
    /\ SessionsKnow
    /\ IdleIsFresh
    /\ PaidIsActive
    /\ ApprovedIsGuaranteed

\* A session that commits works on a job that its handler's checks passed.
LEMMA CommittedJob ==
    ASSUME TypeOK, SessionsKnow, Isolation = "serializable", NEW s \in Sessions, Commit(s)
    PROVE  /\ job[s].kind \in Kinds
           /\ RightSubject(job[s])
           /\ Passes(job[s].kind, job[s].of, view[s])
           /\ Agrees(job[s], view[s])
           /\ view[s] \in Views
BY DEF Commit, MayCommit, SessionsKnow, TypeOK

\* The effect of each commit on the loan, in a serializable database.
LEMMA Effects ==
    ASSUME TypeOK, SessionsKnow, Isolation = "serializable", NEW s \in Sessions, Commit(s)
    PROVE  \/ /\ status' = status /\ payouts' = payouts
              /\ \A g \in Guarantors : answer'[g] # answer[g] => answer'[g] # "pending"
              /\ \/ status \in Open
                 \/ \A q \in Guarantees : consent'[q] # consent[q] => consent'[q] # "asked"
           \/ /\ status \in Open
              /\ status' \in {"under_review", "rejected"} /\ payouts' = payouts
           \/ /\ status \in Open /\ NobodyPending(Current)
              /\ status' = "approved" /\ payouts' = payouts
              /\ answer' = answer /\ consent' = consent
           \/ /\ status = "approved"
              /\ status' = "active" /\ payouts' = payouts + 1
              /\ answer' = answer /\ consent' = consent
<1> DEFINE j == job[s]
           v == view[s]
           new == After(j, v)
<1>1. /\ j.kind \in Kinds /\ RightSubject(j) /\ Passes(j.kind, j.of, v)
      /\ Agrees(j, v) /\ v \in Views
  BY CommittedJob
<1>2. /\ status' = Update(status, v.status, new.status)
      /\ answer' = [g \in Guarantors |-> Update(answer[g], v.answer[g], new.answer[g])]
      /\ consent' = [q \in Guarantees |-> Update(consent[q], v.consent[q], new.consent[q])]
      /\ payouts' = IF j.kind = "disburse" THEN payouts + 1 ELSE payouts
  BY DEF Commit
<1>3. /\ answer = [g \in Guarantors |-> answer[g]]
      /\ consent = [q \in Guarantees |-> consent[q]]
  BY DEF TypeOK
<1> HIDE DEF j, v
<1>4. CASE j.kind = "accept"
  <2>1. new = [v EXCEPT !.answer[j.of] = "accepted"]
    BY <1>4 DEF After
  <2>2. status' = status /\ consent' = consent /\ payouts' = payouts
    BY <1>1, <1>2, <1>3, <1>4, <2>1 DEF Update, Views
  <2>3. \A g \in Guarantors : answer'[g] # answer[g] => answer'[g] = "accepted"
    BY <1>1, <1>2, <2>1 DEF Update, Views
  <2> QED
    BY <2>2, <2>3
<1>5. CASE j.kind = "decline"
  <2>1. new = [v EXCEPT !.answer[j.of] = "declined"]
    BY <1>5 DEF After
  <2>2. status' = status /\ consent' = consent /\ payouts' = payouts
    BY <1>1, <1>2, <1>3, <1>5, <2>1 DEF Update, Views
  <2>3. \A g \in Guarantors : answer'[g] # answer[g] => answer'[g] = "declined"
    BY <1>1, <1>2, <2>1 DEF Update, Views
  <2> QED
    BY <2>2, <2>3
<1>6. CASE j.kind = "ask_group"
  <2>1. new = [v EXCEPT !.consent[j.of] = "asked"]
    BY <1>6 DEF After
  <2>2. status' = status /\ answer' = answer /\ payouts' = payouts
    BY <1>1, <1>2, <1>3, <1>6, <2>1 DEF Update, Views
  <2>3. status \in Open
    BY <1>1, <1>6 DEF Agrees, Reads, Passes, MayApprove
  <2> QED
    BY <2>2, <2>3
<1>7. CASE j.kind = "approve_group"
  <2>1. new = [v EXCEPT !.consent[j.of] = "approved"]
    BY <1>7 DEF After
  <2>2. status' = status /\ answer' = answer /\ payouts' = payouts
    BY <1>1, <1>2, <1>3, <1>7, <2>1 DEF Update, Views
  <2>3. \A q \in Guarantees : consent'[q] # consent[q] => consent'[q] = "approved"
    BY <1>1, <1>2, <2>1 DEF Update, Views
  <2> QED
    BY <2>2, <2>3
<1>8. CASE j.kind \in {"return", "approve", "reject", "disburse"}
  <2>1. new.answer = v.answer /\ new.consent = v.consent
    BY <1>1, <1>8 DEF After, Views
  <2>2. answer' = answer /\ consent' = consent
    BY <1>2, <1>3, <2>1 DEF Update
  <2>3. v.status = status
    BY <1>1, <1>8 DEF Agrees, Reads, Subjects
  <2>4. CASE j.kind = "return"
    <3>1. status \in Open /\ payouts' = payouts /\ new.status = "under_review"
      BY <1>1, <1>2, <2>3, <2>4 DEF Passes, MayApprove, After, Views
    <3> QED
      BY <1>2, <2>3, <3>1 DEF Update
  <2>5. CASE j.kind = "approve"
    <3>1. status \in Open /\ payouts' = payouts /\ new.status = "approved"
      BY <1>1, <1>2, <2>3, <2>5 DEF Passes, MayApprove, After, Views
    <3>2. NobodyPending(v)
      BY <1>1, <2>5 DEF Passes, MayApprove
    <3>3. (\A g \in Guarantors : v.answer[g] = answer[g]) /\ (\A q \in Guarantees : v.consent[q] = consent[q])
      BY <1>1, <2>5 DEF Agrees, Reads, Subjects
    <3>4. NobodyPending(Current)
      BY <3>2, <3>3 DEF NobodyPending, Current
    <3> QED
      BY <1>2, <2>2, <2>3, <3>1, <3>4 DEF Update
  <2>6. CASE j.kind = "reject"
    <3>1. status \in Open /\ payouts' = payouts /\ new.status = "rejected"
      BY <1>1, <1>2, <2>3, <2>6 DEF Passes, MayApprove, After, Views
    <3> QED
      BY <1>2, <2>3, <3>1 DEF Update
  <2>7. CASE j.kind = "disburse"
    <3>1. status = "approved" /\ payouts' = payouts + 1 /\ new.status = "active"
      BY <1>1, <1>2, <2>3, <2>7 DEF Passes, MayApprove, After, Views
    <3> QED
      BY <1>2, <2>2, <2>3, <3>1 DEF Update
  <2> QED
    BY <1>8, <2>4, <2>5, <2>6, <2>7
<1> QED
  BY <1>1, <1>4, <1>5, <1>6, <1>7, <1>8 DEF Kinds

\* A handler reads subjects.
LEMMA ReadsAreSubjects ==
    ASSUME NEW j \in [kind : Kinds, of : Subjects]
    PROVE  Reads(j) \subseteq Subjects
BY DEF Reads, Subjects, Kinds

\* A session that begins knows what it read.
LEMMA BeginKnows ==
    ASSUME TypeOK, SessionsKnow, IdleIsFresh,
           NEW s \in Sessions, NEW k \in Kinds, NEW x \in Subjects, Begin(s, k, x)
    PROVE  SessionsKnow' /\ IdleIsFresh'
<1> USE DEF TypeOK
<1>0. UNCHANGED <<status, answer, consent, stale>>
  BY DEF Begin, loan
<1>1. ASSUME NEW r \in Sessions, r # s
      PROVE  phase'[r] = phase[r] /\ job'[r] = job[r] /\ view'[r] = view[r]
  BY <1>1 DEF Begin
<1>2. phase'[s] = "working" /\ job'[s] = [kind |-> k, of |-> x] /\ view'[s] = Current
  BY DEF Begin
<1>3. RightSubject(job'[s])
  BY <1>2 DEF Begin, RightSubject, SubjectsOf
<1>4. Passes(k, x, Current)
  BY DEF Begin
<1>5. ASSUME NEW r \in Sessions, phase'[r] = "working"
      PROVE  (/\ RightSubject(job[r])
              /\ Passes(job[r].kind, job[r].of, view[r])
              /\ ~ stale[r] => Agrees(job[r], view[r]))'
  <2>1. CASE r = s
    <3>1. Agrees(job[r], view[r])'
      BY <1>0, <1>2, <2>1 DEF Agrees, Current
    <3> QED
      BY <1>2, <1>3, <1>4, <2>1, <3>1
  <2>2. CASE r # s
    <3>1. /\ RightSubject(job[r]) /\ Passes(job[r].kind, job[r].of, view[r])
          /\ ~ stale[r] => Agrees(job[r], view[r])
      BY <1>1, <1>5, <2>2 DEF SessionsKnow
    <3> QED
      BY <1>0, <1>1, <2>2, <3>1 DEF Agrees
  <2> QED
    BY <2>1, <2>2
<1>6. IdleIsFresh'
  BY <1>0, <1>1, <1>2 DEF IdleIsFresh
<1> QED
  BY <1>5, <1>6 DEF SessionsKnow

\* The sessions that a commit leaves working are stale, or see what they saw.
LEMMA CommitKnows ==
    ASSUME TypeOK, SessionsKnow, IdleIsFresh, NEW s \in Sessions, Commit(s)
    PROVE  SessionsKnow' /\ IdleIsFresh'
<1> USE DEF TypeOK
<1>1. /\ phase' = [phase EXCEPT ![s] = "idle"] /\ job' = [job EXCEPT ![s] = NoJob]
      /\ view' = [view EXCEPT ![s] = Unread]
      /\ stale' = [r \in Sessions |->
            /\ r # s
            /\ stale[r] \/ (phase[r] = "working" /\ Reads(job[r]) \cap Changed # {})]
  BY DEF Commit, End
<1>2. ASSUME NEW r \in Sessions, phase'[r] = "working"
      PROVE  (/\ RightSubject(job[r])
              /\ Passes(job[r].kind, job[r].of, view[r])
              /\ ~ stale[r] => Agrees(job[r], view[r]))'
  <2>1. r # s /\ phase[r] = "working" /\ job'[r] = job[r] /\ view'[r] = view[r]
    BY <1>1, <1>2
  <2>2. /\ RightSubject(job[r]) /\ Passes(job[r].kind, job[r].of, view[r])
        /\ ~ stale[r] => Agrees(job[r], view[r])
    BY <2>1 DEF SessionsKnow
  <2>3. ASSUME ~ stale'[r]
        PROVE  Agrees(job[r], view[r])'
    <3>1. ~ stale[r] /\ Reads(job[r]) \cap Changed = {}
      BY <1>1, <2>1, <2>3
    <3>2. Reads(job[r]) \subseteq Subjects
      BY ReadsAreSubjects
    <3>3. \A x \in Reads(job[r]) :
            /\ x = "loan" => status' = status
            /\ x \in Guarantors => answer'[x] = answer[x]
            /\ x \in Guarantees => consent'[x] = consent[x]
      BY <3>1, <3>2 DEF Changed
    <3> QED
      BY <2>1, <2>2, <3>1, <3>3 DEF Agrees
  <2> QED
    BY <2>1, <2>2, <2>3
<1>3. IdleIsFresh'
  BY <1>1 DEF IdleIsFresh
<1> QED
  BY <1>2, <1>3 DEF SessionsKnow

\* The inductive invariant holds in a serializable database.
THEOREM OriginationInvariant == Isolation = "serializable" => (Spec => []IInv)
<1> SUFFICES ASSUME Isolation = "serializable"
             PROVE  Spec => []IInv
  OBVIOUS
<1>1. Init => NoneBefore /\ SessionsKnow /\ IdleIsFresh /\ PaidIsActive /\ ApprovedIsGuaranteed
  BY DEF Init, NoneBefore, SessionsKnow, IdleIsFresh, PaidIsActive, ApprovedIsGuaranteed
<1>2. TypeOK' /\ IInv /\ [Next]_vars => IInv'
  <2> SUFFICES ASSUME TypeOK', IInv, [Next]_vars
               PROVE  IInv'
    OBVIOUS
  <2>0. TypeOK /\ NoneBefore /\ SessionsKnow /\ IdleIsFresh /\ PaidIsActive /\ ApprovedIsGuaranteed
    BY DEF IInv
  <2>1. ASSUME NEW named \in SUBSET Guarantors, Apply(named)
        PROVE  IInv'
    <3>1. status' = "pending" /\ status = "none" /\ payouts' = payouts
      BY <2>1 DEF Apply
    <3>2. \A r \in Sessions : phase[r] = "idle" /\ phase'[r] = "idle" /\ stale'[r] = stale[r]
      BY <2>0, <2>1, <3>1 DEF NoneBefore, Apply, sessions
    <3> QED
      BY <2>0, <3>1, <3>2
         DEF IInv, NoneBefore, SessionsKnow, IdleIsFresh, PaidIsActive, ApprovedIsGuaranteed
  <2>2. ASSUME NEW s \in Sessions, NEW k \in Kinds, NEW x \in Subjects, Begin(s, k, x)
        PROVE  IInv'
    <3>1. SessionsKnow' /\ IdleIsFresh'
      BY <2>0, <2>2, BeginKnows
    <3>2. UNCHANGED loan /\ status # "none"
      BY <2>2 DEF Begin
    <3> QED
      BY <2>0, <3>1, <3>2
         DEF IInv, loan, NoneBefore, PaidIsActive, ApprovedIsGuaranteed, NobodyPending, Current
  <2>3. ASSUME NEW s \in Sessions, Commit(s)
        PROVE  IInv'
    <3>1. SessionsKnow' /\ IdleIsFresh'
      BY <2>0, <2>3, CommitKnows
    <3>2. NoneBefore'
      <4>1. phase[s] = "working" /\ status # "none"
        BY <2>0, <2>3 DEF Commit, MayCommit, NoneBefore
      <4> QED
        BY <2>0, <2>3, <4>1, Effects DEF NoneBefore, Open
    <3>3. PaidIsActive'
      BY <2>0, <2>3, Effects DEF PaidIsActive, Open
    <3>4. ApprovedIsGuaranteed'
      <4>1. CASE status' = status
        <5>1. CASE status \in {"approved", "active"}
          BY <2>0, <2>3, <4>1, <5>1, Effects DEF ApprovedIsGuaranteed, NobodyPending, Current, Open
        <5>2. CASE status \notin {"approved", "active"}
          BY <4>1, <5>2 DEF ApprovedIsGuaranteed
        <5> QED
          BY <5>1, <5>2
      <4>2. CASE status' # status
        BY <2>0, <2>3, <4>2, Effects DEF ApprovedIsGuaranteed, NobodyPending, Current, Open
      <4> QED
        BY <4>1, <4>2
    <3> QED
      BY <3>1, <3>2, <3>3, <3>4 DEF IInv
  <2>4. ASSUME NEW s \in Sessions, Fail(s)
        PROVE  IInv'
    <3>1. UNCHANGED loan
      BY <2>4 DEF Fail
    <3>2. \A r \in Sessions :
            \/ r = s /\ phase'[r] = "idle" /\ ~ stale'[r]
            \/ r # s /\ phase'[r] = phase[r] /\ job'[r] = job[r]
                     /\ view'[r] = view[r] /\ stale'[r] = stale[r]
      BY <2>0, <2>4 DEF Fail, End, TypeOK
    <3>3. NoneBefore' /\ IdleIsFresh'
      BY <2>0, <3>1, <3>2 DEF NoneBefore, IdleIsFresh, loan
    <3>4. ASSUME NEW r \in Sessions, phase'[r] = "working"
          PROVE  (/\ RightSubject(job[r])
                  /\ Passes(job[r].kind, job[r].of, view[r])
                  /\ ~ stale[r] => Agrees(job[r], view[r]))'
      <4>1. /\ phase'[r] = phase[r] /\ job'[r] = job[r]
            /\ view'[r] = view[r] /\ stale'[r] = stale[r]
        BY <3>2, <3>4
      <4>2. /\ RightSubject(job[r]) /\ Passes(job[r].kind, job[r].of, view[r])
            /\ ~ stale[r] => Agrees(job[r], view[r])
        BY <2>0, <3>4, <4>1 DEF SessionsKnow
      <4> QED
        BY <3>1, <4>1, <4>2 DEF Agrees, loan
    <3>5. SessionsKnow'
      BY <3>4 DEF SessionsKnow
    <3> QED
      BY <2>0, <3>1, <3>3, <3>5
         DEF IInv, loan, PaidIsActive, ApprovedIsGuaranteed, NobodyPending, Current
  <2>5. CASE UNCHANGED vars
    BY <2>0, <2>5 DEF vars, loan, sessions, IInv, NoneBefore, SessionsKnow, IdleIsFresh,
       PaidIsActive, ApprovedIsGuaranteed, NobodyPending, Current, Agrees
  <2> QED
    BY <2>1, <2>2, <2>3, <2>4, <2>5 DEF Next
<1> QED
  BY <1>1, <1>2, TypeCorrect, PTL DEF Spec, IInv

\* In a serializable database no loan is approved with a guarantor or a
\* group guarantee pending, and none becomes pending once it is.
THEOREM GuaranteesAnswered == Isolation = "serializable" => (Spec => []ApprovedIsGuaranteed)
<1>1. IInv => ApprovedIsGuaranteed
  BY DEF IInv
<1> QED
  BY <1>1, OriginationInvariant, PTL

\* In a serializable database, whatever requests overlap, a loan is
\* disbursed at most once.
THEOREM OnePayout == Isolation = "serializable" => (Spec => []DisbursedOnce)
<1>1. IInv => DisbursedOnce
  BY DEF IInv, PaidIsActive, DisbursedOnce
<1> QED
  BY <1>1, OriginationInvariant, PTL

\* In a serializable database every request is a step of the lifecycle: an
\* application is decided once, a decision is not overwritten, and only an
\* approved loan is paid.
THEOREM ImplementsLifecycle == Isolation = "serializable" => (Spec => LifecycleSpec)
<1> SUFFICES ASSUME Isolation = "serializable"
             PROVE  Spec => LifecycleSpec
  OBVIOUS
<1> USE DEF Lifecycle!Next, Lifecycle!Submit, Lifecycle!Return, Lifecycle!Decide,
            Lifecycle!PayOut, Lifecycle!Open
<1>1. Init => Lifecycle!Init
  BY DEF Init, Lifecycle!Init
<1>2. IInv /\ [Next]_vars => [Lifecycle!Next]_<<status, payouts>>
  <2> SUFFICES ASSUME IInv, [Next]_vars
               PROVE  [Lifecycle!Next]_<<status, payouts>>
    OBVIOUS
  <2>1. ASSUME NEW named \in SUBSET Guarantors, Apply(named)
        PROVE  Lifecycle!Submit
    BY <2>1 DEF Apply
  <2>2. ASSUME NEW s \in Sessions, Commit(s)
        PROVE  [Lifecycle!Next]_<<status, payouts>>
    BY <2>2, Effects DEF IInv, PaidIsActive, Open
  <2>3. CASE UNCHANGED loan
    BY <2>3 DEF loan
  <2>4. \/ \E named \in SUBSET Guarantors : Apply(named)
        \/ \E s \in Sessions : Commit(s)
        \/ UNCHANGED loan
    BY DEF Next, Begin, Fail, vars
  <2> QED
    BY <2>1, <2>2, <2>3, <2>4
<1> QED
  BY <1>1, <1>2, OriginationInvariant, PTL DEF Spec, LifecycleSpec, Lifecycle!Spec
=============================================================================
