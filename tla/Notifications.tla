---------------------------- MODULE Notifications ----------------------------
(***************************************************************************)
(* Messages to members: those a manager queues, which a background task    *)
(* sends after the response, and the alerts a handler sends while its own  *)
(* transaction is still open.                                              *)
(*                                                                         *)
(*   db.notice[n]      the row of message n: its status, or "none"         *)
(*   db.task           the background tasks not yet started; they live in  *)
(*                     the memory of the server and end with it            *)
(*   db.delivered[n]   what the SMS or email service took: it is outside   *)
(*                     the database, and no rollback takes it back         *)
(***************************************************************************)
EXTENDS Requests

CONSTANTS Notices,  \* messages that a manager queues
          Alerts    \* messages that a handler sends

\* where notifications are queued they are sent
ASSUME NotificationsAssumption ==
    /\ \A d \in Desks : "notify" \in d => "deliver" \in d
    /\ Notices \cap Alerts = {}

Messages == Notices \cup Alerts

NoticeTables == [notice    |-> [n \in Messages |-> "none"],
                 task      |-> {},
                 delivered |-> [n \in Messages |-> 0]]

NoticesTypeOK ==
    /\ db.notice \in [Messages -> {"none", "QUEUED", "SENT", "FAILED"}]
    /\ db.task \subseteq Notices
    /\ db.delivered \in [Messages -> Nat]

\* the messages some session is at work on
AtWork == {session[s].job.notice : s \in {t \in Sessions :
              session[t] # Idle /\ session[t].op \in {"notify", "deliver", "alert"}}}

\* those without a row, which nobody is about to write
Fresh == {n \in Messages : db.notice[n] = "none"} \ AtWork

NoticeRead(j, d) == d.notice[j.notice]

-----------------------------------------------------------------------------
NotifyJobs == [notice : Fresh \cap Notices]

NotYetThere(j, v) == v = "none"

Queued(j, v, d) == [d EXCEPT !.notice[j.notice] = "QUEUED", !.task = @ \cup {j.notice}]

\* send_notification: queue_notification, its commit, and the task it adds
SendNotification(s) == Serves(s, "notify", NotifyJobs, NoticeRead, NotYetThere, Queued)

-----------------------------------------------------------------------------
\* Mutant: a task stays in the list while it runs
StartedAndKept(n) == db.task

TasksAfter(n) == db.task \ {n}

\* _send_in_background starts on a notification
StartTask(s) ==
    /\ session[s] = Idle
    /\ \E n \in db.task :
          /\ session' = [session EXCEPT ![s] =
                 [op |-> "deliver", job |-> [notice |-> n, outcome |-> "pending"],
                  view |-> db.notice[n]]]
          /\ db' = [db EXCEPT !.task = TasksAfter(n)]
    /\ UNCHANGED <<served, desk, now>>

AlertJobs == [notice : Fresh \cap Alerts, outcome : {"pending"}]

\* A handler whose transaction includes send_member_notifications.  If it was
\* rolled back, and is asked for again, it sends its alert again.
SendAlert(s) ==
    /\ served < MaxRequests
    /\ \E j \in AlertJobs :
          /\ NotYetThere(j, NoticeRead(j, db))
          /\ Opened(s, "alert", j, NoticeRead(j, db))
    /\ served' = served + 1

\* dispatch, before the commit of the caller.  It may fail before or after
\* the service has taken the message.
Dispatch(s) ==
    /\ session[s] # Idle
    /\ session[s].op \in {"deliver", "alert"}
    /\ session[s].job.outcome = "pending"
    /\ LET n == session[s].job.notice IN
       \E outcome \in {"SENT", "FAILED"}, taken \in {0, 1} :
          /\ outcome = "SENT" => taken = 1
          /\ session' = [session EXCEPT ![s].job.outcome = outcome]
          /\ db' = [db EXCEPT !.delivered[n] = @ + taken]
    /\ UNCHANGED <<served, desk, now>>

\* Mutant: the status is set before anybody knows
AlwaysSent(j, v, d) == [d EXCEPT !.notice[j.notice] = "SENT"]

Settled(j, v, d) == [d EXCEPT !.notice[j.notice] = j.outcome]

\* the status is committed, by the task or with the rest of the handler
FinishDispatch(s) ==
    /\ session[s] # Idle
    /\ session[s].op \in {"deliver", "alert"}
    /\ session[s].job.outcome # "pending"
    /\ LET work == session[s] IN
       Committed(s, work.op, NoticeRead(work.job, db) = work.view, Settled(work.job, work.view, db))

\* The server stops: every transaction is rolled back and every task lost
ServerRestarts ==
    /\ desk \cap {"notify", "alert"} # {}
    /\ \/ db.task # {}
       \/ \E s \in Sessions : session[s] # Idle
    /\ session' = [s \in Sessions |-> Idle]
    /\ db' = [db EXCEPT !.task = {}]
    /\ UNCHANGED <<served, desk, now>>

-----------------------------------------------------------------------------
\* A message that was queued goes out once at most, although its task reads the
\* row, sends and only then commits: neither a crash nor a commit that fails has
\* it sent again.  A message of either kind that is recorded as sent went out.
\* That an alert goes out once, or only about what was committed, is not true.
SentOnce ==
    /\ \A n \in Notices : db.delivered[n] <= 1
    /\ \A n \in Messages : db.notice[n] = "SENT" => db.delivered[n] > 0

\* A task that was started comes to an end, and so does one that waits: no
\* message is held for ever by something that might still send it.
TasksEnd == \A n \in Messages : n \in db.task \cup AtWork ~> n \notin db.task \cup AtWork
=============================================================================
