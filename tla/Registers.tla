------------------------------ MODULE Registers ------------------------------
(***************************************************************************)
(* The registers of the back office whose handlers check before they       *)
(* write: regulatory reports, risk flags, and the news, which fill         *)
(* themselves when they are read and found empty.                          *)
(*                                                                         *)
(*   db.report[r]      the status of a report to the regulator             *)
(*   db.submitted[r]   the audit rows that say it was submitted            *)
(*   db.flag[f]        the status of a risk flag                           *)
(*   db.news[n]        the rows of the sacco_news table with item n        *)
(***************************************************************************)
EXTENDS Requests

CONSTANTS Reports,
          Flags,
          SeedNews,    \* DEFAULT_SEED_NEWS
          StaffNews    \* what the staff may post

ASSUME RegistersAssumption == SeedNews # {} /\ SeedNews \cap StaffNews = {}

News == SeedNews \cup StaffNews

RegisterTables == [report    |-> [r \in Reports |-> "none"],
                   submitted |-> [r \in Reports |-> 0],
                   flag      |-> [f \in Flags |-> "none"],
                   news      |-> [n \in News |-> 0]]

RegistersTypeOK ==
    /\ db.report \in [Reports -> {"none", "prepared", "submitted"}]
    /\ db.submitted \in [Reports -> Nat]
    /\ db.flag \in [Flags -> {"none", "open", "resolved"}]
    /\ db.news \in [News -> Nat]

-----------------------------------------------------------------------------
ReportJobs == [report : Reports]

ReportRead(j, d) == d.report[j.report]

NotPrepared(j, v) == v = "none"

ReportPrepared(j, v, d) == [d EXCEPT !.report[j.report] = "prepared"]

\* create_compliance_report
CreateComplianceReport(s) ==
    Serves(s, "report", ReportJobs, ReportRead, NotPrepared, ReportPrepared)

\* Mutant: a report may be submitted again
Exists(j, v) == v # "none"

NotSubmitted(j, v) == v = "prepared"

\* the audit row is written with the report
ReportSubmitted(j, v, d) ==
    [d EXCEPT !.report[j.report] = "submitted", !.submitted[j.report] = @ + 1]

\* submit_compliance_report
SubmitComplianceReport(s) ==
    Serves(s, "submit", ReportJobs, ReportRead, NotSubmitted, ReportSubmitted)

-----------------------------------------------------------------------------
FlagJobs == [flag : Flags]

FlagRead(j, d) == d.flag[j.flag]

NotRaised(j, v) == v = "none"

FlagRaised(j, v, d) == [d EXCEPT !.flag[j.flag] = "open"]

\* raise_risk_flag
RaiseRiskFlag(s) == Serves(s, "flag", FlagJobs, FlagRead, NotRaised, FlagRaised)

IsRaised(j, v) == v # "none"

FlagResolved(j, v, d) == [d EXCEPT !.flag[j.flag] = "resolved"]

\* resolve_risk_flag, also of a flag that is resolved already
ResolveRiskFlag(s) == Serves(s, "resolve", FlagJobs, FlagRead, IsRaised, FlagResolved)

-----------------------------------------------------------------------------
SeedJobs == [table : {"sacco_news"}]

NewsRead(j, d) == d.news

IsEmpty(j, v) == \A n \in News : v[n] = 0

NewsSeeded(j, v, d) == [d EXCEPT !.news = [n \in News |-> IF n \in SeedNews THEN @[n] + 1 ELSE @[n]]]

\* Two readers each look for the rows that the other one writes.  What staff
\* post meanwhile is not looked for.
SameSeeds(j, v, rows) == \A n \in SeedNews : rows[n] = v[n]

\* list_published_news and list_all_news_for_admin: both call
\* seed_default_news_if_empty, which commits
ListNews(s) ==
    ServesWhile(s, "news_list", SeedJobs, NewsRead, IsEmpty, SameSeeds, NewsSeeded)

PostJobs == [item : StaffNews]

ItemRead(j, d) == d.news[j.item]

NewItem(j, v) == v = 0

NewsPosted(j, v, d) == [d EXCEPT !.news[j.item] = @ + 1]

\* create_news
CreateNews(s) == Serves(s, "news_post", PostJobs, ItemRead, NewItem, NewsPosted)

DeleteJobs == [item : News]

ItemExists(j, v) == v > 0

NewsDeleted(j, v, d) == [d EXCEPT !.news[j.item] = v - 1]

\* delete_news
DeleteNews(s) == Serves(s, "news_delete", DeleteJobs, ItemRead, ItemExists, NewsDeleted)

-----------------------------------------------------------------------------
\* A report is submitted once, and the audit log says so once: marking it is
\* "a one-way action", also for two managers at the same time.
SubmittedOnce ==
    \A r \in Reports :
        db.submitted[r] = IF db.report[r] = "submitted" THEN 1 ELSE 0

\* The news that come with the system are there once: two first readers do not
\* both fill the table, and what staff posts or deletes does not bring them
\* back while something is left.
SeededOnce == \A n \in SeedNews : db.news[n] <= 1

\* What is done once is done once, however many requests find it undone: the
\* submission of a report, and the filling of an empty news table.
OnceOnly == SubmittedOnce /\ SeededOnce
=============================================================================
