----------------------------- MODULE Migrations -----------------------------
(***************************************************************************)
(* The start of the API container: `alembic upgrade head`, and the server  *)
(* when that succeeds.  The database is PostgreSQL, as in the compose file *)
(* with an .env that names it.  env.py runs all revisions in one           *)
(* transaction, so that a refused statement leaves nothing behind; the     *)
(* container is then started again.                                        *)
(*                                                                         *)
(*   tables   the committed tables                                         *)
(*   draft    the tables as the open transaction sees them                 *)
(*   todo     the statements left; head is reached when there are none     *)
(*   api      what the container does                                      *)
(*                                                                         *)
(* A statement names a table and whether it creates it, with the tables    *)
(* its foreign keys refer to.  Columns, and the indexes that are dropped   *)
(* if they exist and created again, are left out.  The revisions after the *)
(* second one are never reached from an empty database.                    *)
(***************************************************************************)
EXTENDS Sequences

VARIABLES tables, draft, todo, api

vars == <<tables, draft, todo, api>>

Create(t, refs) == [creates |-> TRUE, table |-> t, refs |-> refs]
Alter(t)        == [creates |-> FALSE, table |-> t, refs |-> {}]

\* upgrade of revision b3e3383f827d, in three parts
MemberTables ==
    <<Create("chart_of_accounts", {}), Create("dividend_declarations", {}),
      Create("employers", {}), Create("loan_products", {}), Create("member_groups", {}),
      Create("savings_products", {}), Create("share_products", {}),
      Create("members", {"employers"}),
      Create("dividend_payouts", {"dividend_declarations", "members"}),
      Create("group_contributions", {"member_groups", "members"}),
      Create("group_memberships", {"member_groups", "members"}),
      Create("next_of_kin", {"members"})>>

AccountTables ==
    <<Create("savings_accounts", {"members", "savings_products"}),
      Create("share_holdings", {"members", "share_products"}),
      Create("trusted_contacts", {"members"}), Create("users", {"members"}),
      Create("audit_logs", {"users"}), Create("compliance_reports", {"users"}),
      Create("journal_entries", {"users"}),
      Create("loan_applications", {"loan_products", "members", "savings_accounts", "users"}),
      Create("notifications", {"members", "users"}),
      Create("payroll_files", {"employers", "users"})>>

DetailTables ==
    <<Create("savings_transactions", {"savings_accounts", "users"}),
      Create("share_transactions", {"members", "share_holdings"}),
      Create("collaterals", {"loan_applications"}),
      Create("group_loan_guarantees", {"loan_applications", "member_groups"}),
      Create("guarantors", {"loan_applications", "members"}),
      Create("journal_lines", {"chart_of_accounts", "journal_entries"}),
      Create("loan_repayment_schedules", {"loan_applications"}),
      Create("loan_transactions", {"loan_applications", "users"}),
      Create("payroll_deductions",
             {"loan_applications", "members", "payroll_files", "savings_accounts"}),
      Create("risk_flags", {"loan_applications", "members", "users"})>>

Initial == MemberTables \o AccountTables \o DetailTables

\* upgrade of revision 19e650e89834
Step2 ==
    <<Alter("audit_logs"), Alter("chart_of_accounts"), Alter("collaterals"),
      Alter("compliance_reports"), Alter("journal_entries"), Alter("loan_applications"),
      Alter("loan_transactions"), Alter("members"), Alter("mobile_money_transactions"),
      Alter("notifications"), Alter("savings_accounts"), Alter("savings_transactions"),
      Alter("users")>>

Revisions == Initial \o Step2

Init ==
    /\ tables = {}
    /\ draft = {}
    /\ todo = <<>>
    /\ api = "stopped"

\* The container is started: the upgrade opens its transaction
Start ==
    /\ api = "stopped"
    /\ api' = "upgrading"
    /\ draft' = tables
    /\ todo' = Revisions
    /\ UNCHANGED tables

\* what the database takes
Executable(op) ==
    IF op.creates THEN op.table \notin draft /\ op.refs \subseteq draft ELSE op.table \in draft

Execute ==
    /\ api = "upgrading" /\ todo # <<>>
    /\ Executable(Head(todo))
    /\ draft' = draft \cup {Head(todo).table}
    /\ todo' = Tail(todo)
    /\ UNCHANGED <<tables, api>>

\* A refused statement: the transaction is rolled back and the command fails
Refused ==
    /\ api = "upgrading" /\ todo # <<>>
    /\ ~Executable(Head(todo))
    /\ api' = "stopped"
    /\ draft' = {}
    /\ todo' = <<>>
    /\ UNCHANGED tables

\* head is reached: the transaction is committed and uvicorn takes over
Serve ==
    /\ api = "upgrading" /\ todo = <<>>
    /\ api' = "up"
    /\ tables' = draft
    /\ UNCHANGED <<draft, todo>>

Next == Start \/ Execute \/ Refused \/ Serve

\* the container restarts "unless-stopped", and a command that runs goes on
Spec == Init /\ [][Next]_vars /\ WF_vars(Next)

-----------------------------------------------------------------------------
\* "This starts Postgres, runs `alembic upgrade head`, then starts the API":
\* from an empty database the API is up sooner or later.
ApiStarts == <>(api = "up")
=============================================================================
