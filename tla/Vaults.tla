------------------------------- MODULE Vaults -------------------------------
(***************************************************************************)
(* Target vaults: money put aside until a date or an amount is reached.    *)
(*                                                                         *)
(*   db.vault[v]    status, is_locked, current_balance and maturity_date   *)
(*   db.moved[v]    what the audit rows of the vault say was deposited,    *)
(*                  withdrawn, and withdrawn with a penalty                *)
(*                                                                         *)
(* The penalty only goes to the audit row: the whole amount leaves the     *)
(* vault, and no savings account or ledger account is touched.             *)
(***************************************************************************)
EXTENDS Requests, Integers

CONSTANTS VaultIds,
          Target,      \* TargetVault.target_amount
          LockPeriod   \* lock_period_months, in units of the clock

ASSUME VaultsAssumption == Target \in Nat \ {0} /\ LockPeriod \in Nat

VaultTables ==
    [vault |-> [v \in VaultIds |->
                   [status |-> "none", locked |-> TRUE, balance |-> 0, matures |-> 0]],
     moved |-> [v \in VaultIds |-> [paid_in |-> 0, paid_out |-> 0, early |-> 0]]]

VaultsTypeOK ==
    /\ db.vault \in [VaultIds -> [status : {"none", "ACTIVE", "MATURED", "BROKEN"},
                                  locked : BOOLEAN, balance : Nat, matures : Nat]]
    /\ db.moved \in [VaultIds -> [paid_in : Nat, paid_out : Nat, early : Nat]]

VaultRead(j, d) == d.vault[j.vault]

CreateJobs == [vault : VaultIds, at : {now}]

NotCreated(j, v) == v.status = "none"

\* Mutant: a vault without a maturity date
VaultUndated(j, v, d) ==
    [d EXCEPT !.vault[j.vault] = [status |-> "ACTIVE", locked |-> TRUE, balance |-> 0]]

VaultCreated(j, v, d) ==
    [d EXCEPT !.vault[j.vault] = [status |-> "ACTIVE", locked |-> TRUE, balance |-> 0,
                                  matures |-> j.at + LockPeriod]]

\* create_target_vault, for a user who has a member
CreateTargetVault(s) ==
    Serves(s, "create_vault", CreateJobs, VaultRead, NotCreated, VaultCreated)

-----------------------------------------------------------------------------
DepositJobs == [vault : VaultIds, n : 1 .. Target]

IsActive(j, v) == v.status = "ACTIVE"

DepositedBalance(j, v) == v.balance + j.n

\* reaching the target unlocks the vault, whatever its maturity date
Deposited(j, v, d) ==
    LET full == DepositedBalance(j, v) >= Target IN
    [d EXCEPT !.vault[j.vault].balance = DepositedBalance(j, v),
              !.vault[j.vault].status = IF full THEN "MATURED" ELSE @,
              !.vault[j.vault].locked = IF full THEN FALSE ELSE @,
              !.moved[j.vault].paid_in = @ + j.n]

\* deposit_into_vault
DepositIntoVault(s) == Serves(s, "vault_deposit", DepositJobs, VaultRead, IsActive, Deposited)

-----------------------------------------------------------------------------
WithdrawJobs == [vault : VaultIds, n : 1 .. Target, force : BOOLEAN, at : {now}]

IsEarly(j, v) == j.at < v.matures /\ v.locked

Withdrawable(j, v) == j.n <= v.balance /\ (IsEarly(j, v) => j.force)

\* Mutant: an emptied vault has matured, broken or not
EmptyIsMatured(j, v) ==
    IF v.balance = j.n THEN "MATURED" ELSE IF IsEarly(j, v) THEN "BROKEN" ELSE v.status

StatusAfter(j, v) ==
    IF IsEarly(j, v) THEN "BROKEN"
    ELSE IF v.balance = j.n /\ v.status # "BROKEN" THEN "MATURED" ELSE v.status

\* status is written only when it changes
Withdrawn(j, v, d) ==
    [d EXCEPT !.vault[j.vault].balance = v.balance - j.n,
              !.vault[j.vault].status = IF StatusAfter(j, v) # v.status THEN StatusAfter(j, v) ELSE @,
              !.moved[j.vault].paid_out = @ + j.n,
              !.moved[j.vault].early = IF IsEarly(j, v) THEN @ + j.n ELSE @]

\* withdraw_from_vault
WithdrawFromVault(s) ==
    Serves(s, "vault_withdraw", WithdrawJobs, VaultRead, Withdrawable, Withdrawn)

-----------------------------------------------------------------------------
\* The balance of a vault is what its audit rows say went in and out: no
\* deposit or withdrawal works on a balance another one has replaced.
VaultsMatchAudit ==
    \A v \in VaultIds :
        db.vault[v].balance = db.moved[v].paid_in - db.moved[v].paid_out

\* A vault is BROKEN exactly when money left it before its time, however it
\* is filled and emptied later, and it is unlocked only once it has matured
\* with its target paid in.
StatusTellsHistory ==
    \A v \in VaultIds :
        /\ db.vault[v].status = "BROKEN" <=> db.moved[v].early > 0
        /\ ~db.vault[v].locked =>
              db.vault[v].status = "MATURED" /\ db.moved[v].paid_in >= Target

\* What the row of a vault says about money and penalties is what the audit
\* log says, whatever was paid in and out and in whatever order.
VaultsAddUp == VaultsMatchAudit /\ StatusTellsHistory
=============================================================================
