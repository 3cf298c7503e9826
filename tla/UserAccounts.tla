---------------------------- MODULE UserAccounts ----------------------------
(***************************************************************************)
(* Users of the two portals: signing in, refreshing a token, changes of    *)
(* role by an administrator, and two-factor authentication.                *)
(*                                                                         *)
(*   db.user[u]    role, is_active, is_2fa_enabled, and totp_secret, 0     *)
(*                 when empty                                              *)
(*   db.token      the unexpired tokens the clients hold; a token names    *)
(*                 its user and its portal and is stored nowhere else      *)
(*                                                                         *)
(* Passwords and hashes are left out: a user who signs in knows one.  At   *)
(* the start every user is a member who has signed in.                     *)
(***************************************************************************)
EXTENDS Requests

CONSTANTS Accountholders, \* the users with a password
          Secrets         \* the TOTP secrets that may be drawn

ASSUME UserAccountsAssumption == Secrets \subseteq Nat \ {0}

Portals == {"staff", "member"}
Tokens  == [user : Accountholders, portal : Portals, type : {"access", "refresh"}]

UserTables ==
    [user  |-> [u \in Accountholders |->
                   [role |-> "member", active |-> TRUE, two_factor |-> FALSE, secret |-> 0]],
     token |-> [user : Accountholders, portal : {"member"}, type : {"access", "refresh"}]]

UsersTypeOK ==
    /\ db.user \in [Accountholders -> [role : Portals, active : BOOLEAN, two_factor : BOOLEAN,
                                       secret : Secrets \cup {0}]]
    /\ db.token \subseteq Tokens

\* the staff roles use one portal, members the other
Entitled(user, portal) == user.active /\ user.role = portal

UserRead(j, d) == d.user[j.user]

-----------------------------------------------------------------------------
UserJobs == [user : Accountholders, role : Portals, active : BOOLEAN]

Existing(j, v) == TRUE

UserSet(j, v, d) == [d EXCEPT !.user[j.user].role = j.role, !.user[j.user].active = j.active]

\* update_user, by an administrator
UpdateUser(s) == Serves(s, "user_update", UserJobs, UserRead, Existing, UserSet)

-----------------------------------------------------------------------------
LoginJobs == [user : Accountholders, portal : Portals]

MayEnter(j, v) == Entitled(v, j.portal)

\* _issue_tokens
TokensIssued(j, v, d) ==
    [d EXCEPT !.token = @ \cup [user : {j.user}, portal : {j.portal}, type : {"access", "refresh"}]]

\* login and member_login, which write last_login
Login(s) == Serves(s, "login", LoginJobs, UserRead, MayEnter, TokensIssued)

RefreshJobs == {t \in db.token : t.type = "refresh"}

\* the boundary between the portals is validated again
MayStay(j, v) == Entitled(v, j.portal)

\* It only reads the user, and commits nothing that could be refused.
NothingGuarded(j, v, rows) == TRUE

\* refresh
Refresh(s) ==
    ServesWhile(s, "refresh", RefreshJobs, UserRead, MayStay, NothingGuarded, TokensIssued)

\* an access token expires long before the refresh token issued with it
AccessExpires ==
    /\ "refresh" \in desk
    /\ \E t \in db.token :
          /\ t.type = "access"
          /\ db' = [db EXCEPT !.token = @ \ {t}]
    /\ UNCHANGED <<session, served, desk, now>>

-----------------------------------------------------------------------------
AccessTokens == {t \in db.token : t.type = "access"}

\* what a signed-in user asks: a code is given by the secret it comes from
TwoFactorJobs == {[user |-> t.user, portal |-> t.portal, secret |-> c] :
                     t \in AccessTokens, c \in Secrets}

\* get_current_user; the secret is new
MaySetUp(j, v) == Entitled(v, j.portal) /\ j.secret # v.secret

SecretReplaced(j, v, d) == [d EXCEPT !.user[j.user].secret = j.secret]

\* setup_2fa, which also replaces the secret of a user who has one enabled
SetUpTwoFactor(s) ==
    Serves(s, "2fa_setup", TwoFactorJobs, UserRead, MaySetUp, SecretReplaced)

\* Mutant: only the code is looked at
CodeMatches(j, v) == v.secret = j.secret

\* verify_totp_code against the secret that was read
CodeVerified(j, v) == Entitled(v, j.portal) /\ v.secret = j.secret

\* only a column that changes is written
TwoFactorOn(j, v, d) ==
    IF v.two_factor THEN d ELSE [d EXCEPT !.user[j.user].two_factor = TRUE]

\* enable_2fa
EnableTwoFactor(s) ==
    Serves(s, "2fa_enable", TwoFactorJobs, UserRead, CodeVerified, TwoFactorOn)

TwoFactorOff(j, v, d) ==
    [d EXCEPT !.user[j.user].two_factor = FALSE, !.user[j.user].secret = 0]

MayDisable(j, v) == CodeVerified(j, v) /\ v.two_factor

\* disable_2fa
DisableTwoFactor(s) ==
    Serves(s, "2fa_disable", TwoFactorJobs, UserRead, MayDisable, TwoFactorOff)

-----------------------------------------------------------------------------
\* Two-factor authentication is never on without a secret: nobody could give a
\* code to turn it off, and verify_2fa would let everybody pass.
TwoFactorHasSecret ==
    \A u \in Accountholders : db.user[u].two_factor => db.user[u].secret # 0

\* What a signed-in user commits, a login or a change of the two-factor
\* authentication, is for the portal of the user's role at that moment and for
\* an active user: a promotion or a deactivation ends what was begun before it.
\* Only a token refreshed meanwhile may still come out, and is good for nothing
\* that this does not hold of.
ActsInOwnPortal ==
    [][\A s \in Sessions :
          LET work == session[s] IN
          (/\ work.op \in {"login", "2fa_setup", "2fa_enable", "2fa_disable"}
           /\ session'[s] = Idle
           /\ db'.user # db.user \/ db'.token # db.token)
          => Entitled(db.user[work.job.user], work.job.portal)]_<<db, session>>
=============================================================================
