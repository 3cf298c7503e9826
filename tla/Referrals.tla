----------------------------- MODULE Referrals -----------------------------
(***************************************************************************)
(* Referrals: users who register with the code of another user, the        *)
(* conversion that pays the referrers of two tiers, and the commission of  *)
(* the older referrals, whose rows name a member.                          *)
(*                                                                         *)
(*   db.users         the registered users                                 *)
(*   db.tier[u][t]    the Referral row of referred user u at tier t        *)
(*   db.legacy[r]     status and commission_amount of an older referral    *)
(*   db.commission    SystemSettings.referral_commission_amount            *)
(*                                                                         *)
(* A referral code of an older referral is never redeemed: INVITED rows    *)
(* cannot be inserted any more, as create_referral leaves the two users of *)
(* the row empty, which the table refuses.                                 *)
(***************************************************************************)
EXTENDS MemberSavings

CONSTANTS Users,
          Founders,    \* the users registered at the start
          MemberOf,    \* User.member_id, Nobody when empty
          Nobody,
          Legacy,      \* older referrals, REGISTERED when the system starts
          ReferrerOf   \* their referring members

ASSUME ReferralsAssumption ==
    /\ IsFiniteSet(Users) /\ IsFiniteSet(Legacy)
    /\ Founders \subseteq Users
    /\ MemberOf \in [Users -> Members \cup {Nobody}]
    /\ ReferrerOf \in [Legacy -> Members]
    /\ Nobody \notin Users \cup Members

Tiers     == {1, 2}
TierPay   == [t \in Tiers |-> IF t = 1 THEN 10 ELSE 5]
NoReferral == [to |-> Nobody, status |-> "none"]

ReferralTables == [users      |-> Founders,
                   tier       |-> [u \in Users |-> [t \in Tiers |-> NoReferral]],
                   legacy     |-> [r \in Legacy |-> [status |-> "registered", amount |-> 0]],
                   commission |-> 0]

ReferralsTypeOK ==
    /\ db.users \subseteq Users
    /\ db.tier \in [Users -> [Tiers -> [to : Users \cup {Nobody},
                                        status : {"none", "pending", "completed"}]]]
    /\ db.legacy \in [Legacy -> [status : {"registered", "commission_paid"}, amount : Nat]]
    /\ db.commission \in Nat

-----------------------------------------------------------------------------
RegisterJobs == [user : Users, ref : Users \cup {Nobody}]

\* whether the email is taken, whose code it is, and who referred that user
ReferrersRead(j, d) ==
    [taken |-> j.user \in d.users,
     ref   |-> IF j.ref \in d.users THEN j.ref ELSE Nobody,
     above |-> IF j.ref \in d.users THEN d.tier[j.ref][1].to ELSE Nobody]

EmailIsFree(j, v) == ~v.taken

Pending(to) == IF to = Nobody THEN NoReferral ELSE [to |-> to, status |-> "pending"]

TierRows(j, v) == [t \in Tiers |-> Pending(IF t = 1 THEN v.ref ELSE v.above)]

\* the email is unique in the table as well
UserRegistered(j, v, d) ==
    IF j.user \in d.users THEN d
    ELSE [d EXCEPT !.users = @ \cup {j.user}, !.tier[j.user] = TierRows(j, v)]

\* The email is guarded.  Who the code belongs to is not: the user may register
\* meanwhile, and the new user's rows still name nobody.
SameEmail(j, view, rows) == rows.taken = view.taken

\* register
RegisterUser(s) ==
    ServesWhile(s, "register", RegisterJobs, ReferrersRead, EmailIsFree, SameEmail, UserRegistered)

-----------------------------------------------------------------------------
ConversionJobs == [user : Users]

PendingTiers(rows) == {t \in Tiers : rows[t].status = "pending"}

\* the members of the referrers that a conversion pays
Paid(rows) == {MemberOf[rows[t].to] : t \in PendingTiers(rows)}

ConversionReads(j, d) ==
    [rows    |-> d.tier[j.user],
     balance |-> [m \in Members |-> IF m \in Paid(d.tier[j.user]) THEN d.balance[m] ELSE 0]]

SomethingPending(j, v) == PendingTiers(v.rows) # {}

\* credit_user_wallet for each pending row; a referrer without a member or
\* without an account gets nothing
TierGains(rows) ==
    [m \in Members |->
        SumFunctionOnSet(TierPay, {t \in PendingTiers(rows) : MemberOf[rows[t].to] = m})]

\* Mutant: the rows that were paid stay pending
StillPending(rows) == rows

Completed(rows) ==
    [t \in Tiers |-> IF t \in PendingTiers(rows) THEN [rows[t] EXCEPT !.status = "completed"]
                     ELSE rows[t]]

TiersCredited(j, v, d) ==
    Credit([d EXCEPT !.tier[j.user] = Completed(v.rows)], v.balance, "tier", TierGains(v.rows))

\* process_conversion_webhook and the background task it starts,
\* complete_multi_tier_conversion
Convert(s) == Serves(s, "convert", ConversionJobs, ConversionReads, SomethingPending, TiersCredited)

-----------------------------------------------------------------------------
SettingsJobs == [amount : {0, 3}]

NothingRead(j, d) == TRUE

AlwaysAccepted(j, v) == TRUE

CommissionSet(j, v, d) == [d EXCEPT !.commission = j.amount]

\* update_system_settings
UpdateSystemSettings(s) ==
    Serves(s, "settings", SettingsJobs, NothingRead, AlwaysAccepted, CommissionSet)

CommissionJobs == [referral : Legacy]

CommissionReads(j, d) ==
    [row |-> d.legacy[j.referral], amount |-> d.commission,
     balance |-> d.balance[ReferrerOf[j.referral]]]

CommissionDue(j, v) ==
    /\ v.row.status = "registered"
    /\ ReferrerOf[j.referral] \in Savers
    /\ v.amount > 0

CommissionPaid(j, v, d) ==
    LET m == ReferrerOf[j.referral] IN
    Credit([d EXCEPT !.legacy[j.referral] = [status |-> "commission_paid", amount |-> v.amount]],
           [NoGain EXCEPT ![m] = v.balance], "commission", [NoGain EXCEPT ![m] = v.amount])

\* The referral and the account are guarded, the amount of the settings is not.
SameReferral(j, view, rows) == rows.row = view.row /\ rows.balance = view.balance

\* pay_referral_commission
PayCommission(s) ==
    ServesWhile(s, "commission", CommissionJobs, CommissionReads, CommissionDue,
                SameReferral, CommissionPaid)

-----------------------------------------------------------------------------
\* The second tier of a user is the first tier of the user's referrer, for
\* everybody and for ever: no registration skips or invents a level, and
\* nobody earns from a registration of their own.
TiersFollowChain ==
    \A u \in Users :
        LET up == db.tier[u][1].to IN
        /\ up # u /\ db.tier[u][2].to # u
        /\ db.tier[u][2].to = IF up = Nobody THEN Nobody ELSE db.tier[up][1].to

\* What an account received for referrals is what the referral rows say was
\* paid: each tier of each user once, each commission once, at the amount the
\* row records, however often the webhook is delivered.
ReferralsPaidOnce ==
    \A m \in Savers :
        /\ db.rows[m]["tier"] =
              SumFunctionOnSet([x \in Users \X Tiers |-> TierPay[x[2]]],
                               {x \in Users \X Tiers :
                                    /\ db.tier[x[1]][x[2]].status = "completed"
                                    /\ MemberOf[db.tier[x[1]][x[2]].to] = m})
        /\ db.rows[m]["commission"] =
              SumFunctionOnSet([r \in Legacy |-> db.legacy[r].amount],
                               {r \in Legacy : ReferrerOf[r] = m})

\* Referrals add up from the registration to the account: the right people are
\* named at both tiers, and each of them is paid once.
ReferralsAddUp == TiersFollowChain /\ ReferralsPaidOnce
=============================================================================
