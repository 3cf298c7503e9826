-------------------------- MODULE MCMemberServices --------------------------
(* Small instances of MemberServices for TLC.                              *)
EXTENDS MemberServices, TLC

CONSTANTS m1, m2, u1, u2, u3, r1, v1, s1, s2, job

\* one behaviour offers the operations of one of these sets
DesksValue ==
    {{"share_transaction", "dividend", "payroll_file"},
     {"exit", "disburse", "payroll_file"},
     {"create_member", "daily_sweep"},
     {"sweep", "daily_sweep"},
     {"update_member", "daily_sweep"},
     {"register", "convert", "settings", "commission"},
     {"create_vault", "vault_deposit", "vault_withdraw"}}

MemberOfValue   == u1 :> m1 @@ u2 :> m2 @@ u3 :> Nobody
ReferrerOfValue == r1 :> m1
=============================================================================
