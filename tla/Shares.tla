------------------------------- MODULE Shares -------------------------------
(***************************************************************************)
(* Share holdings and dividends.                                           *)
(*                                                                         *)
(*   db.holdings[m]   ShareHolding.number_of_shares of each holding row of *)
(*                    m, one row unless two requests both create the first *)
(*   db.traded[m]     what the ShareTransaction rows add up to for m       *)
(*   db.dividends     one declaration after the other: the payout rows and *)
(*                    whether they were reinvested                         *)
(***************************************************************************)
EXTENDS MemberSavings, Integers, SequencesExt

CONSTANTS MaxShares   \* bound on the shares of one transaction

ShareTables == [holdings  |-> [m \in Members |-> <<>>],
                traded    |-> NoGain,
                dividends |-> <<>>]

SharesTypeOK ==
    /\ db.holdings \in [Members -> Seq(Nat)]
    /\ db.traded \in [Members -> Int]
    /\ db.dividends \in Seq([payout : [Members -> Nat], reinvested : BOOLEAN])

\* number_of_shares over all the holdings of a member
SharesOf(holdings, m) == SumFunction(holdings[m])

ShareJobs ==
    [type : {"subscription", "redemption"}, member : Members, n : 1 .. MaxShares]
    \cup [type : {"transfer"}, member : Members, n : 1 .. MaxShares, to : Members]

Parties(j) == {j.member} \cup IF j.type = "transfer" THEN {j.to} ELSE {}

HoldingsRead(j, d) == [m \in Parties(j) |-> d.holdings[m]]

\* the holding the handler finds first, or has just created
FirstHolding(v, m) == IF v[m] = <<>> THEN 0 ELSE v[m][1]

SharesAvailable(j, v) == j.type = "subscription" \/ j.n <= FirstHolding(v, j.member)

\* Mutant: the counterparty gets the shares and the member keeps them
GainedByReceiver(j, m) ==
    CASE j.type = "subscription"             -> j.n
      [] j.type = "redemption"               -> -j.n
      [] j.type = "transfer" /\ m = j.to     -> j.n
      [] OTHER                               -> 0

\* what a transaction adds to the shares of m
Gained(j, m) ==
    CASE j.type = "subscription"   -> j.n
      [] j.type = "redemption"     -> -j.n
      [] j.type = "transfer"       -> IF j.member = j.to THEN 0 ELSE IF m = j.to THEN j.n ELSE -j.n

\* the signed sum of the ShareTransaction rows that name m
TradedBy(j, m) ==
    CASE j.type = "subscription"   -> j.n
      [] j.type = "redemption"     -> -j.n
      [] j.type = "transfer"       -> IF m # j.to THEN -j.n ELSE IF m = j.member THEN 0 ELSE j.n

\* the first holding is written, or the first row inserted
Held(rows, v, m, n) ==
    IF v[m] = <<>> THEN Append(rows, n) ELSE [rows EXCEPT ![1] = v[m][1] + n]

SharesTraded(j, v, d) ==
    [d EXCEPT !.holdings = [m \in Members |->
                               IF m \in Parties(j) THEN Held(@[m], v, m, Gained(j, m)) ELSE @[m]],
              !.traded = [m \in Members |->
                               IF m \in Parties(j) THEN @[m] + TradedBy(j, m) ELSE @[m]]]

\* record_share_transaction
RecordShareTransaction(s) ==
    Serves(s, "share_transaction", ShareJobs, HoldingsRead, SharesAvailable, SharesTraded)

-----------------------------------------------------------------------------
DividendJobs == [rate : {1}, reinvest : BOOLEAN]

\* every holding with shares; the accounts only when they are credited
DividendReads(j, d) ==
    [holdings |-> d.holdings, balance |-> IF j.reinvest THEN d.balance ELSE NoGain]

Payout(j, v) == [m \in Members |-> j.rate * SharesOf(v.holdings, m)]

Declarable(j, v) == TRUE

DividendsPaid(j, v, d) ==
    LET declared == [d EXCEPT !.dividends =
                        Append(@, [payout |-> Payout(j, v), reinvested |-> j.reinvest])]
    IN  IF j.reinvest THEN Credit(declared, v.balance, "dividend", Payout(j, v)) ELSE declared

\* The accounts it credits are guarded.  The holdings are not: a transaction
\* that changes one reads nothing a declaration writes.
SameCredited(j, view, rows) ==
    \A m \in Savers : Payout(j, view)[m] > 0 => rows.balance[m] = view.balance[m]

\* declare_dividend.  Nothing asks whether the year has a declaration already.
DeclareDividend(s) ==
    ServesWhile(s, "dividend", DividendJobs, DividendReads, Declarable, SameCredited, DividendsPaid)

-----------------------------------------------------------------------------
\* The shares of m, over all its holdings
Register == [m \in Members |-> SharesOf(db.holdings, m)]

\* What record_share_transaction promises: shares are issued, redeemed and
\* moved between two members, and every transaction counts.  See ShareRegister.
ShareBook == INSTANCE ShareRegister WITH register <- Register, journal <- db.traded

RegisterSpec == ShareBook!Spec

\* The dividend rows of an account are the reinvested payouts of its member:
\* a declaration credits everybody it pays or nobody.
ReinvestedIsCredited ==
    \A m \in Savers :
        db.rows[m]["dividend"] =
            SumFunction([i \in DOMAIN db.dividends |->
                            IF db.dividends[i].reinvested THEN db.dividends[i].payout[m] ELSE 0])
=============================================================================
