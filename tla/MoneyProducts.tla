----------------------------- MODULE MoneyProducts -----------------------------
(***************************************************************************)
(* The services that move customers' money outside the market: cash        *)
(* wallets with payments and purchases, the products of financial          *)
(* institutions, institutions that issue QP, the payments that providers   *)
(* make and report, and the credit tabs of shops.                          *)
(*                                                                         *)
(* None writes a row or takes a lock of another part's model: of the QP    *)
(* accounts, which institutions share with the products' transfers, the    *)
(* institutions' module has what any other service does to them.  So a     *)
(* behaviour of the whole is a behaviour of each: `part` says which one    *)
(* this behaviour follows, and the others rest, which keeps the instance a *)
(* sum and not a product.                                                  *)
(***************************************************************************)
EXTENDS Integers, TLC

\* The parts' modules explain their constants; Calls and MaxFaults are those of
\* wallets, products and tabs.
CONSTANTS
    Users, Calls, Nobody, MaxFaults,
    WalletMenu, Initial, NoWallet,
    FiMenu,
    Banks, Tellers, Errands, Funds, IssueCap, FeePer, MaxSlips, Deals, Joined,
    MaxDeals,
    Payments, UserOf, KindOf, Keys, Defaults, Candidates, Amount, MaxAccounts,
    TabMenu, FirstLimits

VARIABLES
    part,
    wallet, lock, at, req, sign, copy, payment, licence, earned, moved, doubled, disturbed,
    faults,
    fiAt, fiReq, row, claimed, fiMoved, flagged, ripe, before, fiDisturbed, fiFaults,
    holding, minted, approved, owner, window, errand, total, seen, dealt, stale, crossed, deals,
    journal, issued, fee, both, slips,
    default, accounts, status, by, ext, outcome, stumbled, processed, told, booked,
    tab, tabBooked, tabAt, tabAsk, tabCopy, new, decided, removed, overwritten, tabCrossed, lowered,
    untold, tabFaults

-----------------------------------------------------------------------------
Wa == INSTANCE WalletPayments WITH Menu <- WalletMenu

Fi == INSTANCE FiProducts WITH
    Menu <- FiMenu,
    at <- fiAt, req <- fiReq, moved <- fiMoved, disturbed <- fiDisturbed, faults <- fiFaults

Ba == INSTANCE Institutions WITH Nobank <- Nobody

Pr == INSTANCE ProviderPayments

Ta == INSTANCE Tabs WITH
    Menu <- TabMenu,
    booked <- tabBooked, at <- tabAt, ask <- tabAsk, copy <- tabCopy, crossed <- tabCrossed,
    faults <- tabFaults

ASSUME MoneyProductsAssumption ==
    /\ Wa!WalletAssumption /\ Fi!FiAssumption
    /\ Ba!InstitutionAssumption /\ Pr!ProviderAssumption /\ Ta!TabAssumption

-----------------------------------------------------------------------------
wallets == <<wallet, lock, at, req, sign, copy, payment, licence, earned, moved, doubled,
             disturbed, faults>>
products == <<fiAt, fiReq, row, claimed, fiMoved, flagged, ripe, before, fiDisturbed,
              fiFaults>>
institutions == <<holding, minted, approved, owner, window, errand, total, seen, dealt,
                  stale, crossed, deals, journal, issued, fee, both, slips>>
providers == <<default, accounts, status, by, ext, outcome, stumbled, processed, told, booked>>
tabs == <<tab, tabBooked, tabAt, tabAsk, tabCopy, new, decided, removed, overwritten, tabCrossed,
          lowered, untold, tabFaults>>
vars == <<part, wallets, products, institutions, providers, tabs>>

Init ==
    /\ part \in {"wallets", "products", "institutions", "providers", "tabs"}
    /\ Wa!Init /\ Fi!Init /\ Ba!Init /\ Pr!Init /\ Ta!Init
    /\ part # "tabs" => tab.limit = 0
    /\ part # "providers" => default = "mock"

Next ==
    \/ part = "wallets"      /\ Wa!Next /\ UNCHANGED <<part, products, institutions, providers, tabs>>
    \/ part = "products"     /\ Fi!Next /\ UNCHANGED <<part, wallets, institutions, providers, tabs>>
    \/ part = "institutions" /\ Ba!Next /\ UNCHANGED <<part, wallets, products, providers, tabs>>
    \/ part = "providers"    /\ Pr!Next /\ UNCHANGED <<part, wallets, products, institutions, tabs>>
    \/ part = "tabs"         /\ Ta!Next /\ UNCHANGED <<part, wallets, products, institutions, providers>>

\* Each part's own fairness, for the behaviours that follow it.
Fairness ==
    /\ WF_wallets(part = "wallets" /\ \E c \in Calls : Wa!Step(c))
    /\ WF_institutions(part = "institutions" /\ \E t \in Tellers : Ba!Step(t))

Spec == Init /\ [][Next]_vars /\ Fairness

-----------------------------------------------------------------------------
(* The parts' properties; their modules explain them.                       *)

\* Types of the part that runs; a part that rests stays as it began.
TypeOK ==
    CASE part = "wallets" -> Wa!TypeOK
      [] part = "products" -> Fi!TypeOK
      [] part = "institutions" -> Ba!TypeOK
      [] part = "providers" -> Pr!TypeOK
      [] part = "tabs" -> Ta!TypeOK

\* Every balance follows from the calls that moved it: a wallet holds its first
\* balance and the movements on it; an institution what its journal and other
\* services' writes say, unless one of those saved a copy that was out of date or
\* approved a transaction; the sum is what was minted, within the cap, and no account
\* is overdrawn, but for the overlaps that MintedWithinCap and NotOverdrawn name; QP
\* booked for a provider's payment is what the provider moved, up to M-Pesa's
\* rounding; a tab owes what its rows say but for stale saves and failed rows, and
\* keeps its limit but for the two cases of WithinLimit.
MoneyExplained ==
    /\ part = "wallets" => Wa!WalletExplained
    /\ part = "institutions" => Ba!QPIsConserved /\ Ba!MintedWithinCap /\ Ba!NotOverdrawn
    /\ part = "providers" => Pr!BookedIsAmount
    /\ part = "tabs" => Ta!BalanceExplained /\ Ta!WithinLimit

\* What a record says about money is so: the status of a payment, a purchase
\* with charge, share and licence or with none of them, a deposit that is funded,
\* QP locked for a deposit on record, a policy paid for, and a success that a
\* provider reported is booked, but for the two providers whose ids do not lead
\* back; a tab has the status last asked for, but for stale saves.
RecordsTellMoney ==
    /\ part = "wallets" => Wa!StatusTellsMoney /\ Wa!PurchaseIsWhole
    /\ part = "products" =>
         Fi!DepositsAreFunded /\ Fi!LockedFundsHaveRecord /\ Fi!PoliciesArePaidFor
    /\ part = "providers" => Pr!ReportedIsBooked
    /\ part = "tabs" => Ta!StatusIsDecided

\* Nothing is paid back twice: only a payment that took money is refunded, and once
\* unless two of its refunds overlapped or a fault kept one from being recorded; a
\* deposit or claim that one call has paid out is not paid by a later one, and a
\* policy takes no claim after one on it was paid; and no QP moves for a payment
\* its provider has not made.
PaidOnce ==
    /\ part = "wallets" => Wa!RefundsArePaid
    /\ part = "products" => Fi!NoSecondPayout /\ Fi!NoClaimAfterPayout
    /\ part = "providers" => Pr!BookedIsPaid

\* The wallets implement a ledger: each step is one whole movement of one
\* wallet that leaves it non-negative, whatever the interleaving (a wallet that
\* does not exist counts as empty).  This is what the row lock is for.
Ledger == INSTANCE QPLedger WITH
    bal     <- [u \in Users |-> Wa!Balance(u)],
    Genesis <- [u \in Users |-> Wa!First(u)],
    Amounts <- UNION {{r.amt : r \in WalletMenu[c]} : c \in Calls},
    AI      <- Nobody,
    Fee     <- 0
WalletsAreALedger == Ledger!Spec

\* Every wallet call and every institution call ends, locks and all.
CallsEnd == Wa!CallsEnd /\ Ba!CallsEnd

-----------------------------------------------------------------------------
(* The instance that TLC checks.                                            *)

CONSTANTS ann, ben, c1, c2, c3, c4, b1, b2, t1, t2, t3

TwoWallets == ann :> 2 @@ ben :> NoWallet

Ask(k, u, a, o) == [kind |-> k, user |-> u, amt |-> a, of |-> o]
WalletRequests ==
    c1 :> {Ask("pay", ann, 2, Nobody), Ask("pay", ben, 1, Nobody)} @@
    c2 :> {Ask("topUp", ann, 1, Nobody), Ask("topUp", ben, 1, Nobody),
           Ask("refund", ann, 2, c1)} @@
    c3 :> {Ask("refund", ann, 2, c1), Ask("buy", ann, 1, Nobody)} @@
    c4 :> {Ask("buy", ann, 1, Nobody)}

New(k)   == [kind |-> k, of |-> Nobody]
On(k, c) == [kind |-> k, of |-> c]
FiRequests ==
    c1 :> {New("deposit"), New("purchase"), New("apply"), New("report")} @@
    c2 :> {On("mature", c1), On("file", c1), On("approve", c1)} @@
    c3 :> {On("mature", c1), On("review", c2), On("decline", c2), On("disapprove", c1)} @@
    c4 :> {On("file", c1), On("review", c2), On("disapprove", c1)}

Mint(b, n)      == [bank |-> b, to |-> Nobody, amount |-> n]
Settle(b, d, n) == [bank |-> b, to |-> d, amount |-> n]
BankErrands ==
    t1 :> {Mint(b1, 2), Settle(b1, b2, 3)} @@
    t2 :> {Mint(b1, 3), Settle(b2, b1, 4), Settle(b1, b2, 2)} @@
    t3 :> {Settle(b1, b2, 4), Mint(b1, 2)}
BankFunds == b1 :> 4 @@ b2 :> 4
Outside == {-2}
Left    == {-1, 100}

PaymentUsers == c1 :> ann @@ c2 :> ann @@ c3 :> ann
PaymentKinds == c1 :> "deposit" @@ c2 :> "deposit" @@ c3 :> "withdraw"
Countries == "GH" :> <<"mtn_momo", "flutterwave", "paystack", "stripe">> @@
             "SE" :> <<"wise", "stripe">>

Put(k, v) == [kind |-> k, to |-> v]
TabRequests ==
    c1 :> {Put("charge", 2), Put("status", "closed")} @@
    c2 :> {Put("charge", 1), Put("settle", 1), Put("remove", 0)} @@
    c3 :> {Put("settle", 2), Put("limit", 1), Put("status", "suspended")} @@
    c4 :> {}
=============================================================================
