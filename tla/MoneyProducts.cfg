\* Two users, one without a wallet; four calls with one fault or crash among
\* them; two institutions with three calls and one failed transaction; three payments
\* of two users; one tab with four calls and one failure.
SPECIFICATION Spec
CONSTANTS
    ann = ann
    ben = ben
    c1 = c1
    c2 = c2
    c3 = c3
    c4 = c4
    b1 = b1
    b2 = b2
    t1 = t1
    t2 = t2
    t3 = t3
    Nobody = Nobody
    NoWallet = NoWallet
    Users = {ann, ben}
    Calls = {c1, c2, c3, c4}
    MaxFaults = 1
    WalletMenu <- WalletRequests
    Initial <- TwoWallets
    FiMenu <- FiRequests
    Banks = {b1, b2}
    Tellers = {t1, t2, t3}
    Errands <- BankErrands
    Funds <- BankFunds
    IssueCap = 4
    FeePer = 3
    MaxSlips = 1
    Deals <- Outside
    Joined <- Left
    MaxDeals = 1
    Payments = {c1, c2, c3}
    UserOf <- PaymentUsers
    KindOf <- PaymentKinds
    Keys = {"stripe", "paystack", "flutterwave", "mtn_momo", "mpesa"}
    Defaults = {"paystack", "flutterwave", "mock"}
    Candidates <- Countries
    Amount = 3
    MaxAccounts = 1
    TabMenu <- TabRequests
    FirstLimits = {0, 2}
\* A part stops when its calls have all been made.
CHECK_DEADLOCK FALSE
INVARIANTS TypeOK MoneyExplained RecordsTellMoney PaidOnce
PROPERTIES WalletsAreALedger CallsEnd
