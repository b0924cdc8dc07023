----------------------------- MODULE Institutions -----------------------------
(***************************************************************************)
(* Institutions that mint QP and settle with each other                    *)
(* (facilitator-institutions.service.ts).  Both operations check on rows   *)
(* read before their transaction; in it the balances are changed by the    *)
(* database (balance + amount), which keeps the row locked until the       *)
(* commit, and the minted supply is set to the total computed before.      *)
(*                                                                         *)
(* The QP accounts are not the institutions' own: transfers, deposits,     *)
(* fees and subscriptions write the same rows.  Of those services the      *)
(* module keeps what they do to one account: they read it, and save a      *)
(* balance that they computed from what they read.  A transaction that is  *)
(* approved by hand saves what comes of joining strings (QPAccounts).      *)
(***************************************************************************)
EXTENDS Integers, FiniteSets, Functions

CONSTANTS Banks,       \* institutions, each with a QP account
          Nobank,
          Tellers,     \* calls, each made once
          Errands,     \* the requests teller t may be given
          Funds,       \* QP on each account at the start
          IssueCap,
          FeePer,      \* a settlement of so many QP pays a fee of 1
          MaxSlips,    \* bound: transactions that fail for reasons of their own
          Deals,       \* what another service may add to an account
          Joined,      \* what an approval may leave on an account
          MaxDeals     \* bound: readings and approvals by other services

InstitutionAssumption ==
    /\ IsFiniteSet(Banks) /\ Nobank \notin Banks \cup Tellers
    /\ Funds \in [Banks -> Nat] /\ IssueCap \in Nat
    /\ FeePer \in Nat \ {0} /\ MaxSlips \in Nat
    /\ Deals \subseteq Int /\ Joined \subseteq Int /\ MaxDeals \in Nat
    /\ \A t \in Tellers : Errands[t] # {} /\ \A e \in Errands[t] :
          /\ e.bank \in Banks /\ e.amount \in Nat \ {0}
          /\ (e.to = Nobank \/ e.to \in Banks \ {e.bank})

VARIABLES
    holding,  \* balance of each account
    minted,   \* minted supply of each institution
    approved, \* institutions that may issue
    owner,    \* the call that holds the lock on each account's row
    window,   \* where each call is
    errand,   \* its request
    total,    \* the new minted supply it has computed
    seen,     \* copies of accounts that other services have read and may still save
    dealt,    \* what other services have saved, summed for each account (history)
    stale,    \* accounts saved from a copy out of date, or by an approval (history)
    crossed,  \* accounts another service lowered between a settlement's check and its
              \* UPDATE, or an approval wrote (history)
    deals,    \* readings and approvals by other services
    journal,  \* sum of the transactions recorded for each account (history)
    issued,   \* QP issued to each (history)
    fee,      \* fees kept by settlements (history)
    both,     \* <<kind, bank>> of calls in flight at once (history)
    slips     \* transactions that failed (history)

bankHist == <<journal, issued, fee, both, slips>>
outside  == <<seen, dealt, stale, crossed, deals>>
bankVars == <<holding, minted, approved, owner, window, errand, total, outside, bankHist>>

Init ==
    /\ holding = Funds /\ minted = [b \in Banks |-> 0]
    /\ approved = {}
    /\ owner = [b \in Banks |-> Nobank]
    /\ window = [t \in Tellers |-> "idle"]
    /\ errand = [t \in Tellers |-> CHOOSE e \in Errands[t] : TRUE]
    /\ total = [t \in Tellers |-> 0]
    /\ journal = [b \in Banks |-> 0] /\ issued = [b \in Banks |-> 0]
    /\ fee = 0 /\ both = {} /\ slips = 0
    /\ seen = {} /\ dealt = [b \in Banks |-> 0] /\ stale = {} /\ crossed = {} /\ deals = 0

Mints(t)   == errand[t].to = Nobank
Kind(t)    == IF Mints(t) THEN "issue" ELSE "settle"
Bank(t)    == errand[t].bank
Worth(t)   == errand[t].amount
Closed     == {"idle", "done", "refused", "failed"}
Busy       == {t \in Tellers : window[t] \in {"first", "second", "commit"}}
Rows(t)    == {Bank(t), errand[t].to} \ {Nobank}
Fee(amount) == amount \div FeePer

Go(t, where) == window' = [window EXCEPT ![t] = where]
Unlock(t) == owner' = [b \in Banks |-> IF owner[b] = t THEN Nobank ELSE owner[b]]

\* Calls whose checks and commits overlap.
Meets(t) ==
    both' = IF \E u \in Busy \ {t} : Kind(u) = Kind(t) /\ Bank(u) = Bank(t)
            THEN both \cup {<<Kind(t), Bank(t)>>} ELSE both

Begin(t) ==
    /\ window[t] = "idle"
    /\ \E e \in Errands[t] : errand' = [errand EXCEPT ![t] = e]
    /\ Go(t, "check")
    /\ UNCHANGED <<holding, minted, approved, owner, total, outside, bankHist>>

Approve(b) ==
    /\ b \notin approved
    /\ approved' = approved \cup {b}
    /\ UNCHANGED <<holding, minted, owner, window, errand, total, outside, bankHist>>

-----------------------------------------------------------------------------

\* Mutant: the cap is compared with the amount alone.
WithinCapAlone(b, amount) == amount <= IssueCap

WithinCap(b, amount) == minted[b] + amount <= IssueCap

\* The checks of issue; the new total is computed here.
CheckIssue(t) ==
    /\ window[t] = "check" /\ Mints(t)
    /\ IF Bank(t) \in approved /\ WithinCap(Bank(t), Worth(t))
       THEN /\ total' = [total EXCEPT ![t] = minted[Bank(t)] + Worth(t)]
            /\ Go(t, "first") /\ Meets(t)
       ELSE Go(t, "refused") /\ UNCHANGED <<total, both>>
    /\ UNCHANGED <<holding, minted, approved, owner, errand, outside, journal, issued, fee, slips>>

Covers(b, amount) == holding[b] >= amount

CheckSettlement(t) ==
    /\ window[t] = "check" /\ ~Mints(t)
    /\ IF Covers(Bank(t), Worth(t))
       THEN Go(t, "first") /\ Meets(t)
       ELSE Go(t, "refused") /\ UNCHANGED both
    /\ UNCHANGED <<holding, minted, approved, owner, errand, total, outside, journal, issued, fee, slips>>

\* UPDATE takes the lock of the row and waits while another transaction has it.
LockRow(t, b) == owner[b] = Nobank /\ owner' = [owner EXCEPT ![b] = t]

UpdateSource(t) ==
    /\ window[t] = "first" /\ LockRow(t, Bank(t))
    /\ Go(t, IF Mints(t) THEN "commit" ELSE "second")
    /\ UNCHANGED <<holding, minted, approved, errand, total, outside, bankHist>>

UpdateTarget(t) ==
    /\ window[t] = "second" /\ LockRow(t, errand[t].to)
    /\ Go(t, "commit")
    /\ UNCHANGED <<holding, minted, approved, errand, total, outside, bankHist>>

\* What the transaction adds to an account.
Share(t, b) ==
    CASE Mints(t) /\ b = Bank(t)  -> Worth(t)
      [] ~Mints(t) /\ b = Bank(t) -> -Worth(t)
      [] b = errand[t].to         -> Worth(t) - Fee(Worth(t))
      [] OTHER                    -> 0

\* Everything the transaction wrote becomes visible and its locks are released.
Commit(t) ==
    /\ window[t] = "commit"
    /\ holding' = [b \in Banks |-> holding[b] + Share(t, b)]
    /\ journal' = [b \in Banks |-> journal[b] + Share(t, b)]
    /\ IF Mints(t)
       THEN /\ minted' = [minted EXCEPT ![Bank(t)] = total[t]]
            /\ issued' = [issued EXCEPT ![Bank(t)] = @ + Worth(t)]
            /\ UNCHANGED fee
       ELSE /\ fee' = fee + Fee(Worth(t))
            /\ UNCHANGED <<minted, issued>>
    /\ Unlock(t) /\ Go(t, "done")
    /\ UNCHANGED <<approved, errand, total, outside, both, slips>>

\* Two settlements in opposite directions wait for each other: one is rolled back.
Deadlocked(t) ==
    /\ window[t] = "second"
    /\ \E u \in Tellers : /\ window[u] = "second" /\ owner[errand[t].to] = u
                          /\ owner[errand[u].to] = t

\* Mutant: a rollback does not release the locks.
HangOn(t) ==
    /\ \/ Deadlocked(t) /\ UNCHANGED slips
       \/ window[t] \in {"first", "second", "commit"} /\ slips < MaxSlips /\ slips' = slips + 1
    /\ Go(t, "failed")
    /\ UNCHANGED <<holding, minted, approved, owner, errand, total, outside, journal, issued, fee, both>>

Rollback(t) ==
    /\ \/ Deadlocked(t) /\ UNCHANGED slips
       \/ window[t] \in {"first", "second", "commit"} /\ slips < MaxSlips /\ slips' = slips + 1
    /\ Unlock(t) /\ Go(t, "failed")
    /\ UNCHANGED <<holding, minted, approved, errand, total, outside, journal, issued, fee, both>>

-----------------------------------------------------------------------------
(* The other services that write QP accounts, seen from one account: each   *)
(* side of a transfer is a write of its own here, one that fails or is      *)
(* rolled back does not happen, and a settlement that a transfer deadlocks  *)
(* with is among those that fail for reasons of their own.                  *)

\* findOne, without a lock; a fee locks the row it reads, and so saves at once.
ReadAccount(b) ==
    /\ deals < MaxDeals /\ deals' = deals + 1
    /\ seen' = seen \cup {[account |-> b, balance |-> holding[b], deal |-> deals]}
    /\ UNCHANGED <<holding, minted, approved, owner, window, errand, total,
                   dealt, stale, crossed, bankHist>>

Settling(b) == \E t \in Busy : ~Mints(t) /\ Bank(t) = b

\* The balance computed from the copy is saved, whatever the row holds by now; the
\* row must be free.  A debit has been checked against the copy.
SaveAccount(copy, amount) ==
    LET b == copy.account
        balance == copy.balance + amount
    IN  /\ owner[b] = Nobank
        /\ amount < 0 => balance >= 0
        /\ seen' = seen \ {copy}
        /\ holding' = [holding EXCEPT ![b] = balance]
        /\ dealt' = [dealt EXCEPT ![b] = @ + amount]
        /\ stale' = IF copy.balance # holding[b] THEN stale \cup {b} ELSE stale
        /\ crossed' = IF Settling(b) /\ balance < holding[b] THEN crossed \cup {b} ELSE crossed
        /\ UNCHANGED <<minted, approved, owner, window, errand, total, deals, bankHist>>

\* An approval reads and saves at once; it debits without a check, and what it leaves
\* need not be a number: a large one stands for NaN, which passes every check.
ReviewAccount(b) ==
    /\ deals < MaxDeals /\ deals' = deals + 1
    /\ owner[b] = Nobank
    /\ \E balance \in Joined : holding' = [holding EXCEPT ![b] = balance]
    /\ stale' = stale \cup {b} /\ crossed' = crossed \cup {b}
    /\ UNCHANGED <<minted, approved, owner, window, errand, total, seen, dealt, bankHist>>

Step(t) == \/ CheckIssue(t) \/ CheckSettlement(t) \/ UpdateSource(t) \/ UpdateTarget(t)
           \/ Commit(t) \/ Rollback(t)

Next == \/ \E b \in Banks : Approve(b) \/ ReadAccount(b) \/ ReviewAccount(b)
        \/ \E copy \in seen, amount \in Deals : SaveAccount(copy, amount)
        \/ \E t \in Tellers : Begin(t) \/ Step(t)

Spec == Init /\ [][Next]_bankVars
FairSpec == Spec /\ WF_bankVars(\E t \in Tellers : Step(t))

-----------------------------------------------------------------------------
(* Properties.                                                              *)

TypeOK ==
    /\ holding \in [Banks -> Int] /\ minted \in [Banks -> Nat]
    /\ approved \subseteq Banks
    /\ owner \in [Banks -> Tellers \cup {Nobank}]
    /\ window \in [Tellers -> Closed \cup {"check", "first", "second", "commit"}]
    /\ DOMAIN errand = Tellers /\ \A t \in Tellers : errand[t] \in Errands[t]
    /\ total \in [Tellers -> Nat]
    /\ journal \in [Banks -> Int] /\ issued \in [Banks -> Nat] /\ fee \in Nat
    /\ both \subseteq {"issue", "settle"} \X Banks /\ slips \in Nat
    /\ seen \subseteq [account : Banks, balance : Int, deal : Nat] /\ dealt \in [Banks -> Int]
    /\ stale \subseteq Banks /\ crossed \subseteq Banks /\ deals \in 0..MaxDeals

Sum(f) == SumFunctionOnSet(f, Banks)

\* Every balance is what the account had, the transactions recorded for it and what
\* other services moved on it, however calls overlap, and what all accounts hold is
\* what was there, was issued and was brought by others, less the fees of the
\* settlements; unless another service saved a balance from a copy that was out of
\* date, which undoes what was written since, or an approval wrote the account.
QPIsConserved ==
    /\ \A b \in Banks : holding[b] = Funds[b] + journal[b] + dealt[b] \/ b \in stale
    /\ Sum(holding) + fee = Sum(Funds) + Sum(issued) + Sum(dealt) \/ stale # {}

\* The minted supply counts everything that was issued and keeps to the cap, unless
\* two issues of the institution were in flight at once.
MintedWithinCap ==
    \A b \in Banks : \/ minted[b] = issued[b] /\ minted[b] <= IssueCap
                     \/ <<"issue", b>> \in both

\* No account is overdrawn unless two settlements were in flight from it at once,
\* another service took from it between a settlement's check and its UPDATE, or an
\* approval wrote it.
NotOverdrawn ==
    \A b \in Banks : holding[b] >= 0 \/ <<"settle", b>> \in both \/ b \in crossed

\* Every call ends, settlements in opposite directions too.
CallsEnd == []<>(\A t \in Tellers : window[t] \in Closed)
=============================================================================
