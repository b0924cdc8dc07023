----------------------------- MODULE MCQPAccounts -----------------------------
(* Small instances of QPAccounts for TLC.                                   *)
EXTENDS QPAccounts, TLC

CONSTANTS alice, bob, one, two, three, r1, r2

MCInitial == alice :> 20 @@ bob :> 31

Transfer(a, b) == [kind |-> "transfer", src |-> a, dst |-> b, amt |-> 10]
Deposit(a)     == [kind |-> "deposit", src |-> Nobody, dst |-> a, amt |-> 10]
Withdraw(a, q) == [kind |-> "withdraw", src |-> a, dst |-> Nobody, amt |-> q]
Charge(a)      == [kind |-> "charge", src |-> a, dst |-> Nobody, amt |-> 20]

\* Transfers in opposite directions or to oneself, a deposit or a withdrawal (20 QP
\* are covered only without the fee), and a charge on the same row.
MCMenu == one   :> {Transfer(alice, bob)} @@
          two   :> {Transfer(bob, alice), Transfer(alice, alice), Deposit(alice),
                    Withdraw(alice, 20)} @@
          three :> {Charge(alice)}

\* One deposit, to be approved.
ReviewMenu == one :> {Deposit(alice), Transfer(alice, bob), Withdraw(alice, 10)}
=============================================================================
