------------------------------ MODULE QPLedger ------------------------------
(***************************************************************************)
(* What the market balance service promises: one register per user, every  *)
(* accepted movement applied exactly once and as a whole, no register ever *)
(* below zero.  Nothing here knows of transactions, row locks or copies of *)
(* rows; MarketBalance is the detailed specification that implements it.   *)
(***************************************************************************)
EXTENDS Integers

CONSTANTS Users,    \* account holders, the AI participant included
          AI,       \* the AI participant, which also collects the trade fees
          Amounts,  \* the sizes of a single credit or debit
          Fee,      \* the flat trade fee
          Genesis   \* the balance every user starts with

VARIABLE bal

Init == bal = Genesis

\* A credit or a debit of one register.
Post(u, d) ==
    /\ bal[u] + d >= 0
    /\ bal' = [bal EXCEPT ![u] = @ + d]

\* The trade fee moves from the taker to the AI participant in one step.
PayFee(u) ==
    /\ u # AI
    /\ bal[u] >= Fee
    /\ bal' = [bal EXCEPT ![u] = @ - Fee, ![AI] = @ + Fee]

Next ==
    \E u \in Users :
        \/ \E a \in Amounts : Post(u, a) \/ Post(u, -a)
        \/ PayFee(u)

Spec == Init /\ [][Next]_bal
=============================================================================
