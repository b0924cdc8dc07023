--------------------------- MODULE MCFacilitatorTx ---------------------------
(* Small instances of FacilitatorTx for TLC.                                *)
EXTENDS FacilitatorTx, TLC

\* Requests are alike, and so are the deposits.
MCSymmetry == Permutations(Deliveries) \cup Permutations(Txs \ Withdrawals)

\* Bound: two transactions are created, a deposit and a withdrawal or, with at
\* most three webhook requests, two deposits.
MCBound ==
    LET Created == {t \in Txs : call[t] # "new"}
    IN /\ Cardinality(Created) <= 2
       /\ Cardinality(Created \ Withdrawals) = 2 => sent <= 3
=============================================================================
