----------------------------- MODULE MCOrderBook -----------------------------
(* Small instances of OrderBook for TLC.                                    *)
EXTENDS OrderBook, TLC

CONSTANTS alice, bob, ai, stripe, momo

MCUsers == {alice, bob, ai}
MCGenesis == alice :> 2 @@ bob :> 2 @@ ai :> 1

Order(u, s, q, f) == [user |-> u, side |-> s, qty |-> q, fac |-> f]

\* A sell, a sell or a buy that meets it, and two buys that each want more than
\* one of the sells: they share rows, wait for each other and may deadlock.
DirectMenu == << {Order(alice, "sell", 1, NoFac)},
                 {Order(bob, "sell", 2, NoFac), Order(bob, "buy", 1, NoFac)},
                 {Order(ai, "buy", 3, NoFac)},
                 {Order(ai, "buy", 2, NoFac)} >>

\* The first order is met by two calls at another facilitator.
BridgeMenu == << {Order(alice, "sell", 2, stripe)},
                 {Order(bob, "buy", 3, momo)},
                 {Order(ai, "buy", 1, momo), Order(bob, "buy", 1, stripe)} >>
=============================================================================
