--------------------------- MODULE MCMarketBalance ---------------------------
(* Small instances of MarketBalance for TLC.                                *)
EXTENDS MarketBalance, TLC

CONSTANTS alice, bob, ai

MCUsers == {alice, bob, ai}

\* Enough for one debit of alice, two fees of bob and a credit of either.
MCGenesis == alice :> 2 @@ bob :> 1 @@ ai :> 1

=============================================================================
