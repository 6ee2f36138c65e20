------------------------------- MODULE MCShop -------------------------------
(***************************************************************************)
(* Instances of Shop for TLC.                                              *)
(***************************************************************************)
EXTENDS Shop

CONSTANTS c1, c2, c3

Won(n) == Money(n, "KRW")
Dollars(n) == Money(n, "USD")

\* Nothing, a price in won and one in dollars.
MCNewPrices == {Won(0), Won(1), Dollars(2)}

\* No SKU, a free one, one code twice, and two that are in order.
MCNewSkus == {<<>>, <<NewSku(c1, Won(0))>>, <<NewSku(c1, Won(1)), NewSku(c1, Won(1))>>,
              <<NewSku(c1, Won(1)), NewSku(c2, Dollars(2))>>}

MCDetails == {"home", "office", Blank}

=============================================================================
