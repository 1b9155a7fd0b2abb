---------------------------- MODULE MCHedgeFlow ----------------------------
(* Values for HedgeFlow: an account and a market a few shares and percents   *)
(* wide, with one value on each side of every threshold that matters.        *)
EXTENDS HedgeFlow

Default ==
    [epsilon |-> 1, threshold |-> 2, maxDelta |-> 5, maxOrder |-> 3,
     minHedge |-> 1, maxPosition |-> 4, cooldown |-> 2, maxDaily |-> 2,
     movePct |-> 1, maxLag |-> 1, wideSpread |-> 1, extremeSpread |-> 3,
     guardSpread |-> None, riskSpread |-> None, strategyEnabled |-> TRUE]

\* What a reload may bring: a limit on the spread, and tighter ones.
Tighter == [Default EXCEPT !.guardSpread = 2, !.maxOrder = 2, !.cooldown = 3,
                           !.maxDaily = 1]

\* A second hedge needs no other price.
AnyPrice == [Default EXCEPT !.movePct = 0]

AnyPriceConfig == {AnyPrice}
OneConfig  == {Default}
TwoConfigs == {Default, Tighter}

Quote(p, s) == [price |-> p, spread |-> s]
GoodQuotes == {Quote(100, 0), Quote(102, 0)}
WideQuotes == {Quote(100, 0), Quote(102, 3)}
AllQuotes  == {Quote(100, 0), Quote(102, 3), Quote(102, None)}

Book(d, n) == [delta |-> d, stock |-> n, option |-> TRUE, greeks |-> "valid"]
OneBook  == {Book(-3, 1)}
TwoBooks == {Book(-3, 1), Book(0, 1)}
\* Within the threshold, at it, over it on both sides, at the delta limit, next
\* to the position limit, with bad greeks, and without options.
AllBooks == {Book(-3, 1), Book(6, 0), Book(2, 0), Book(-3, 2),
             [Book(3, 0) EXCEPT !.greeks = "bad"],
             [Book(3, 3) EXCEPT !.option = FALSE]}
=============================================================================
