------------------------------ MODULE Pricing -------------------------------
(***************************************************************************)
(* The arithmetic of prices, costs and margins, which the quote of         *)
(* POST /products/profitability and the products share                     *)
(* (ProfitabilityCalculator, ProfitMargin, Money).                         *)
(*                                                                         *)
(* Amounts are in cents.  A margin is a share of the price, in hundredths  *)
(* of a percent: as many decimals as are stored.  Money.of and the         *)
(* products round before anything is compared, so a cost and a price are   *)
(* whole numbers of cents; a margin as the client writes it may have more  *)
(* decimals, and is here in ten-thousandths of a percent.                  *)
(***************************************************************************)
EXTENDS Integers

Whole == 10000     \* 100.00 %
RawUnit == 100     \* ten-thousandths in a hundredth of a percent

\* Mutant of HalfUp: what is left over is dropped.
Truncated(n, d) == n \div d

\* n / d to the nearest whole number, halves away from zero (ROUND_HALF_UP).
HalfUp(n, d) ==
  IF n >= 0 THEN (2 * n + d) \div (2 * d) ELSE -((d - 2 * n) \div (2 * d))

\* ProfitMargin: what the client wrote is judged first, and then rounded.
ValidRawMargin(raw) == 0 < raw /\ raw < Whole * RawUnit

ValidMargin(margin) == ValidRawMargin(margin * RawUnit)

StoredMargin(raw) == HalfUp(raw, RawUnit)

\* priceForMargin, rounded.
Quote(cost, margin) == HalfUp(Whole * cost, Whole - margin)

\* RunSeedUseCase.costForMargin.
CostForMargin(price, margin) == HalfUp(price * (Whole - margin), Whole)

\* marginOf, rounded.
RealMargin(cost, price) ==
  IF price = 0 THEN 0 ELSE HalfUp(Whole * (price - cost), price)

\* ensurePricingIsConsistent.
Fits(cost, price, margin) ==
  /\ price > 0
  /\ 0 <= margin /\ margin < Whole
  /\ RealMargin(cost, price) = margin

\* From this price on half a cent is less than half a hundredth of the margin.
HundredPesos == 10000

=============================================================================
