------------------------------- MODULE Quotes -------------------------------
(***************************************************************************)
(* The offers the program computes by itself.                              *)
(*                                                                         *)
(* POST /products/profitability asked for the price that leaves a margin   *)
(* on a cost reads and writes nothing: a client asks, gets a price, and    *)
(* creates a product of that cost, margin and price.  The data of the seed *)
(* give a price and a margin, and the cost is derived from them.           *)
(*                                                                         *)
(* The margins here have at most two decimals, as many as are stored.  The *)
(* endpoint takes more, uses them all, and answers with a price for which  *)
(* the rounded margin may be refused.                                      *)
(***************************************************************************)
EXTENDS Pricing

CONSTANTS
  Quoted,  \* bound: the costs and margins quotes are asked for
  Sown     \* bound: the prices and margins the data of the seed give

ASSUME QuoteAssumption == Quoted \cup Sown \subseteq Nat \X (0 .. Whole - 1)

VARIABLE quote   \* the last offer

NoQuote == [cost |-> 0, margin |-> 0, price |-> 0]

Answer(cost, margin) == [cost |-> cost, margin |-> margin, price |-> Quote(cost, margin)]

\* What the seed offers: costForMargin.
Sowing(price, margin) ==
  [cost |-> CostForMargin(price, margin), margin |-> margin, price |-> price]

Ask ==
  /\ quote = NoQuote
  /\ \E q \in Quoted : quote' = Answer(q[1], q[2])

Sow ==
  /\ quote = NoQuote
  /\ \E o \in Sown : quote' = Sowing(o[1], o[2])

Forget ==
  /\ quote # NoQuote
  /\ quote' = NoQuote

QuotesInit == quote = NoQuote

QuotesNext == Ask \/ Sow \/ Forget

QuotesSpec == QuotesInit /\ [][QuotesNext]_quote

\* A product of the cost and the margin a quote was asked for and of the price
\* it gave is accepted, if the price is of a hundred pesos or more, and so is
\* one of a price and a margin of the seed and of the cost derived from them
\* (Product.ensurePricingIsConsistent): rounding never moves the margin.
QuoteIsHonoured ==
  quote.price >= HundredPesos /\ ValidMargin(quote.margin) =>
    Fits(quote.cost, quote.price, quote.margin)

\* The same of any price, as the comment of ensurePricingIsConsistent says.
EveryQuoteIsHonoured ==
  quote.price > 0 /\ ValidMargin(quote.margin) => Fits(quote.cost, quote.price, quote.margin)

=============================================================================
