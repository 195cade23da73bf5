----------------------------- MODULE ClosePosition -----------------------------
(***************************************************************************)
(* scripts/model-close-call-position.py: the arithmetic of one hypothetical *)
(* position.  Prices are in cents and quantities in hundredths, as the      *)
(* program's inputs have two decimal places; money is in millionths, in     *)
(* which every product and the fee of one percent are integers, exact where *)
(* the program's decimals of 28 digits are.  What is printed is rounded to  *)
(* cents, which is left out.                                                *)
(***************************************************************************)
EXTENDS Integers, TLAPS

Mint == 10000 * 1000000

(* amount: a quantity is at least 0.10, a price at least 0.01.              *)
Quantities == {q \in Nat : q >= 10}
Prices == {p \in Nat : p >= 1}
Sides == {"buy", "sell"}

Larger(a, b) == IF a >= b THEN a ELSE b

(* What a price moves a position of qty by, for one side.                   *)
Direction(side) == IF side = "buy" THEN 1 ELSE -1
Moved(side, qty, from, to) == Direction(side) * (100 * (qty * (to - from)))

(* One percent of the notional, or what the sweep's close gives at once.    *)
Base(qty, entry) == qty * entry
Fee(side, qty, entry, close) == Larger(Base(qty, entry), Moved(side, qty, entry, close))

RequiredCash(side, qty, entry, close) == 100 * (qty * entry) + Fee(side, qty, entry, close)
Affordable(side, qty, entry, close) == RequiredCash(side, qty, entry, close) <= Mint

Score(side, qty, entry, close, settlement) ==
  Moved(side, qty, entry, settlement) - Fee(side, qty, entry, close)
EndingValue(side, qty, entry, close, settlement) ==
  Mint + Score(side, qty, entry, close, settlement)

Other(side) == IF side = "buy" THEN "sell" ELSE "buy"

-----------------------------------------------------------------------------
(* The products are integers, and a price less another one distributes.     *)
LEMMA Products ==
  ASSUME NEW q \in Quantities, NEW a \in Prices, NEW b \in Prices
  PROVE  /\ q * a \in Nat /\ q * a >= 10 /\ q * b \in Nat
         /\ q * (b - a) \in Int /\ q * (b - a) = q * b - q * a
<1>1. q \in Nat /\ q >= 10 /\ a \in Nat /\ a >= 1 /\ b \in Nat
  BY DEF Quantities, Prices
<1>2. q * a \in Nat /\ q * b \in Nat /\ q * (b - a) \in Int
  BY <1>1
<1>3. q * a >= 10
  BY <1>1, SMTT(30)
<1>4. q * (b - a) = q * b - q * a
  BY <1>1, SMTT(30)
<1> QED
  BY <1>2, <1>3, <1>4

(* No position gains by itself: settled at the close of the sweep it was    *)
(* executed in, a trade at whatever price leaves neither side ahead (the    *)
(* fee takes the whole gap between entry and close).                        *)
THEOREM NoGainAtClose ==
  ASSUME NEW side \in Sides, NEW q \in Quantities, NEW e \in Prices, NEW c \in Prices
  PROVE  Score(side, q, e, c, c) <= 0
<1>1. q * e \in Nat /\ q * (c - e) \in Int
  BY Products
<1>2. Moved(side, q, e, c) \in Int
  BY <1>1 DEF Moved, Direction
<1> QED
  BY <1>1, <1>2 DEF Score, Fee, Larger, Base

(* Whatever the close and the settlement, the two sides of one trade lose   *)
(* at least two percent of the notional together: trading with oneself      *)
(* never pays.                                                              *)
THEOREM TradeCostsBothSides ==
  ASSUME NEW side \in Sides, NEW q \in Quantities, NEW e \in Prices, NEW c \in Prices,
         NEW s \in Prices
  PROVE  /\ Score(side, q, e, c, s) + Score(Other(side), q, e, c, s) <= -2 * Base(q, e)
         /\ Base(q, e) > 0
<1>1. q * e \in Nat /\ q * e >= 10 /\ q * (c - e) \in Int /\ q * (s - e) \in Int
  BY Products
<1>2. Moved(Other(side), q, e, s) = -Moved(side, q, e, s)
  BY <1>1 DEF Moved, Direction, Other, Sides
<1>3. \A d \in Sides : Moved(d, q, e, s) \in Int /\ Moved(d, q, e, c) \in Int
  BY <1>1 DEF Moved, Direction
<1>4. Other(side) \in Sides
  BY DEF Other, Sides
<1> QED
  BY <1>1, <1>2, <1>3, <1>4 DEF Score, Fee, Larger, Base

(* The cash that is asked of a buyer is enough: the ending value is that of *)
(* the shares at least, whatever they settle at.                            *)
THEOREM BuyerStaysSolvent ==
  ASSUME NEW q \in Quantities, NEW e \in Prices, NEW c \in Prices, NEW s \in Prices,
         Affordable("buy", q, e, c)
  PROVE  EndingValue("buy", q, e, c, s) >= 100 * (q * s) /\ q * s > 0
<1>1. q * e \in Nat /\ q * s \in Nat /\ q * s >= 10 /\ q * (s - e) = q * s - q * e
  BY Products
<1>2. q * (c - e) \in Int
  BY Products
<1>3. Fee("buy", q, e, c) \in Int
  BY <1>1, <1>2 DEF Fee, Larger, Base, Moved, Direction
<1>4. Moved("buy", q, e, s) = 100 * (q * s) - 100 * (q * e)
  BY <1>1 DEF Moved, Direction
<1> QED
  BY <1>1, <1>3, <1>4 DEF Affordable, RequiredCash, EndingValue, Score, Mint

(* A seller stays solvent up to twice the entry price, which is what the    *)
(* same cash covers of a short position, and not beyond in general.         *)
THEOREM SellerSolventToDouble ==
  ASSUME NEW q \in Quantities, NEW e \in Prices, NEW c \in Prices, NEW s \in Prices,
         Affordable("sell", q, e, c), s <= 2 * e
  PROVE  EndingValue("sell", q, e, c, s) >= 0
<1>1. q * e \in Nat /\ q * s \in Nat /\ q * (s - e) = q * s - q * e /\ q * (c - e) \in Int
  BY Products
<1>2. q * s <= 2 * (q * e)
  <2>1. q \in Nat /\ e \in Nat /\ s \in Nat
    BY DEF Quantities, Prices
  <2>2. q * (2 * e - s) >= 0
    BY <2>1, SMTT(30)
  <2>3. q * (2 * e - s) = 2 * (q * e) - q * s
    BY <2>1, SMTT(30)
  <2> QED
    BY <2>2, <2>3, <1>1
<1>3. Fee("sell", q, e, c) \in Int
  BY <1>1 DEF Fee, Larger, Base, Moved, Direction
<1>4. Moved("sell", q, e, s) = 100 * (q * e) - 100 * (q * s)
  BY <1>1 DEF Moved, Direction
<1> QED
  BY <1>1, <1>2, <1>3, <1>4 DEF Affordable, RequiredCash, EndingValue, Score, Mint
=============================================================================
