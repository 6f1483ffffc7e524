------------------------------ MODULE OrderAmounts ------------------------------
(***************************************************************************)
(* What the orders of a split shop order cost: OrderItemMapper gives each  *)
(* fulfillment order its share of the line item, OrderMapper adds the      *)
(* shipping to the first. The shop order has one line item.                *)
(*                                                                         *)
(* The code divides the tax and the discount of a line by its quantity and *)
(* multiplies by the quantity to fulfil. Amounts here are in Quantity-ths  *)
(* of a cent, so that a unit's share is a whole number; the rounding of    *)
(* the floating point numbers is left out.                                 *)
(***************************************************************************)
EXTENDS Integers, Sequences

CONSTANTS
  Quantity,            \* of the line item
  originalUnitPrice,   \* in cents; taxes included
  taxLines,            \* tax of the line, one amount per tax
  discountAllocations, \* discount of the line, one amount per discount
  shippingLines        \* discounted price of each

ASSUME OrderAmountsAssumption ==
  /\ Quantity \in Nat \ {0}
  /\ originalUnitPrice \in Nat
  /\ {taxLines, discountAllocations, shippingLines} \subseteq Seq(Nat)

\* The code looks at the first tax, discount and shipping line only.
First(lines) == IF lines = <<>> THEN 0 ELSE Head(lines)

\* A line's amount, for q of its Quantity: per unit, times q.
Share(amount, q) == amount * q

\* OrderItemMapper.
taxAmount(q) == Share(First(taxLines), q)
discount(q)  == Share(First(discountAllocations), q)
pricePaid(q) == originalUnitPrice * Quantity * q - discount(q)

\* calculateShippingCosts.
shippingCost == First(shippingLines) * Quantity

\* OrderMapper: the shipping is in the total of the first fulfillment order only,
\* though its field is cleared on a partial one only.
Amounts(q, isFirstFulfillmentOrder, partial) ==
  [total |-> pricePaid(q) + (IF isFirstFulfillmentOrder THEN shippingCost ELSE 0),
   tax |-> taxAmount(q),
   shipping |-> IF partial /\ ~isFirstFulfillmentOrder THEN 0 ELSE shippingCost]
=================================================================================
