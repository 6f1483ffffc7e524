----------------------------- MODULE RefundAmounts -----------------------------
(***************************************************************************)
(* What a return is worth.  It is calculated twice: by the middleware from *)
(* its own order (refund-orders/mappers/refund-order.mapper.ts), which is  *)
(* all that a manual order gets, and for the others by Shopify, whose      *)
(* answer graphql-mappers/refund-order.mapper.ts maps to the same record.   *)
(* Refunds has the calls that use both.                                    *)
(*                                                                         *)
(* Amounts are such that a piece has a whole share of each; the rounding   *)
(* of the floating point numbers is left out.  An item stands for its id,  *)
(* its line in Shopify and its SKU.  The total of an item, which Shopify   *)
(* gives after discounts and the middleware before, is left out.           *)
(***************************************************************************)
EXTENDS Integers, Sequences, FiniteSets, Sums

CONSTANTS
  Items,
  Prices, pieceTax, pieceDiscount, shippingCost,
  MaxPieces   \* bound: of an item

\* What the constants must be: Shopify discounts no piece below nothing.
ConstantsFit ==
  /\ {pieceTax, pieceDiscount, shippingCost, MaxPieces} \cup Prices \subseteq Nat
  /\ MaxPieces > 0
  /\ \A p \in Prices : pieceDiscount =< p

VARIABLES
  price, quantity, \* of each item of the order
  known,           \* the items that are still in the middleware's order
  returned,        \* pieces of each item in the request, 0 for an item that is not
  named,           \* the items of the request that carry customerLineItemId
  refundShipping,
  voucher          \* what was paid by another gateway, the first that is paid back

vars == <<price, quantity, known, returned, named, refundShipping, voucher>>

Init ==
  /\ price \in [Items -> Prices]
  /\ quantity \in [Items -> 1..MaxPieces]
  /\ known \in SUBSET Items
  /\ returned \in {r \in [Items -> 0..MaxPieces] : \A i \in Items : r[i] =< quantity[i]}
  /\ named \in SUBSET Items
  /\ refundShipping \in BOOLEAN
  /\ voucher \in {0, 1}

Requested == {i \in Items : returned[i] > 0}
Total(f) == Sum(f, DOMAIN f)

----------------------------------------------------------------------------
(* The middleware.  Its order has the items it still knows.                *)

taxAmount(i) == pieceTax * quantity[i]
totalOrderItemQuantity == Total([i \in known |-> quantity[i]])
orderDiscount == pieceDiscount * totalOrderItemQuantity
orderTotal == Total([i \in known |-> price[i] * quantity[i]]) - orderDiscount + shippingCost

\* calculateRefundOrder: what the order does not have is left out.
returnOrderItems == known \cap Requested

unitTax(i) == taxAmount(i) \div quantity[i]

RefundOrderItem(i) ==
  [sku |-> i, quantity |-> returned[i], unitPrice |-> price[i],
   unitTax |-> unitTax(i), totalTax |-> unitTax(i) * returned[i]]

discountTotal ==
  IF returnOrderItems = {} THEN 0
  ELSE (orderDiscount \div totalOrderItemQuantity)
         * Total([i \in returnOrderItems |-> returned[i]])

\* The tax is that of whole lines and the total that of the whole order, however
\* little is returned.
OwnRefund ==
  [refundOrderItems |-> {RefundOrderItem(i) : i \in returnOrderItems},
   lineItemsTotal |-> Total([i \in returnOrderItems |-> returned[i] * price[i]]),
   lineItemsTotalTax |-> Total([i \in returnOrderItems |-> taxAmount(i)]),
   discountTotal |-> discountTotal,
   total |-> IF refundShipping THEN orderTotal ELSE orderTotal - shippingCost]

----------------------------------------------------------------------------
(* The connector.                                                          *)

\* The line of an item is that of the order or the one the request names; without
\* either mapTo throws.
HasLine(i) == i \in known \cup named

mapTo ==
  [isRefundShipping |-> refundShipping,
   refundLineItems |-> {[lineItem |-> i, quantity |-> returned[i]] : i \in Requested}]

\* suggestedRefund of Shopify.
suggestedRefund(dto) ==
  LET Line(l) == [lineItem |-> l.lineItem, quantity |-> l.quantity,
                  price |-> price[l.lineItem], totalTax |-> pieceTax * l.quantity]
      due == Total([l \in dto.refundLineItems |-> (price[l.lineItem] - pieceDiscount) * l.quantity])
             + (IF dto.isRefundShipping THEN shippingCost ELSE 0)
  IN [refundLineItems |-> {Line(l) : l \in dto.refundLineItems},
      totalCartDiscountAmount |-> Total([l \in dto.refundLineItems |-> pieceDiscount * l.quantity]),
      suggestedTransactions |-> IF voucher = 0 THEN <<due>> ELSE <<voucher, due - voucher>>]

\* The total is the first transaction only.
mapFrom(response) ==
  LET items == {[sku |-> l.lineItem, quantity |-> l.quantity, unitPrice |-> l.price,
                 unitTax |-> l.totalTax \div l.quantity, totalTax |-> l.totalTax] :
                   l \in response.refundLineItems}
  IN [refundOrderItems |-> items,
      lineItemsTotal |-> Total([x \in items |-> x.unitPrice * x.quantity]),
      totalTax |-> Total([x \in items |-> x.totalTax]),
      discountTotal |-> response.totalCartDiscountAmount,
      total |-> Head(response.suggestedTransactions)]

ShopRefund == mapFrom(suggestedRefund(mapTo))

----------------------------------------------------------------------------
\* The two calculations of one return agree: item by item on what the middleware
\* knows, in the sums when it knows all of it, in the total when everything is
\* returned and was paid by one gateway.  The middleware's tax is never below that of
\* the returned pieces (refund-order.mapper.ts:46, graphql-mappers/
\* refund-order.mapper.ts:96).
CalculationsAgree ==
  (\A i \in Requested : HasLine(i)) =>
    LET own == OwnRefund  shop == ShopRefund IN
      /\ own.refundOrderItems = {x \in shop.refundOrderItems : x.sku \in known}
      /\ own.lineItemsTotalTax >= Total([x \in own.refundOrderItems |-> x.totalTax])
      /\ Requested \subseteq known =>
           /\ own.lineItemsTotal = shop.lineItemsTotal
           /\ own.discountTotal = shop.discountTotal
           /\ shop.totalTax =< own.lineItemsTotalTax
      /\ (known = Items /\ returned = quantity) =>
           /\ own.lineItemsTotalTax = shop.totalTax
           /\ voucher = 0 => own.total = shop.total
================================================================================
