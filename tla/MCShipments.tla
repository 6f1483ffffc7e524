------------------------------ MODULE MCShipments ------------------------------
(***************************************************************************)
(* Small orders and shipments for Shipments: two items that share a SKU    *)
(* beside one of its own, shipped in parts.                                *)
(***************************************************************************)
EXTENDS Shipments, TLC

CONSTANTS w1, w2

TwoSkus    == {"s", "t"}
ThreeItems == <<"s", "s", "t">>
Ordered    == <<1, 2, 2>>
Parcel(s, t) == [x \in TwoSkus |-> IF x = "s" THEN s ELSE t]

\* Everything ships: two parcels in one message and two messages of one.
InParts ==
  << <<Parcel(1, 0), Parcel(1, 0)>>, <<Parcel(1, 1)>>, <<Parcel(0, 1)>> >>
\* One parcel holds half of what was ordered.
HalfShipped == << <<Parcel(1, 1)>> >>
================================================================================
