------------------------------ MODULE MCOrderSync ------------------------------
(***************************************************************************)
(* A shop order split in three, fetched two at a time, or in two, fetched  *)
(* one at a time, for OrderSync.                                           *)
(***************************************************************************)
EXTENDS OrderSync

CONSTANTS w1, w2

Pieces == <<1, 2, 1>>
Halves == <<1, 1>>

\* the amounts of the line item, in cents
OneTax == <<6>>
TwoDiscounts == <<3, 1>>
OneShippingLine == <<5>>
================================================================================
