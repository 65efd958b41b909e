---------------------------- MODULE OrderPromise ----------------------------
(***************************************************************************)
(* What an EC order promises to the shop and to the customer, whatever its *)
(* payments, refunds, jobs and webhooks do: it is paid once, by one        *)
(* payment; goods leave only after it was paid; the reservation is held    *)
(* until the order is called off; and an order that was paid is called off *)
(* only together with the refund of its whole total.                       *)
(***************************************************************************)
EXTENDS Integers

CONSTANTS Payment, NoPayment

VARIABLES
  status,    \* where the order is
  total,     \* what it costs
  payer,     \* the payment it was paid with
  returned,  \* what the customer was told he has back
  stock      \* is the reservation held?

(* What he is still owed, should the order be called off.                   *)
Owed == total - returned

promised == <<status, total, payer, returned, stock>>

PromiseInit ==
  /\ status = "none" /\ total = 0 /\ payer = NoPayment
  /\ returned = 0 /\ stock = "shelf"

Place ==
  /\ status = "none"
  /\ total' \in Nat
  /\ status' = IF total' = 0 THEN "paid" ELSE "pending"
  /\ stock' = "reserved"
  /\ UNCHANGED <<payer, returned>>

BePaid ==
  /\ status = "pending"
  /\ status' = "paid"
  /\ payer' \in Payment
  /\ UNCHANGED <<total, returned, stock>>

Advance ==
  /\ <<status, status'>> \in
       {<<"paid", "processing">>, <<"paid", "shipped">>, <<"processing", "shipped">>,
        <<"shipped", "delivered">>}
  /\ UNCHANGED <<total, payer, returned, stock>>

Return ==
  /\ payer # NoPayment
  /\ UNCHANGED <<status, total, payer, stock>>

CallOff ==
  /\ \/ status = "pending" /\ UNCHANGED returned
     \/ /\ status \in {"paid", "processing"}
        /\ payer # NoPayment => Owed' <= 0
        /\ payer = NoPayment => UNCHANGED returned
  /\ status' = "cancelled"
  /\ stock' = "shelf"
  /\ UNCHANGED <<total, payer>>

PromiseNext == Place \/ BePaid \/ Advance \/ Return \/ CallOff

Promise == PromiseInit /\ [][PromiseNext]_promised
=============================================================================
