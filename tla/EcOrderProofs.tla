--------------------------- MODULE EcOrderProofs ---------------------------
(***************************************************************************)
(* Theorems about EcOrder for every set of payments and refunds, every     *)
(* amount and every number of attempts: the refund job that follows money  *)
(* the order does not need, the job that ends a pending order, that the    *)
(* order keeps OrderPromise, and the money: what the payments of an order  *)
(* hold, what is refunded, and what a cancelled order has given back.      *)
(*                                                                         *)
(* The invariants are layered: Inv (control), Books (types and how the     *)
(* tables fit together), and on top of both, each from those before it,    *)
(* StakesWithinTotal, OrphanMade, Counted, Once, Backing and Agrees.       *)
(***************************************************************************)
EXTENDS EcOrder, FiniteSums, TLAPS

(* The fields of the rows, and the values control depends on.  Amounts of   *)
(* payments are the matter of Books, below.                                 *)
OrderShape ==
  /\ DOMAIN order = {"status", "total", "attempts", "failed", "paidBy", "refunded", "stock"}
  /\ order.status \in OrderStatus
  /\ order.total \in Nat /\ order.attempts \in Nat
  /\ order.paidBy \in Payment \cup {NoPayment}
  /\ order.status = "none" => order.total = 0

PaymentShape ==
  /\ DOMAIN payments = Payment
  /\ \A p \in Payment :
       DOMAIN payments[p] = {"status", "amount", "refunded", "settled"}

OrphanShape ==
  /\ DOMAIN orphan = Payment
  /\ \A p \in Payment : DOMAIN orphan[p] = {"state", "tries"}

CallShape == DOMAIN calling = Payment

(* Before an order is paid no payment has settled, and before it exists no  *)
(* payment can settle.                                                      *)
NothingSettled ==
  /\ order.status \in {"none", "pending"} => \A p \in Payment : ~payments[p].settled
  /\ order.status = "none" => \A p \in Payment : payments[p].status \in Final \cup {"none"}

(* A cancellation that is calling the provider holds the order's row.       *)
CancelHolds ==
  \A p \in Payment :
    calling[p].by = "cancel" => order.status \in {"paid", "processing"} /\ order.paidBy = p

Inv ==
  /\ OrderShape /\ PaymentShape /\ OrphanShape /\ CallShape
  /\ NothingSettled /\ CancelHolds /\ PendingIsWatched /\ OrphanCovered

-----------------------------------------------------------------------------
LEMMA InitInv == Init => Inv
BY OrderAssumption
   DEF Init, Inv, OrderShape, PaymentShape, OrphanShape, CallShape, NothingSettled, CancelHolds,
       PendingIsWatched, OrphanCovered, Unneeded, OrderStatus, Final, NoCall

(* A step that leaves the order, the payments' settlement, the calls and    *)
(* the jobs as they are.                                                    *)
LEMMA Quiet ==
  ASSUME Inv, UNCHANGED <<order, payments, calling, orphan, expiry>>
  PROVE  Inv'
BY DEF Inv, OrderShape, PaymentShape, OrphanShape, CallShape, NothingSettled, CancelHolds,
       PendingIsWatched, OrphanCovered, Unneeded

-----------------------------------------------------------------------------
(* Starting and settling payments.                                          *)

LEMMA StartOnlineFacts ==
  ASSUME Inv, NEW p \in Payment, NEW amount, StartOnline(p, amount)
  PROVE  /\ PaymentShape'
         /\ \A q \in Payment : payments'[q].settled => payments[q].settled
BY DEF Inv, PaymentShape, StartOnline

LEMMA CreateInv ==
  ASSUME Inv, NEW total \in Totals, Create(total) PROVE Inv'
<1>1. total \in Nat /\ Attempt[1] \in Payment
  BY OrderAssumption, ProviderAssumption
<1>2. order.status = "none" /\ \A q \in Payment : ~payments[q].settled /\ calling[q].by # "cancel"
  BY DEF Create, Inv, NothingSettled, CancelHolds
<1>3. OrderShape' /\ order'.status \in {"pending", "paid"}
  <2>1. CASE order' = [order EXCEPT !.status = "pending", !.total = total, !.attempts = 1,
                                    !.stock = "reserved"]
    BY <1>1, <2>1 DEF Inv, OrderShape, OrderStatus
  <2>2. CASE order' = [order EXCEPT !.status = "paid", !.stock = "reserved"]
    BY <2>2 DEF Inv, OrderShape, OrderStatus
  <2> QED
    BY <2>1, <2>2 DEF Create
<1>4. PaymentShape' /\ \A q \in Payment : ~payments'[q].settled
  <2>1. CASE total > 0
    BY <1>1, <1>2, <2>1, StartOnlineFacts DEF Create
  <2>2. CASE total = 0
    BY <1>2, <2>2 DEF Create, Inv, PaymentShape
  <2> QED
    BY <2>1, <2>2 DEF Create
<1>5. PendingIsWatched'
  BY DEF Create, PendingIsWatched, Inv, OrderShape
<1>6. NothingSettled' /\ OrphanCovered'
  BY <1>3, <1>4 DEF NothingSettled, OrphanCovered
<1>7. OrphanShape' /\ CallShape' /\ CancelHolds'
  BY <1>2 DEF Create, Inv, OrphanShape, CallShape, CancelHolds
<1> QED
  BY <1>3, <1>4, <1>5, <1>6, <1>7 DEF Inv

LEMMA StartInv ==
  ASSUME Inv, NEW p \in Payment, NEW amount, StartOnline(p, amount),
         order.status = "pending", order'.status = "pending",
         OrderShape', UNCHANGED <<calling, orphan, expiry>>
  PROVE  Inv'
<1>1. PaymentShape' /\ \A q \in Payment : payments'[q].settled => payments[q].settled
  BY StartOnlineFacts
<1>2. NothingSettled' /\ OrphanCovered'
  BY <1>1 DEF Inv, NothingSettled, OrphanCovered, Unneeded
<1>3. PendingIsWatched' /\ OrphanShape' /\ CallShape'
  BY DEF Inv, PendingIsWatched, OrphanShape, CallShape
<1>4. CancelHolds'
  BY DEF Inv, CancelHolds
<1> QED
  BY <1>1, <1>2, <1>3, <1>4 DEF Inv

LEMMA RetryInv == ASSUME Inv, RetryOrderPayment PROVE Inv'
<1>1. Attempt[order.attempts + 1] \in Payment
  BY OrderAssumption DEF RetryOrderPayment, Inv, OrderShape
<1> QED
  BY <1>1, StartInv DEF RetryOrderPayment, Inv, OrderShape

LEMMA StaffPaysInv ==
  ASSUME Inv, NEW p \in StaffPayment, NEW amount, StaffPays(p, amount) PROVE Inv'
BY StartInv DEF StaffPays, StaffPayment, Inv, OrderShape

LEMMA SettleFacts ==
  ASSUME Inv, NEW p \in Payment, NEW status \in {"succeeded", "failed", "cancelled"},
         Settle(p, status)
  PROVE  /\ PaymentShape'
         /\ order.status # "none"
         /\ \A q \in Payment :
              payments'[q].settled => payments[q].settled \/ (q = p /\ status = "succeeded")
<1>1. PaymentShape'
  BY DEF Inv, PaymentShape, Settle
<1>2. order.status # "none"
  BY DEF Inv, NothingSettled, Settle
<1>3. \A q \in Payment :
        payments'[q].settled => payments[q].settled \/ (q = p /\ status = "succeeded")
  <2>1. payments'[p].settled = (status = "succeeded")
    BY DEF Inv, PaymentShape, Settle
  <2>2. \A q \in Payment : q # p => payments'[q] = payments[q]
    BY DEF Inv, PaymentShape, Settle
  <2> QED
    BY <2>1, <2>2
<1> QED
  BY <1>1, <1>2, <1>3

LEMMA SucceededInv == ASSUME Inv, NEW p \in Payment, Succeeded(p) PROVE Inv'
<1>1. /\ PaymentShape' /\ order.status # "none"
      /\ \A q \in Payment : payments'[q].settled => payments[q].settled \/ q = p
  BY SettleFacts DEF Succeeded
<1>2. OrphanShape' /\ CallShape' /\ \A q \in Payment : orphan[q].state # "none" => orphan'[q].state # "none"
  BY DEF Succeeded, OnPaymentSucceeded, Inv, OrphanShape, CallShape
<1>3. CASE order.status = "pending"
  <2>1. OrderShape' /\ order'.status = "paid" /\ order'.paidBy = p
    BY <1>3 DEF Succeeded, OnPaymentSucceeded, Inv, OrderShape, OrderStatus
  <2>2. NothingSettled' /\ PendingIsWatched' /\ OrphanCovered'
    BY <1>1, <1>3, <2>1 DEF Inv, NothingSettled, PendingIsWatched, OrphanCovered, Unneeded
  <2>3. CancelHolds'
    BY <1>3, <2>1 DEF Succeeded, Inv, CancelHolds
  <2> QED
    BY <1>1, <1>2, <2>1, <2>2, <2>3 DEF Inv
<1>4. CASE order.status # "pending"
  <2>1. UNCHANGED <<order, expiry, calling>>
    BY <1>4 DEF Succeeded, OnPaymentSucceeded
  <2>2. order.paidBy # p => orphan'[p].state # "none"
    BY <1>4 DEF Succeeded, OnPaymentSucceeded, Inv, OrphanShape
  <2>3. OrderShape' /\ NothingSettled' /\ PendingIsWatched' /\ CancelHolds'
    BY <1>1, <1>4, <2>1
       DEF Inv, OrderShape, OrderStatus, NothingSettled, PendingIsWatched, CancelHolds
  <2>4. OrphanCovered'
    BY <1>1, <1>2, <2>1, <2>2 DEF Inv, OrphanCovered, Unneeded
  <2> QED
    BY <1>1, <1>2, <2>3, <2>4 DEF Inv
<1> QED
  BY <1>3, <1>4

LEMMA PaymentFailedInv == ASSUME Inv, NEW p \in Payment, PaymentFailed(p) PROVE Inv'
<1>1. /\ PaymentShape' /\ order.status # "none"
      /\ \A q \in Payment : payments'[q].settled => payments[q].settled
  BY SettleFacts DEF PaymentFailed
<1>2. OrderShape' /\ order'.status = order.status /\ order'.paidBy = order.paidBy
  BY DEF PaymentFailed, Inv, OrderShape
<1> QED
  BY <1>1, <1>2
     DEF PaymentFailed, Inv, OrphanShape, CallShape, NothingSettled, CancelHolds,
         PendingIsWatched, OrphanCovered, Unneeded

LEMMA IntentCanceledInv == ASSUME Inv, NEW p \in Payment, IntentCanceled(p) PROVE Inv'
<1>1. /\ PaymentShape' /\ order.status # "none"
      /\ \A q \in Payment : payments'[q].settled => payments[q].settled
  BY SettleFacts DEF IntentCanceled
<1> QED
  BY <1>1
     DEF IntentCanceled, Inv, OrderShape, OrphanShape, CallShape, NothingSettled, CancelHolds,
         PendingIsWatched, OrphanCovered, Unneeded

-----------------------------------------------------------------------------
(* Refunds.                                                                 *)

(* Whatever a webhook makes of a payment's refunds, it settles nothing.     *)
LEMMA AbsorbInv ==
  ASSUME Inv, NEW p, NEW s, Absorb(p, s), UNCHANGED <<calling, orphan, expiry>>
  PROVE  Inv'
<1>1. OrderShape' /\ order'.status = order.status /\ order'.paidBy = order.paidBy
  BY DEF Absorb, Inv, OrderShape
<1>2. PaymentShape' /\ \A q \in Payment : payments'[q].settled = payments[q].settled
  BY DEF Absorb, Inv, PaymentShape
<1>3. \A q \in Payment : payments'[q].status # payments[q].status => payments'[q].status \in Final
  <2>1. \A a, r : StatusOf(a, r) \in Final
    BY DEF StatusOf, Final
  <2> QED
    BY <2>1 DEF Absorb, Inv, PaymentShape
<1>4. NothingSettled'
  BY <1>1, <1>2, <1>3 DEF Inv, NothingSettled
<1>5. CancelHolds' /\ PendingIsWatched' /\ OrphanCovered'
  BY <1>1, <1>2 DEF Inv, CancelHolds, PendingIsWatched, OrphanCovered, Unneeded
<1>6. OrphanShape' /\ CallShape'
  BY DEF Inv, OrphanShape, CallShape
<1> QED
  BY <1>1, <1>2, <1>4, <1>5, <1>6 DEF Inv

LEMMA WebhookInv == ASSUME Inv, Webhook PROVE Inv'
<1>1. ASSUME NEW p \in Payment, NEW e \in events, ChargeRefunded(p, e) PROVE Inv'
  BY <1>1, AbsorbInv DEF ChargeRefunded
<1>2. ASSUME NEW p \in Payment, NEW e \in events, RefundUpdated(p, e) PROVE Inv'
  BY <1>2, AbsorbInv DEF RefundUpdated
<1> QED
  BY <1>1, <1>2, SucceededInv, PaymentFailedInv, IntentCanceledInv DEF Webhook

(* A call to the provider on behalf of anyone but a cancellation.           *)
LEMMA CallFacts ==
  ASSUME Inv, NEW p \in Payment, NEW by, NEW amount, CallProvider(by, p, amount)
  PROVE  /\ CallShape'
         /\ calling[p] = NoCall
         /\ \A q \in Payment : calling'[q].by # calling[q].by => q = p /\ calling'[q].by = by
<1>1. PICK c : calling' = [calling EXCEPT ![p] = c] /\ c.by = by
  <2>1. CASE \E i \in DOMAIN given :
               calling' = [calling EXCEPT ![p] =
                             [by |-> by, amount |-> amount, status |-> given[i].first]]
    <3>1. PICK i \in DOMAIN given :
             calling' = [calling EXCEPT ![p] =
                           [by |-> by, amount |-> amount, status |-> given[i].first]]
      BY <2>1
    <3> DEFINE c == [by |-> by, amount |-> amount, status |-> given[i].first]
    <3>2. calling' = [calling EXCEPT ![p] = c] /\ c.by = by
      BY <3>1
    <3> HIDE DEF c
    <3> QED
      BY <3>2
  <2>2. CASE \E state \in Starts :
               calling' = [calling EXCEPT ![p] = [by |-> by, amount |-> amount, status |-> state]]
    <3>1. PICK state \in Starts :
             calling' = [calling EXCEPT ![p] = [by |-> by, amount |-> amount, status |-> state]]
      BY <2>2
    <3> DEFINE c == [by |-> by, amount |-> amount, status |-> state]
    <3>2. calling' = [calling EXCEPT ![p] = c] /\ c.by = by
      BY <3>1
    <3> HIDE DEF c
    <3> QED
      BY <3>2
  <2> QED
    BY <2>1, <2>2 DEF CallProvider
<1> QED
  BY <1>1 DEF CallProvider, Free, Inv, CallShape

LEMMA OtherCallInv ==
  ASSUME Inv, NEW p \in Payment, NEW by, NEW amount, by # "cancel", CallProvider(by, p, amount),
         OrphanShape', \A q \in Payment : orphan[q].state # "none" => orphan'[q].state # "none",
         UNCHANGED <<order, payments, expiry>>
  PROVE  Inv'
<1>1. CallShape' /\ CancelHolds'
  BY CallFacts DEF Inv, CancelHolds
<1>2. OrphanCovered'
  BY DEF Inv, OrphanCovered, Unneeded
<1> QED
  BY <1>1, <1>2 DEF Inv, OrderShape, PaymentShape, NothingSettled, PendingIsWatched

LEMMA RefundRequestInv ==
  ASSUME Inv, NEW p \in Payment, NEW by, NEW amount, RefundRequest(by, p, amount) PROVE Inv'
<1>1. by # "cancel"
  BY DEF RefundRequest, Desk
<1> QED
  BY <1>1, OtherCallInv DEF RefundRequest, Inv, OrphanShape

(* A job that failed is never forgotten.                                    *)
LEMMA AfterFailureFacts ==
  ASSUME NEW job, DOMAIN job = {"state", "tries"}
  PROVE  DOMAIN AfterFailure(job) = {"state", "tries"} /\ AfterFailure(job).state # "none"
BY DEF AfterFailure

(* A step that changes nothing but calls that are no cancellations and jobs *)
(* that stay.                                                               *)
LEMMA JobsInv ==
  ASSUME Inv, UNCHANGED <<order, payments, expiry>>, CallShape', OrphanShape',
         \A q \in Payment : calling'[q].by = "cancel" => calling[q].by = "cancel",
         \A q \in Payment : orphan[q].state # "none" => orphan'[q].state # "none"
  PROVE  Inv'
BY DEF Inv, OrderShape, PaymentShape, NothingSettled, CancelHolds, PendingIsWatched,
       OrphanCovered, Unneeded

LEMMA RunOrphanInv == ASSUME Inv, NEW p \in Payment, RunOrphan(p) PROVE Inv'
<1>1. CASE StartOrphan(p)
  <2>1. OrphanShape' /\ \A q \in Payment : orphan[q].state # "none" => orphan'[q].state # "none"
    BY <1>1 DEF StartOrphan, Tried, Inv, OrphanShape
  <2> QED
    BY <1>1, <2>1, OtherCallInv DEF StartOrphan
<1>2. CASE OrphanEndsAtOnce(p)
  <2>1. PICK job : /\ orphan' = [orphan EXCEPT ![p] = job]
                   /\ DOMAIN job = {"state", "tries"} /\ job.state # "none"
    <3>1. CASE orphan' = [orphan EXCEPT ![p].state = "done"]
      <4> DEFINE job == [orphan[p] EXCEPT !.state = "done"]
      <4>1. orphan' = [orphan EXCEPT ![p] = job]
        BY <3>1
      <4>2. DOMAIN job = {"state", "tries"} /\ job.state # "none"
        BY DEF Inv, OrphanShape
      <4> QED
        BY <4>1, <4>2
    <3>2. CASE orphan' = [orphan EXCEPT ![p] = AfterFailure(Tried(@))]
      <4>1. DOMAIN Tried(orphan[p]) = {"state", "tries"}
        BY DEF Tried, Inv, OrphanShape
      <4> DEFINE job == AfterFailure(Tried(orphan[p]))
      <4>2. DOMAIN job = {"state", "tries"} /\ job.state # "none"
        BY <4>1, AfterFailureFacts
      <4>3. orphan' = [orphan EXCEPT ![p] = job]
        BY <3>2
      <4> HIDE DEF job
      <4> QED
        BY <4>2, <4>3
    <3> QED
      BY <1>2, <3>1, <3>2 DEF OrphanEndsAtOnce
  <2>2. OrphanShape' /\ \A q \in Payment : orphan[q].state # "none" => orphan'[q].state # "none"
    BY <2>1 DEF Inv, OrphanShape
  <2> QED
    BY <1>2, <2>2, JobsInv DEF OrphanEndsAtOnce, Inv, CallShape
<1> QED
  BY <1>1, <1>2 DEF RunOrphan

LEMMA RollbackInv == ASSUME Inv, NEW p \in Payment, RollbackRefund(p) PROVE Inv'
<1>1. OrphanShape' /\ \A q \in Payment : orphan[q].state # "none" => orphan'[q].state # "none"
  <2>1. CASE orphan' = [orphan EXCEPT ![p] = AfterFailure(@)]
    BY <2>1, AfterFailureFacts DEF Inv, OrphanShape
  <2>2. CASE orphan' = orphan
    BY <2>2 DEF Inv, OrphanShape
  <2> QED
    BY <2>1, <2>2 DEF RollbackRefund
<1>2. CallShape' /\ \A q \in Payment : calling'[q].by = "cancel" => calling[q].by = "cancel"
  BY DEF RollbackRefund, NoCall, Inv, CallShape
<1> QED
  BY <1>1, <1>2, JobsInv DEF RollbackRefund

LEMMA CommitInv == ASSUME Inv, NEW p \in Payment, CommitRefund(p) PROVE Inv'
<1>1. PaymentShape' /\ \A q \in Payment : payments'[q].settled = payments[q].settled
  BY DEF CommitRefund, Inv, PaymentShape
<1>2. \A q \in Payment : payments'[q].status # payments[q].status => payments'[q].status \in Final
  <2>1. \A a, r : StatusOf(a, r) \in Final
    BY DEF StatusOf, Final
  <2> QED
    BY <2>1 DEF CommitRefund, Inv, PaymentShape
<1>3. CallShape' /\ calling'[p].by # "cancel" /\ \A q \in Payment : q # p => calling'[q] = calling[q]
  BY DEF CommitRefund, NoCall, Inv, CallShape
<1>4. OrphanShape' /\ \A q \in Payment : orphan[q].state # "none" => orphan'[q].state # "none"
  <2>1. CASE UNCHANGED orphan
    BY <2>1 DEF Inv, OrphanShape
  <2>2. CASE \E state \in {"done", "queued"} : orphan' = [orphan EXCEPT ![p].state = state]
    BY <2>2 DEF Inv, OrphanShape
  <2> QED
    BY <2>1, <2>2 DEF CommitRefund
<1>5. CASE calling[p].by = "cancel"
  <2>1. order.status \in {"paid", "processing"} /\ order.paidBy = p
    BY <1>5 DEF Inv, CancelHolds
  <2>2. order' = Cancelled(order.total)
    BY <1>5 DEF CommitRefund
  <2>3. OrderShape' /\ order'.status = "cancelled" /\ order'.paidBy = order.paidBy
    BY <2>2 DEF Cancelled, Inv, OrderShape, OrderStatus
  <2>4. NothingSettled' /\ PendingIsWatched'
    BY <2>3 DEF NothingSettled, PendingIsWatched
  <2>5. CancelHolds'
    BY <1>3, <2>1 DEF Inv, CancelHolds
  <2>6. OrphanCovered'
    BY <1>1, <1>4, <2>1, <2>3 DEF Inv, OrphanCovered, Unneeded
  <2> QED
    BY <1>1, <1>3, <1>4, <2>3, <2>4, <2>5, <2>6 DEF Inv
<1>6. CASE calling[p].by # "cancel"
  <2>1. OrderShape' /\ order'.status = order.status /\ order'.paidBy = order.paidBy /\ UNCHANGED expiry
    BY <1>6 DEF CommitRefund, Inv, OrderShape
  <2>2. NothingSettled' /\ PendingIsWatched'
    BY <1>1, <1>2, <2>1 DEF Inv, NothingSettled, PendingIsWatched
  <2>3. CancelHolds' /\ OrphanCovered'
    BY <1>1, <1>3, <1>4, <2>1 DEF Inv, CancelHolds, OrphanCovered, Unneeded
  <2> QED
    BY <1>1, <1>3, <1>4, <2>1, <2>2, <2>3 DEF Inv
<1> QED
  BY <1>5, <1>6

-----------------------------------------------------------------------------
(* The order.                                                               *)

LEMMA NoCancelCall == ASSUME Inv, OrderFree PROVE \A q \in Payment : calling[q].by # "cancel"
BY DEF OrderFree, NoCall

(* Whatever moves an order on, when no cancellation is calling the provider.*)
LEMMA OrderInv ==
  ASSUME Inv, OrderFree, OrderShape', order.status # "none",
         order'.status \notin {"none", "pending"}, order'.paidBy = order.paidBy,
         order.status = "pending" => order'.status = "cancelled",
         UNCHANGED <<payments, calling, orphan>>
  PROVE  Inv'
<1>1. NothingSettled' /\ PendingIsWatched'
  BY DEF NothingSettled, PendingIsWatched
<1>2. CancelHolds'
  BY NoCancelCall DEF CancelHolds
<1>3. OrphanCovered'
  BY DEF Inv, OrphanCovered, NothingSettled, Unneeded
<1> QED
  BY <1>1, <1>2, <1>3 DEF Inv, PaymentShape, OrphanShape, CallShape

LEMMA CancelledShape ==
  ASSUME Inv, NEW refunded, order' = Cancelled(refunded)
  PROVE  OrderShape' /\ order'.status = "cancelled" /\ order'.paidBy = order.paidBy
BY DEF Cancelled, Inv, OrderShape, OrderStatus

LEMMA ExpireInv == ASSUME Inv, ExpireOrder PROVE Inv'
<1>1. CASE order.status = "pending"
  BY <1>1, CancelledShape, OrderInv DEF ExpireOrder
<1>2. CASE order.status # "pending"
  <2>1. UNCHANGED <<order, payments, calling, orphan>>
    BY <1>2 DEF ExpireOrder
  <2> QED
    BY <1>2, <2>1 DEF Inv, OrderShape, PaymentShape, OrphanShape, CallShape, NothingSettled,
                      CancelHolds, PendingIsWatched, OrphanCovered, Unneeded
<1> QED
  BY <1>1, <1>2

LEMMA MoveInv ==
  ASSUME Inv, NEW from, NEW to, from \subseteq {"paid", "processing", "shipped"},
         to \in {"processing", "shipped", "delivered"}, Move(from, to)
  PROVE  Inv'
<1>1. OrderShape' /\ order'.status = to /\ order'.paidBy = order.paidBy
  BY DEF Move, Inv, OrderShape, OrderStatus
<1> QED
  BY <1>1, OrderInv DEF Move

LEMMA CancelInv == ASSUME Inv, CancelOrder PROVE Inv'
<1>1. CASE /\ order.status # "pending" /\ order.paidBy # NoPayment
           /\ CallProvider("cancel", order.paidBy, ToRefund)
           /\ UNCHANGED <<order, expiry>>
  <2>1. order.paidBy \in Payment /\ order.status \in {"paid", "processing"}
    BY <1>1 DEF CancelOrder, Inv, OrderShape
  <2>2. CallShape' /\ CancelHolds'
    BY <1>1, <2>1, CallFacts DEF Inv, CancelHolds
  <2> QED
    BY <1>1, <2>2 DEF CancelOrder, Inv, OrderShape, PaymentShape, OrphanShape, NothingSettled,
                      PendingIsWatched, OrphanCovered, Unneeded
<1>2. CASE order' = Cancelled(order.refunded) /\ UNCHANGED calling
  BY <1>2, CancelledShape, OrderInv DEF CancelOrder
<1> QED
  BY <1>1, <1>2 DEF CancelOrder

-----------------------------------------------------------------------------
(* The invariant.                                                           *)

LEMMA StepInv == Inv /\ [Next]_vars => Inv'
<1> SUFFICES ASSUME Inv, [Next]_vars PROVE Inv'
  OBVIOUS
<1>1. CASE ProviderNext /\ UNCHANGED local
  BY <1>1, Quiet DEF local
<1>2. ASSUME NEW total \in Totals, Create(total) PROVE Inv'
  BY <1>2, CreateInv
<1>3. CASE RetryOrderPayment
  BY <1>3, RetryInv
<1>4. ASSUME NEW p \in StaffPayment, NEW amount \in 1..MaxAmount, StaffPays(p, amount) PROVE Inv'
  BY <1>4, StaffPaysInv
<1>5. CASE Webhook
  BY <1>5, WebhookInv
<1>6. ASSUME NEW by \in Desk, NEW p \in Payment, NEW amount \in 1..MaxAmount,
             RefundRequest(by, p, amount)
      PROVE  Inv'
  BY <1>6, RefundRequestInv
<1>7. ASSUME NEW p \in Payment, RunOrphan(p) \/ CommitRefund(p) \/ RollbackRefund(p) PROVE Inv'
  BY <1>7, RunOrphanInv, CommitInv, RollbackInv
<1>8. CASE TimePasses
  BY <1>8, Quiet DEF TimePasses
<1>9. CASE ExpireOrder
  BY <1>9, ExpireInv
<1>10. CASE ProcessOrder \/ ShipOrder \/ DeliverOrder
  BY <1>10, MoveInv DEF ProcessOrder, ShipOrder, DeliverOrder
<1>11. CASE CancelOrder
  BY <1>11, CancelInv
<1>12. CASE UNCHANGED vars
  BY <1>12, Quiet DEF vars
<1> QED
  BY <1>1, <1>2, <1>3, <1>4, <1>5, <1>6, <1>7, <1>8, <1>9, <1>10, <1>11, <1>12 DEF Next

LEMMA InvAlways == Spec => []Inv
BY InitInv, StepInv, PTL DEF Spec

(* A pending order always has the job that will end it                      *)
(* (commerce/orders.ts: createOrder, markPaid, expireOrder).                *)
THEOREM PendingAlwaysWatched == Spec => []PendingIsWatched
<1>1. Inv => PendingIsWatched
  BY DEF Inv
<1> QED
  BY <1>1, InvAlways, PTL

(* Money that settled and that the order does not need always has a refund  *)
(* job, whichever of webhooks, cancellation, expiry and the other payments  *)
(* came first (commerce/orders.ts: onPaymentSucceeded).                     *)
THEOREM OrphanAlwaysCovered == Spec => []OrphanCovered
<1>1. Inv => OrphanCovered
  BY DEF Inv
<1> QED
  BY <1>1, InvAlways, PTL

-----------------------------------------------------------------------------
(* The order implements OrderPromise.                                       *)

LEMMA PromiseInits == Init => Order!PromiseInit
BY DEF Init, Order!PromiseInit

(* What a webhook or an API refund makes of an order.                       *)
LEMMA ReturnStep ==
  ASSUME Inv, NEW refunded,
         order' = [order EXCEPT !.refunded = refunded], order.paidBy # NoPayment
  PROVE  Order!PromiseNext
BY DEF Inv, OrderShape, Order!PromiseNext, Order!Return

LEMMA AbsorbPromise ==
  ASSUME Inv, NEW p \in Payment, NEW s, Absorb(p, s)
  PROVE  Order!PromiseNext \/ UNCHANGED order
BY OrderAssumption, ReturnStep DEF Absorb

LEMMA CreatePromise ==
  ASSUME Inv, NEW total \in Totals, Create(total) PROVE Order!PromiseNext
<1>1. total \in Nat /\ order.status = "none" /\ order.total \in Nat
  BY OrderAssumption, ProviderAssumption DEF Create, Inv, OrderShape
<1>2. CASE total > 0 /\ order' = [order EXCEPT !.status = "pending", !.total = total,
                                              !.attempts = 1, !.stock = "reserved"]
  BY <1>1, <1>2 DEF Inv, OrderShape, Order!PromiseNext, Order!Place
<1>3. CASE order' = [order EXCEPT !.status = "paid", !.stock = "reserved"]
  BY <1>1, <1>3 DEF Inv, OrderShape, Order!PromiseNext, Order!Place
<1> QED
  BY <1>2, <1>3 DEF Create

LEMMA SucceededPromise ==
  ASSUME Inv, NEW p \in Payment, Succeeded(p) PROVE Order!PromiseNext \/ UNCHANGED order
<1>1. CASE order.status = "pending" /\ order' = [order EXCEPT !.status = "paid", !.paidBy = p,
                                                             !.failed = FALSE]
  BY <1>1 DEF Inv, OrderShape, Order!PromiseNext, Order!BePaid
<1> QED
  BY <1>1 DEF Succeeded, OnPaymentSucceeded

LEMMA CommitPromise ==
  ASSUME Inv, NEW p \in Payment, CommitRefund(p) PROVE Order!PromiseNext \/ UNCHANGED order
<1>1. CASE calling[p].by = "cancel"
  <2>1. order.status \in {"paid", "processing"} /\ order.paidBy = p /\ order.total \in Nat
    BY <1>1 DEF Inv, CancelHolds, OrderShape
  <2>2. order' = Cancelled(order.total)
    BY <1>1 DEF CommitRefund
  <2> QED
    BY <2>1, <2>2, OrderAssumption
       DEF Inv, OrderShape, Cancelled, Order!PromiseNext, Order!CallOff, Order!Owed
<1>2. CASE calling[p].by # "cancel"
  BY <1>2, OrderAssumption, ReturnStep DEF CommitRefund
<1> QED
  BY <1>1, <1>2

LEMMA ExpirePromise ==
  ASSUME Inv, ExpireOrder PROVE Order!PromiseNext \/ UNCHANGED order
<1>1. CASE order.status = "pending" /\ order' = Cancelled(order.refunded)
  BY <1>1 DEF Inv, OrderShape, Cancelled, Order!PromiseNext, Order!CallOff
<1> QED
  BY <1>1 DEF ExpireOrder

LEMMA MovePromise ==
  ASSUME Inv, ProcessOrder \/ ShipOrder \/ DeliverOrder PROVE Order!PromiseNext
<1>1. PICK to : /\ <<order.status, to>> \in
                     {<<"paid", "processing">>, <<"paid", "shipped">>,
                      <<"processing", "shipped">>, <<"shipped", "delivered">>}
                /\ order' = [order EXCEPT !.status = to]
  BY DEF ProcessOrder, ShipOrder, DeliverOrder, Move
<1> QED
  BY <1>1 DEF Inv, OrderShape, Order!PromiseNext, Order!Advance

LEMMA CancelPromise ==
  ASSUME Inv, CancelOrder PROVE Order!PromiseNext \/ UNCHANGED order
<1>1. CASE /\ order.status = "pending" \/ order.paidBy = NoPayment \/ ToRefund <= 0
           /\ order' = Cancelled(order.refunded)
  <2>1. order.status \in {"pending", "paid", "processing"}
    BY DEF CancelOrder
  <2>2. /\ order'.status = "cancelled" /\ order'.stock = "shelf"
        /\ order'.total = order.total /\ order'.paidBy = order.paidBy
        /\ order'.refunded = order.refunded
    BY <1>1 DEF Inv, OrderShape, Cancelled
  <2> QED
    BY <1>1, <2>1, <2>2 DEF ToRefund, Order!PromiseNext, Order!CallOff, Order!Owed
<1> QED
  BY <1>1 DEF CancelOrder

LEMMA PromiseSteps == Inv /\ [Next]_vars => [Order!PromiseNext]_Order!promised
<1> SUFFICES ASSUME Inv, [Next]_vars PROVE Order!PromiseNext \/ UNCHANGED Order!promised
  OBVIOUS
<1>0. ASSUME Order!PromiseNext \/ UNCHANGED order
      PROVE  Order!PromiseNext \/ UNCHANGED Order!promised
  BY <1>0 DEF Order!promised
<1>1. CASE ProviderNext /\ UNCHANGED local
  BY <1>1, <1>0 DEF local
<1>2. ASSUME NEW total \in Totals, Create(total)
      PROVE  Order!PromiseNext \/ UNCHANGED Order!promised
  BY <1>2, CreatePromise
<1>3. CASE RetryOrderPayment
  BY <1>3 DEF RetryOrderPayment, Inv, OrderShape, Order!promised
<1>4. ASSUME NEW p \in StaffPayment, NEW amount \in 1..MaxAmount, StaffPays(p, amount)
      PROVE  Order!PromiseNext \/ UNCHANGED Order!promised
  BY <1>4, <1>0 DEF StaffPays
<1>5. CASE Webhook
  <2>1. ASSUME NEW p \in Payment, Succeeded(p)
        PROVE  Order!PromiseNext \/ UNCHANGED Order!promised
    BY <2>1, <1>0, SucceededPromise
  <2>2. ASSUME NEW p \in Payment, PaymentFailed(p)
        PROVE  Order!PromiseNext \/ UNCHANGED Order!promised
    BY <2>2 DEF PaymentFailed, Inv, OrderShape, Order!promised
  <2>3. ASSUME NEW p \in Payment, IntentCanceled(p)
        PROVE  Order!PromiseNext \/ UNCHANGED Order!promised
    BY <2>3, <1>0 DEF IntentCanceled
  <2>4. ASSUME NEW p \in Payment, NEW e \in events, ChargeRefunded(p, e)
        PROVE  Order!PromiseNext \/ UNCHANGED Order!promised
    BY <2>4, <1>0, AbsorbPromise DEF ChargeRefunded
  <2>5. ASSUME NEW p \in Payment, NEW e \in events, RefundUpdated(p, e)
        PROVE  Order!PromiseNext \/ UNCHANGED Order!promised
    BY <2>5, <1>0, AbsorbPromise DEF RefundUpdated
  <2> QED
    BY <1>5, <2>1, <2>2, <2>3, <2>4, <2>5 DEF Webhook
<1>6. ASSUME NEW by \in Desk, NEW p \in Payment, NEW amount \in 1..MaxAmount,
             RefundRequest(by, p, amount)
      PROVE  Order!PromiseNext \/ UNCHANGED Order!promised
  BY <1>6, <1>0 DEF RefundRequest
<1>7. ASSUME NEW p \in Payment, RunOrphan(p) \/ RollbackRefund(p)
      PROVE  Order!PromiseNext \/ UNCHANGED Order!promised
  BY <1>7, <1>0 DEF RunOrphan, StartOrphan, OrphanEndsAtOnce, RollbackRefund
<1>8. ASSUME NEW p \in Payment, CommitRefund(p)
      PROVE  Order!PromiseNext \/ UNCHANGED Order!promised
  BY <1>8, <1>0, CommitPromise
<1>9. CASE TimePasses
  BY <1>9, <1>0 DEF TimePasses
<1>10. CASE ExpireOrder
  BY <1>10, <1>0, ExpirePromise
<1>11. CASE ProcessOrder \/ ShipOrder \/ DeliverOrder
  BY <1>11, MovePromise
<1>12. CASE CancelOrder
  BY <1>12, <1>0, CancelPromise
<1>13. CASE UNCHANGED vars
  BY <1>13, <1>0 DEF vars
<1> QED
  BY <1>1, <1>2, <1>3, <1>4, <1>5, <1>6, <1>7, <1>8, <1>9, <1>10, <1>11, <1>12, <1>13 DEF Next

(* An order keeps OrderPromise: it is paid once, shipped only after it was  *)
(* paid, and once paid is called off only when its refunds, as far as the   *)
(* order was told of them, reach its total (commerce/orders.ts).            *)
THEOREM PromiseAlwaysKept == Spec => PromiseKept
BY PromiseInits, PromiseSteps, InvAlways, PTL DEF Spec, PromiseKept, Order!Promise

-----------------------------------------------------------------------------
(* Recursive functions over the refunds of a charge.                        *)

(* What holds of the empty list and is kept by every refund in turn holds   *)
(* of the list of a charge.                                                 *)
LEMMA ListedInduction ==
  ASSUME NEW gs, Len(gs) \in Nat, NEW p, NEW G, <<>> \in G,
         \A l \in G : \A n \in 1..Len(gs) :
           PaymentOf(gs[n].id) = p => <<SnapshotOf(gs[n])>> \o l \in G
  PROVE  Listed(gs, p) \in G
<1> DEFINE Step(f, n) == IF n = 0 THEN <<>>
                         ELSE IF PaymentOf(gs[n].id) = p THEN <<SnapshotOf(gs[n])>> \o f[n - 1]
                         ELSE f[n - 1]
           E == {n \in Nat : \E f : f = [i \in 0..n |-> Step(f, i)]}
<1>1. 0 \in E
  <2> DEFINE f == [i \in 0..0 |-> <<>>]
  <2>1. f = [i \in 0..0 |-> Step(f, i)]
    OBVIOUS
  <2> QED
    BY <2>1
<1>2. ASSUME NEW n \in Nat, n \in E PROVE n + 1 \in E
  <2>1. PICK f : f = [i \in 0..n |-> Step(f, i)]
    BY <1>2
  <2> DEFINE h == [i \in 0..n + 1 |-> IF i = n + 1 THEN Step(f, n + 1) ELSE f[i]]
  <2>2. \A i \in 0..n : h[i] = f[i]
    OBVIOUS
  <2>3. \A i \in 0..n + 1 : h[i] = Step(h, i)
    <3> TAKE i \in 0..n + 1
    <3>1. CASE i = 0
      BY <3>1, <2>1
    <3>2. CASE i # 0
      <4>1. i - 1 \in 0..n /\ h[i - 1] = f[i - 1]
        BY <3>2, <2>2
      <4>2. h[i] = Step(f, i)
        <5>1. CASE i = n + 1
          BY <5>1
        <5>2. CASE i # n + 1
          <6>1. i \in 0..n /\ h[i] = f[i]
            BY <5>2
          <6> QED
            BY <2>1, <6>1
        <5> QED
          BY <5>1, <5>2
      <4> QED
        BY <3>2, <4>1, <4>2
    <3> QED
      BY <3>1, <3>2
  <2>4. h = [i \in 0..n + 1 |-> Step(h, i)]
    BY <2>3
  <2> HIDE DEF h, Step
  <2>5. \E g : g = [i \in 0..n + 1 |-> Step(g, i)]
    BY <2>4
  <2> QED
    BY <2>5
<1>3. \A n \in Nat : n \in E
  <2> HIDE DEF E
  <2> QED
    BY <1>1, <1>2, NatInductionSet
<1> DEFINE upTo == CHOOSE f : f = [n \in 0..Len(gs) |-> Step(f, n)]
<1>4. upTo = [n \in 0..Len(gs) |-> Step(upTo, n)]
  BY <1>3
<1>5. Listed(gs, p) = upTo[Len(gs)]
  BY DEF Listed
<1> HIDE DEF upTo
<1> DEFINE H == {n \in Nat : n <= Len(gs) => upTo[n] \in G}
<1>6. 0 \in H
  BY <1>4
<1>7. ASSUME NEW n \in Nat, n \in H PROVE n + 1 \in H
  <2> SUFFICES ASSUME n + 1 <= Len(gs) PROVE upTo[n + 1] \in G
    OBVIOUS
  <2>1. upTo[n] \in G /\ n + 1 \in 1..Len(gs)
    BY <1>7
  <2>2. PICK m : m = n + 1
    OBVIOUS
  <2>3. m \in 0..Len(gs) /\ m # 0 /\ m - 1 = n
    BY <2>1, <2>2
  <2>4. upTo[m] = Step(upTo, m)
    BY <1>4, <2>3
  <2> QED
    BY <2>1, <2>2, <2>3, <2>4
<1>8. \A n \in Nat : n \in H
  <2> HIDE DEF H
  <2> QED
    BY <1>6, <1>7, NatInductionSet
<1> QED
  BY <1>5, <1>8

(* The same of what a transaction makes of a payment, refund by refund.     *)
LEMMA ApplyAllInduction ==
  ASSUME NEW amount, NEW s, NEW list, Len(list) \in Nat, NEW G, s \in G,
         \A t \in G : \A n \in 1..Len(list) : ApplyProviderRefund(amount, t, list[n]) \in G
  PROVE  ApplyAll(amount, s, list) \in G
<1> DEFINE Step(f, n) == IF n = 0 THEN s ELSE ApplyProviderRefund(amount, f[n - 1], list[n])
           E == {n \in Nat : \E f : f = [i \in 0..n |-> Step(f, i)]}
<1>1. 0 \in E
  <2> DEFINE f == [i \in 0..0 |-> s]
  <2>1. f = [i \in 0..0 |-> Step(f, i)]
    OBVIOUS
  <2> QED
    BY <2>1
<1>2. ASSUME NEW n \in Nat, n \in E PROVE n + 1 \in E
  <2>1. PICK f : f = [i \in 0..n |-> Step(f, i)]
    BY <1>2
  <2> DEFINE h == [i \in 0..n + 1 |-> IF i = n + 1 THEN Step(f, n + 1) ELSE f[i]]
  <2>2. \A i \in 0..n : h[i] = f[i]
    OBVIOUS
  <2>3. \A i \in 0..n + 1 : h[i] = Step(h, i)
    <3> TAKE i \in 0..n + 1
    <3>1. CASE i = 0
      BY <3>1, <2>1
    <3>2. CASE i # 0
      <4>1. i - 1 \in 0..n /\ h[i - 1] = f[i - 1]
        BY <3>2, <2>2
      <4>2. h[i] = Step(f, i)
        <5>1. CASE i = n + 1
          BY <5>1
        <5>2. CASE i # n + 1
          <6>1. i \in 0..n /\ h[i] = f[i]
            BY <5>2
          <6> QED
            BY <2>1, <6>1
        <5> QED
          BY <5>1, <5>2
      <4> QED
        BY <3>2, <4>1, <4>2
    <3> QED
      BY <3>1, <3>2
  <2>4. h = [i \in 0..n + 1 |-> Step(h, i)]
    BY <2>3
  <2> HIDE DEF h, Step
  <2>5. \E g : g = [i \in 0..n + 1 |-> Step(g, i)]
    BY <2>4
  <2> QED
    BY <2>5
<1>3. \A n \in Nat : n \in E
  <2> HIDE DEF E
  <2> QED
    BY <1>1, <1>2, NatInductionSet
<1> DEFINE after == CHOOSE f : f = [n \in 0..Len(list) |-> Step(f, n)]
<1>4. after = [n \in 0..Len(list) |-> Step(after, n)]
  BY <1>3
<1>5. ApplyAll(amount, s, list) = after[Len(list)]
  BY DEF ApplyAll
<1> HIDE DEF after
<1> DEFINE H == {n \in Nat : n <= Len(list) => after[n] \in G}
<1>6. 0 \in H
  BY <1>4
<1>7. ASSUME NEW n \in Nat, n \in H PROVE n + 1 \in H
  <2> SUFFICES ASSUME n + 1 <= Len(list) PROVE after[n + 1] \in G
    OBVIOUS
  <2>1. after[n] \in G /\ n + 1 \in 1..Len(list)
    BY <1>7
  <2>2. PICK m : m = n + 1
    OBVIOUS
  <2>3. m \in 0..Len(list) /\ m # 0 /\ m - 1 = n
    BY <2>1, <2>2
  <2>4. after[m] = Step(after, m)
    BY <1>4, <2>3
  <2> QED
    BY <2>1, <2>2, <2>3, <2>4
<1>8. \A n \in Nat : n \in H
  <2> HIDE DEF H
  <2> QED
    BY <1>6, <1>7, NatInductionSet
<1> QED
  BY <1>5, <1>8

-----------------------------------------------------------------------------
(* Applying a refund to a payment.                                          *)

RefundRow == [id: RefundId, amount: 1..MaxAmount, status: RefundState, api: BOOLEAN]

Sofar(amount) == [rows: SUBSET RefundRow, refunded: 0..amount, touched: BOOLEAN,
                  told: {Untold} \cup 1..amount]

OneRowEach(rs) == \A r, q \in rs : r.id = q.id => r = q

(* What the steps of applyProviderRefund() can be: a new row, a row whose   *)
(* state changes, or nothing.                                               *)
NewRow(amount, s, re, t) ==
  LET paid == Fewer(re.amount, amount - s.refunded)
      row == [id |-> re.id, amount |-> paid, status |-> re.state, api |-> FALSE]
  IN  /\ \A r \in s.rows : r.id # re.id
      /\ re.state # "failed" /\ paid > 0
      /\ row \notin s.rows /\ t.rows = s.rows \cup {row}
      /\ t.refunded = s.refunded + paid /\ t.touched /\ t.told = t.refunded

NewState(amount, s, re, t) ==
  \E r \in s.rows :
    /\ r.id = re.id /\ r.status # re.state
    /\ t.rows = (s.rows \ {r}) \cup {[r EXCEPT !.status = re.state]}
    /\ t.told = s.told
    /\ \/ /\ re.state = "failed" /\ t.touched
          /\ t.refunded = IF s.refunded > r.amount THEN s.refunded - r.amount ELSE 0
       \/ /\ re.state # "failed" /\ r.status = "failed" /\ t.touched
          /\ t.refunded = Fewer(amount, s.refunded + r.amount)
       \/ /\ re.state # "failed" /\ r.status # "failed" /\ t.touched = s.touched
          /\ t.refunded = s.refunded

LEMMA ApplyCases ==
  ASSUME NEW amount \in 0..MaxAmount, NEW s \in Sofar(amount), NEW re \in Snapshot
  PROVE  LET t == ApplyProviderRefund(amount, s, re)
         IN  /\ t \in Sofar(amount)
             /\ t = s \/ NewRow(amount, s, re, t) \/ NewState(amount, s, re, t)
<1> DEFINE known == {r \in s.rows : r.id = re.id}
           paid == Fewer(re.amount, amount - s.refunded)
           row == [id |-> re.id, amount |-> paid, status |-> re.state, api |-> FALSE]
           t == ApplyProviderRefund(amount, s, re)
<1>0. /\ s.rows \in SUBSET RefundRow /\ s.refunded \in 0..amount /\ s.touched \in BOOLEAN
      /\ s.told \in {Untold} \cup 1..amount
      /\ re.id \in RefundId /\ re.amount \in 1..MaxAmount /\ re.state \in RefundState
  BY DEF Sofar, Snapshot
<1>10. MaxAmount \in Nat /\ amount \in Nat /\ s.refunded \in Nat
  BY ProviderAssumption, <1>0
<1>1. CASE known = {} /\ (re.state = "failed" \/ paid <= 0)
  <2>1. t = s
    BY <1>1 DEF ApplyProviderRefund
  <2> QED
    BY <2>1
<1>2. CASE known = {} /\ ~(re.state = "failed" \/ paid <= 0)
  <2>1. t = [rows |-> s.rows \cup {row}, refunded |-> s.refunded + paid, touched |-> TRUE,
             told |-> s.refunded + paid]
    BY <1>2 DEF ApplyProviderRefund
  <2>2. paid \in 1..MaxAmount /\ s.refunded + paid \in 1..amount
    BY <1>0, <1>10, <1>2 DEF Fewer
  <2>3. row \in RefundRow
    BY <1>0, <2>2 DEF RefundRow
  <2>4. \A r \in s.rows : r.id # re.id
    BY <1>2
  <2>5. row \notin s.rows /\ row.id = re.id
    BY <2>4
  <2> HIDE DEF row, paid
  <2>6. s.rows \cup {row} \in SUBSET RefundRow /\ s.refunded + paid \in 0..amount
    BY <1>0, <1>10, <2>2, <2>3
  <2>7. t \in Sofar(amount)
    BY <2>1, <2>2, <2>6 DEF Sofar
  <2>8. /\ t.rows = s.rows \cup {row} /\ t.refunded = s.refunded + paid /\ t.touched
        /\ t.told = t.refunded
    BY <2>1
  <2>9. re.state # "failed" /\ paid > 0
    BY <1>2, <2>2
  <2>10. NewRow(amount, s, re, t)
    BY <2>4, <2>5, <2>8, <2>9 DEF NewRow, row, paid
  <2> QED
    BY <2>7, <2>10
<1>3. CASE known # {}
  <2> DEFINE r == CHOOSE q \in known : TRUE
             less == IF s.refunded > r.amount THEN s.refunded - r.amount ELSE 0
             new == [r EXCEPT !.status = re.state]
             refunded == IF re.state = "failed" THEN less
                         ELSE IF r.status = "failed" THEN Fewer(amount, s.refunded + r.amount)
                         ELSE s.refunded
             touched == s.touched \/ "failed" \in {re.state, r.status}
  <2>1. r \in s.rows /\ r.id = re.id
    BY <1>3
  <2>2. t = IF r.status = re.state THEN s
            ELSE [rows |-> (s.rows \ {r}) \cup {new}, refunded |-> refunded,
                  touched |-> touched, told |-> s.told]
    BY <1>3 DEF ApplyProviderRefund
  <2>3. r \in RefundRow
    BY <1>0, <2>1
  <2> HIDE DEF r
  <2>4. r.amount \in 1..MaxAmount
    BY <2>3 DEF RefundRow
  <2>5. new \in RefundRow
    BY <1>0, <2>3 DEF RefundRow
  <2>6. less \in 0..amount /\ Fewer(amount, s.refunded + r.amount) \in 0..amount
    BY <1>0, <1>10, <2>4 DEF Fewer
  <2>7. refunded \in 0..amount
    BY <1>0, <2>6
  <2>8. CASE r.status = re.state
    BY <2>2, <2>8
  <2>9. CASE r.status # re.state
    <3>1. /\ t.rows = (s.rows \ {r}) \cup {new} /\ t.refunded = refunded /\ t.told = s.told
          /\ t.touched = touched
      BY <2>2, <2>9
    <3>2. (s.rows \ {r}) \cup {new} \in SUBSET RefundRow
      BY <1>0, <2>5
    <3>3. t \in Sofar(amount)
      <4>1. touched \in BOOLEAN
        OBVIOUS
      <4> HIDE DEF new, refunded, touched
      <4> QED
        BY <1>0, <2>2, <2>7, <2>9, <3>2, <4>1 DEF Sofar
    <3>4. NewState(amount, s, re, t)
      <4>1. \/ /\ re.state = "failed" /\ t.touched /\ t.refunded = less
            \/ /\ re.state # "failed" /\ r.status = "failed" /\ t.touched
               /\ t.refunded = Fewer(amount, s.refunded + r.amount)
            \/ /\ re.state # "failed" /\ r.status # "failed" /\ t.touched = s.touched
               /\ t.refunded = s.refunded
        <5>1. CASE re.state = "failed"
          <6>1. t.touched = TRUE
            <7>1. "failed" \in {re.state, r.status}
              BY <5>1
            <7>2. touched = TRUE
              BY <7>1
            <7> HIDE DEF touched
            <7> QED
              BY <3>1, <7>2
          <6>2. refunded = less
            BY <5>1
          <6> HIDE DEF refunded, less
          <6>3. t.refunded = less
            BY <3>1, <6>2
          <6> QED
            BY <5>1, <6>1, <6>3
        <5>2. CASE re.state # "failed" /\ r.status = "failed"
          <6>1. touched = TRUE /\ refunded = Fewer(amount, s.refunded + r.amount)
            BY <5>2
          <6> HIDE DEF touched, refunded
          <6> QED
            BY <3>1, <5>2, <6>1
        <5>3. CASE re.state # "failed" /\ r.status # "failed"
          <6>1. touched = s.touched /\ refunded = s.refunded
            BY <5>3, <1>0
          <6> HIDE DEF touched, refunded
          <6> QED
            BY <3>1, <5>3, <6>1
        <5> QED
          BY <5>1, <5>2, <5>3
      <4> QED
        BY <2>1, <2>9, <3>1, <4>1 DEF NewState
    <3> QED
      BY <3>3, <3>4
  <2> QED
    BY <2>8, <2>9
<1> QED
  BY <1>1, <1>2, <1>3

-----------------------------------------------------------------------------
(* The types, and how payments, events, refunds and jobs fit together.      *)

PaymentRow == [status: {"none"} \cup Active \cup Final, amount: 0..MaxAmount,
               refunded: 0..MaxAmount, settled: BOOLEAN]
IntentRow == [state: {"none", "open", "declined", "captured", "canceled"}, amount: 0..MaxAmount]
OrderRow == [status: OrderStatus, total: 0..MaxAmount, attempts: 0..Len(Attempt),
             failed: BOOLEAN, paidBy: Payment \cup {NoPayment},
             refunded: 0..MaxAmount, stock: {"shelf", "reserved"}]
CallRow == [by: Caller, amount: 1..MaxAmount, status: RefundState]
JobRow == [state: {"none", "queued", "running", "done", "dead"}, tries: 0..MaxTries]

Unpaid == {"none", "requires_action"}

(* A payment never gives back more than it took, nor takes more than the    *)
(* order costs; the provider knows it as soon as it is started.             *)
Money ==
  \A p \in Payment :
    /\ payments[p].refunded <= payments[p].amount
    /\ payments[p].amount <= order.total
    /\ payments[p].status \in Unpaid => payments[p].refunded = 0 /\ ~payments[p].settled
    /\ intent[p].amount = payments[p].amount
    /\ payments[p].status = "none" <=> intent[p].state = "none"

SnapshotsOf(e) ==
  IF e.type = "charge.refunded" THEN {e.list[i] : i \in DOMAIN e.list}
  ELSE IF e.type = "refund.updated" THEN {e.refund} ELSE {}

(* Refunds and events are of payments that were started.                    *)
EventsKnown ==
  /\ \A e \in events :
       /\ payments[e.payment].status # "none"
       /\ \A s \in SnapshotsOf(e) : PaymentOf(s.id) = e.payment
  /\ \A i \in DOMAIN given : payments[PaymentOf(given[i].id)].status # "none"

RowsKnown ==
  /\ IsFiniteSet(rows) /\ OneRowEach(rows)
  /\ \A r \in rows : payments[PaymentOf(r.id)].status # "none"

DiffsFinite == \A p \in Payment : IsFiniteSet(diffs[p])

(* A refund in the middle of its transaction fits the payment it locks.     *)
CallFits ==
  \A p \in Payment : calling[p] # NoCall =>
    /\ payments[p].status \in {"succeeded", "partially_refunded"}
    /\ payments[p].refunded + calling[p].amount <= payments[p].amount

(* A refund job that may still have to call the provider has tries left.    *)
TriesFit ==
  \A p \in Payment :
    /\ orphan[p].state = "queued" /\ ~Replayed(<<"orphan", p>>) => orphan[p].tries < MaxTries
    /\ payments[p].status \in Unpaid => orphan[p].state = "none" /\ orphan[p].tries = 0

Books ==
  /\ TypeOK /\ Money /\ EventsKnown /\ RowsKnown /\ DiffsFinite /\ CallFits /\ TriesFit

LEMMA Rows ==
  ASSUME Books
  PROVE  /\ MaxAmount \in Nat /\ MaxTries \in Nat
         /\ order \in OrderRow
         /\ payments \in [Payment -> PaymentRow]
         /\ intent \in [Payment -> IntentRow]
         /\ given \in Seq(Given) /\ events \subseteq Event
         /\ rows \in SUBSET RefundRow
         /\ diffs \in [Payment -> SUBSET [at: 1..MaxAmount, amount: 1..MaxAmount]]
         /\ calling \in [Payment -> CallRow \cup {NoCall}]
         /\ orphan \in [Payment -> JobRow]
         /\ \A p \in Payment : payments[p] \in PaymentRow /\ intent[p] \in IntentRow
BY ProviderAssumption, OrderAssumption
   DEF Books, TypeOK, ProviderTypeOK, OrderRow, PaymentRow, IntentRow, RefundRow, CallRow, JobRow

LEMMA InitBooks == Init => Books
<1> SUFFICES ASSUME Init PROVE Books
  OBVIOUS
<1>0. MaxAmount \in Nat /\ MaxTries \in Nat /\ Len(Attempt) \in Nat
  BY ProviderAssumption, OrderAssumption
<1>1. ProviderTypeOK
  BY <1>0 DEF Init, ProviderInit, ProviderTypeOK
<1>2. order \in OrderRow
  BY <1>0 DEF Init, OrderRow, OrderStatus
<1>3. payments \in [Payment -> PaymentRow]
  BY <1>0 DEF Init, PaymentRow
<1>4. orphan \in [Payment -> JobRow]
  BY <1>0 DEF Init, JobRow
<1>5. TypeOK
  BY <1>1, <1>2, <1>3, <1>4 DEF Init, TypeOK, OrderRow, PaymentRow, JobRow
<1>6. Money
  <2>1. ASSUME NEW p \in Payment
        PROVE /\ payments[p].refunded = 0 /\ payments[p].amount = 0 /\ ~payments[p].settled
              /\ payments[p].status = "none" /\ intent[p].state = "none" /\ intent[p].amount = 0
    BY DEF Init, ProviderInit
  <2>2. order.total = 0
    BY DEF Init
  <2> QED
    BY <2>1, <2>2 DEF Money
<1>7. EventsKnown
  BY DEF Init, ProviderInit, EventsKnown
<1>8. RowsKnown /\ DiffsFinite
  BY FS_EmptySet DEF Init, RowsKnown, OneRowEach, DiffsFinite
<1>9. CallFits /\ TriesFit
  BY DEF Init, CallFits, TriesFit
<1> QED
  BY <1>5, <1>6, <1>7, <1>8, <1>9 DEF Books

-----------------------------------------------------------------------------
(* The provider.                                                            *)

LEMMA ListedFacts ==
  ASSUME NEW gs \in Seq(Given), NEW p
  PROVE  Listed(gs, p) \in Seq({s \in Snapshot : PaymentOf(s.id) = p})
<1> DEFINE T == {s \in Snapshot : PaymentOf(s.id) = p}
<1>1. ASSUME NEW l \in Seq(T), NEW n \in 1..Len(gs), PaymentOf(gs[n].id) = p
      PROVE  <<SnapshotOf(gs[n])>> \o l \in Seq(T)
  <2>1. gs[n] \in Given
    OBVIOUS
  <2>2. SnapshotOf(gs[n]) \in T
    BY <1>1, <2>1 DEF Given, SnapshotOf, Snapshot
  <2> HIDE DEF T
  <2> QED
    BY <2>2
<1> HIDE DEF T
<1>2. <<>> \in Seq(T) /\ Len(gs) \in Nat
  OBVIOUS
<1>3. Listed(gs, p) \in Seq(T)
  BY <1>1, <1>2, ListedInduction
<1> QED
  BY <1>3 DEF T

LEMMA GivenFinite ==
  ASSUME given \in Seq(Given), NEW p
  PROVE  /\ IsFiniteSet(RefundsOf(p)) /\ RefundsOf(p) \subseteq 1..Len(given)
         /\ Len(given) \in Nat
         /\ \A i \in RefundsOf(p) : given[i] \in Given
<1>1. Len(given) \in Nat /\ DOMAIN given = 1..Len(given)
  OBVIOUS
<1>2. RefundsOf(p) \subseteq 1..Len(given)
  BY <1>1 DEF RefundsOf
<1>3. IsFiniteSet(1..Len(given))
  BY <1>1, FS_Interval
<1> QED
  BY <1>1, <1>2, <1>3, FS_Subset

LEMMA ReturnedNat ==
  ASSUME given \in Seq(Given), MaxAmount \in Nat, NEW p PROVE Returned(p) \in Nat
<1> DEFINE f == [i \in RefundsOf(p) |-> IF given[i].state = "failed" THEN 0 ELSE given[i].amount]
<1>1. \A i \in RefundsOf(p) : f[i] \in Nat
  BY GivenFinite DEF Given
<1>2. SumFunctionOnSet(f, RefundsOf(p)) \in Nat
  <2> HIDE DEF f
  <2> QED
    BY <1>1, GivenFinite, SumOfNats
<1> QED
  BY <1>2 DEF Returned

(* A refund the provider makes.                                             *)
LEMMA GiveBooks ==
  ASSUME Books, NEW id \in RefundId, NEW amount \in 1..MaxAmount, NEW state \in Starts,
         NEW listed \in ListModes, Give(id, amount, state, listed)
  PROVE  /\ given' \in Seq(Given) /\ events' \subseteq Event
         /\ \A e \in events' : /\ payments[e.payment].status # "none"
                               /\ \A s \in SnapshotsOf(e) : PaymentOf(s.id) = e.payment
         /\ \A i \in DOMAIN given' : payments[PaymentOf(given'[i].id)].status # "none"
<1>1. PICK p \in Payment : p = PaymentOf(id)
  BY DEF RefundId, PaymentOf
<1>2. PICK g : g = [id |-> id, amount |-> amount, state |-> state, first |-> state]
  OBVIOUS
<1>3. g \in Given
  BY <1>2, ProviderAssumption DEF Given, RefundState
<1>4. PICK gs : gs = Append(given, g)
  OBVIOUS
<1>5. gs \in Seq(Given)
  BY <1>3, <1>4, Rows
<1>6. PICK refunded \in 0..MaxAmount : refunded = Returned(p) + amount
  <2>1. Returned(p) \in Nat /\ Returned(p) + amount <= intent[p].amount /\ intent[p].amount \in 0..MaxAmount
    BY <1>1, Rows, ReturnedNat DEF Give, IntentRow
  <2>2. Returned(p) + amount \in 0..MaxAmount
    BY <2>1, Rows
  <2> QED
    BY <2>2
<1>7. PICK e : e = ChargeEvent(gs, p, refunded, listed)
  OBVIOUS
<1>8. given' = gs /\ events' = events \cup {e}
  BY <1>1, <1>2, <1>4, <1>6, <1>7 DEF Give, Report
<1>9. PICK list : list = IF listed THEN Listed(gs, p) ELSE <<>>
  OBVIOUS
<1>10. list \in Seq(Snapshot) /\ \A i \in DOMAIN list : PaymentOf(list[i].id) = p
  <2> DEFINE T == {s \in Snapshot : PaymentOf(s.id) = p}
  <2>1. CASE listed
    <3>1. list \in Seq(T)
      BY <1>5, <1>9, <2>1, ListedFacts
    <3>2. Len(list) \in Nat /\ DOMAIN list = 1..Len(list) /\ \A i \in DOMAIN list : list[i] \in T
      <4> HIDE DEF T
      <4> QED
        BY <3>1
    <3>3. \A i \in DOMAIN list : list[i] \in Snapshot /\ PaymentOf(list[i].id) = p
      BY <3>2
    <3>4. list \in Seq(Snapshot)
      <4>1. list = [i \in 1..Len(list) |-> list[i]]
        <5> HIDE DEF T
        <5> QED
          BY <3>1
      <4> HIDE DEF T
      <4> QED
        BY <3>2, <3>3, <4>1
    <3> QED
      BY <3>3, <3>4
  <2>2. CASE ~listed
    BY <1>9, <2>2
  <2> QED
    BY <2>1, <2>2
<1>11. e = [type |-> "charge.refunded", payment |-> p, refunded |-> refunded, list |-> list]
  BY <1>7, <1>9 DEF ChargeEvent
<1>12. e \in Event
  BY <1>10, <1>11 DEF Event
<1>13. e.payment = p /\ \A s \in SnapshotsOf(e) : PaymentOf(s.id) = p
  BY <1>10, <1>11 DEF SnapshotsOf
<1>14. payments[p].status # "none"
  BY <1>1 DEF Give, Captured, Books, Money
<1>15. events' \subseteq Event
  BY <1>8, <1>12, Rows
<1>16. \A d \in events' : /\ payments[d.payment].status # "none"
                          /\ \A s \in SnapshotsOf(d) : PaymentOf(s.id) = d.payment
  BY <1>8, <1>13, <1>14 DEF Books, EventsKnown
<1>17. \A i \in DOMAIN gs : payments[PaymentOf(gs[i].id)].status # "none"
  <2>1. \A i \in DOMAIN gs : gs[i] = g \/ (i \in DOMAIN given /\ gs[i] = given[i])
    BY <1>4, Rows
  <2>2. PaymentOf(g.id) = p
    BY <1>1, <1>2
  <2> QED
    BY <1>14, <2>1, <2>2 DEF Books, EventsKnown
<1> QED
  BY <1>5, <1>8, <1>15, <1>16, <1>17

(* What a step of the provider or of a payer leaves in order.               *)
LEMMA ProviderKeeps ==
  ASSUME Books, UNCHANGED local, ProviderTypeOK', EventsKnown',
         \A p \in Payment : /\ intent'[p].amount = intent[p].amount
                            /\ intent'[p].state = "none" <=> intent[p].state = "none"
  PROVE  Books'
<1>1. TypeOK'
  BY DEF Books, TypeOK, local
<1>2. Money'
  BY DEF Books, Money, local
<1>3. RowsKnown' /\ DiffsFinite' /\ CallFits'
  BY DEF Books, RowsKnown, DiffsFinite, CallFits, local
<1>4. TriesFit'
  BY DEF Books, TriesFit, Replayed, local
<1> QED
  BY <1>1, <1>2, <1>3, <1>4 DEF Books

(* A payer completes, gives up or loses his payment.                        *)
LEMMA PayerBooks ==
  ASSUME Books, NEW p \in Payment, NEW type \in {"succeeded", "payment_failed", "canceled"},
         NEW state \in {"captured", "declined", "canceled"}, intent[p].state # "none",
         intent' = [intent EXCEPT ![p].state = state],
         Report([type |-> type, payment |-> p]), UNCHANGED given, UNCHANGED local
  PROVE  Books'
<1>1. PICK e : e = [type |-> type, payment |-> p]
  OBVIOUS
<1>2. e \in Event /\ e.payment = p /\ SnapshotsOf(e) = {}
  BY <1>1 DEF Event, SnapshotsOf
<1>3. events' = events \cup {e}
  BY <1>1 DEF Report
<1>4. intent' \in [Payment -> IntentRow]
  BY Rows DEF IntentRow
<1>5. \A q \in Payment : /\ intent'[q].amount = intent[q].amount
                         /\ intent'[q].state = "none" <=> intent[q].state = "none"
  <2>1. intent'[p].state = state /\ intent'[p].amount = intent[p].amount
    BY Rows DEF IntentRow
  <2>2. \A q \in Payment : q # p => intent'[q] = intent[q]
    BY Rows
  <2> QED
    BY <2>1, <2>2
<1>6. ProviderTypeOK'
  <2>1. events' \subseteq Event
    BY <1>2, <1>3, Rows
  <2>2. given' \in Seq(Given)
    BY Rows
  <2> QED
    BY <1>4, <2>1, <2>2 DEF ProviderTypeOK, IntentRow
<1>7. EventsKnown'
  <2>1. payments[p].status # "none"
    BY DEF Books, Money
  <2> QED
    BY <1>2, <1>3, <2>1 DEF Books, EventsKnown, local
<1> QED
  BY <1>5, <1>6, <1>7, ProviderKeeps

LEMMA UpdateRefundBooks ==
  ASSUME Books, NEW i \in DOMAIN given, NEW state \in RefundState, UpdateRefund(i, state),
         UNCHANGED local
  PROVE  Books'
<1>1. PICK g \in Given : g = given[i]
  BY Rows
<1>2. PICK e : e = [type |-> "refund.updated", payment |-> PaymentOf(g.id),
                    refund |-> [SnapshotOf(g) EXCEPT !.state = state]]
  OBVIOUS
<1>3. PICK s : s = [SnapshotOf(g) EXCEPT !.state = state]
  OBVIOUS
<1>4. s \in Snapshot /\ s.id = g.id
  BY <1>3 DEF SnapshotOf, Snapshot, Given
<1>5. PaymentOf(g.id) \in Payment
  BY DEF Given, RefundId, PaymentOf
<1>6. e \in Event /\ e.payment = PaymentOf(g.id) /\ SnapshotsOf(e) = {s}
  BY <1>2, <1>3, <1>4, <1>5 DEF Event, SnapshotsOf
<1>7. events' = events \cup {e}
  BY <1>1, <1>2 DEF UpdateRefund, Report
<1>8. given' \in Seq(Given)
  <2>1. [g EXCEPT !.state = state] \in Given
    BY DEF Given
  <2>2. given' = [given EXCEPT ![i] = [g EXCEPT !.state = state]]
    BY <1>1 DEF UpdateRefund
  <2> QED
    BY <2>1, <2>2, Rows
<1>9. payments[PaymentOf(g.id)].status # "none"
  BY <1>1 DEF Books, EventsKnown
<1>10. \A j \in DOMAIN given' : j \in DOMAIN given /\ given'[j].id = given[j].id
  <2>1. \A j \in DOMAIN given : given[j] \in Given
    BY Rows
  <2> QED
    BY <2>1 DEF UpdateRefund, Given
<1>11. EventsKnown'
  <2>1. payments' = payments
    BY DEF local
  <2>2. \A d \in events' : /\ payments[d.payment].status # "none"
                          /\ \A r \in SnapshotsOf(d) : PaymentOf(r.id) = d.payment
    <3>1. PaymentOf(s.id) = e.payment
      BY <1>4, <1>6
    <3> QED
      BY <1>6, <1>7, <1>9, <3>1 DEF Books, EventsKnown
  <2>3. \A j \in DOMAIN given' : payments[PaymentOf(given'[j].id)].status # "none"
    BY <1>10 DEF Books, EventsKnown
  <2> QED
    BY <2>1, <2>2, <2>3 DEF EventsKnown
<1>12. ProviderTypeOK'
  <2>1. events' \subseteq Event
    BY <1>6, <1>7, Rows
  <2>2. intent' = intent
    BY DEF UpdateRefund
  <2> QED
    BY <1>8, <2>1, <2>2, Rows DEF ProviderTypeOK, IntentRow
<1> QED
  BY <1>11, <1>12, ProviderKeeps DEF UpdateRefund

LEMMA ProviderBooks == ASSUME Books, ProviderNext, UNCHANGED local PROVE Books'
<1>1. ASSUME NEW p \in Payment, Pay(p) PROVE Books'
  BY <1>1, PayerBooks DEF Pay
<1>2. ASSUME NEW p \in Payment, Decline(p) PROVE Books'
  BY <1>2, PayerBooks DEF Decline
<1>3. ASSUME NEW p \in Payment, PayAgain(p) PROVE Books'
  BY <1>3, PayerBooks DEF PayAgain
<1>4. ASSUME NEW p \in Payment, CancelIntent(p) PROVE Books'
  BY <1>4, PayerBooks DEF CancelIntent
<1>5. ASSUME NEW id \in RefundId, NEW amount \in 1..MaxAmount, RefundOnBoard(id, amount)
      PROVE  Books'
  <2>1. PICK state \in Starts, listed \in ListModes : Give(id, amount, state, listed)
    BY <1>5 DEF RefundOnBoard
  <2>2. UNCHANGED intent
    BY <1>5 DEF RefundOnBoard
  <2>3. /\ given' \in Seq(Given) /\ events' \subseteq Event
        /\ \A e \in events' : /\ payments[e.payment].status # "none"
                              /\ \A s \in SnapshotsOf(e) : PaymentOf(s.id) = e.payment
        /\ \A i \in DOMAIN given' : payments[PaymentOf(given'[i].id)].status # "none"
    BY <2>1, GiveBooks
  <2>4. ProviderTypeOK'
    BY <2>2, <2>3, Rows DEF ProviderTypeOK, IntentRow
  <2>5. EventsKnown'
    BY <2>3 DEF EventsKnown, local
  <2> QED
    BY <2>2, <2>4, <2>5, ProviderKeeps
<1>6. ASSUME NEW i \in DOMAIN given, NEW state \in RefundState, UpdateRefund(i, state)
      PROVE  Books'
  BY <1>6, UpdateRefundBooks
<1> QED
  BY <1>1, <1>2, <1>3, <1>4, <1>5, <1>6 DEF ProviderNext

-----------------------------------------------------------------------------
(* The order, and starting and settling payments.                           *)

LEMMA TypeIs ==
  ASSUME ProviderTypeOK, order \in OrderRow, payments \in [Payment -> PaymentRow],
         rows \in SUBSET RefundRow,
         diffs \in [Payment -> SUBSET [at: 1..MaxAmount, amount: 1..MaxAmount]],
         calling \in [Payment -> CallRow \cup {NoCall}], orphan \in [Payment -> JobRow],
         expiry \in {"none", "queued", "cancelled", "done"}, due \in BOOLEAN
  PROVE  TypeOK
BY DEF TypeOK, OrderRow, PaymentRow, RefundRow, CallRow, JobRow

LEMMA TypeHas ==
  ASSUME Books
  PROVE  /\ ProviderTypeOK
         /\ expiry \in {"none", "queued", "cancelled", "done"} /\ due \in BOOLEAN
BY DEF Books, TypeOK

(* A step of the order alone.                                               *)
LEMMA OrderBooks ==
  ASSUME Books, UNCHANGED provider, UNCHANGED <<payments, rows, diffs, calling, orphan>>,
         order' \in OrderRow, order.total <= order'.total,
         expiry' \in {"none", "queued", "cancelled", "done"}, due' \in BOOLEAN
  PROVE  Books'
<1>1. ProviderTypeOK'
  BY TypeHas DEF ProviderTypeOK, provider
<1>2. TypeOK'
  <2>1. /\ payments' \in [Payment -> PaymentRow] /\ rows' \in SUBSET RefundRow
        /\ diffs' \in [Payment -> SUBSET [at: 1..MaxAmount, amount: 1..MaxAmount]]
        /\ calling' \in [Payment -> CallRow \cup {NoCall}] /\ orphan' \in [Payment -> JobRow]
    BY Rows
  <2> QED
    BY <1>1, <2>1 DEF TypeOK, OrderRow, PaymentRow, RefundRow, CallRow, JobRow
<1>3. Money'
  <2>1. order.total \in Nat /\ order'.total \in Nat
    BY Rows DEF OrderRow
  <2>2. \A p \in Payment : payments[p].amount \in Nat
    BY Rows DEF PaymentRow
  <2>3. payments' = payments /\ intent' = intent
    BY DEF provider
  <2> QED
    BY <2>1, <2>2, <2>3 DEF Books, Money
<1>4. EventsKnown' /\ RowsKnown' /\ DiffsFinite' /\ CallFits' /\ TriesFit'
  BY DEF Books, EventsKnown, RowsKnown, DiffsFinite, CallFits, TriesFit, Replayed, provider
<1> QED
  BY <1>2, <1>3, <1>4 DEF Books

LEMMA CancelledRow ==
  ASSUME Books, NEW refunded \in 0..MaxAmount
  PROVE  Cancelled(refunded) \in OrderRow /\ Cancelled(refunded).total = order.total
<1>1. order \in OrderRow
  BY Rows
<1> QED
  BY <1>1 DEF Cancelled, OrderRow, OrderStatus

(* Stock keeps what it is, and the total stays.                             *)
LEMMA MoveBooks ==
  ASSUME Books, NEW from, NEW to \in OrderStatus, Move(from, to) PROVE Books'
<1>1. order \in OrderRow /\ order.total \in Nat
  BY Rows DEF OrderRow
<1>2. order' \in OrderRow /\ order'.total = order.total
  BY <1>1 DEF Move, OrderRow
<1> QED
  BY <1>1, <1>2, OrderBooks, TypeHas DEF Move

LEMMA ExpireBooks == ASSUME Books, ExpireOrder PROVE Books'
<1>1. order \in OrderRow /\ order.total \in Nat /\ order.refunded \in 0..MaxAmount
  BY Rows DEF OrderRow
<1>2. order' \in OrderRow /\ order'.total = order.total
  BY <1>1, CancelledRow DEF ExpireOrder
<1> QED
  BY <1>1, <1>2, OrderBooks, TypeHas DEF ExpireOrder

LEMMA TimeBooks == ASSUME Books, TimePasses PROVE Books'
<1>1. order \in OrderRow /\ order.total \in Nat
  BY Rows DEF OrderRow
<1> QED
  BY <1>1, OrderBooks, TypeHas DEF TimePasses

LEMMA FreeCreateBooks ==
  ASSUME Books, order' = [order EXCEPT !.status = "paid", !.stock = "reserved"],
         UNCHANGED <<payments, intent, given, events, expiry>>,
         UNCHANGED <<rows, diffs, calling, orphan, due>>
  PROVE  Books'
<1>1. order \in OrderRow /\ order.total \in Nat
  BY Rows DEF OrderRow
<1>2. order' \in OrderRow /\ order'.total = order.total
  BY <1>1 DEF OrderRow, OrderStatus
<1> QED
  BY <1>1, <1>2, OrderBooks, TypeHas DEF provider

LEMMA StartBooks ==
  ASSUME Books, NEW p \in Payment, NEW amount \in 0..MaxAmount, StartOnline(p, amount),
         order' \in OrderRow, order.total <= order'.total, amount <= order'.total,
         expiry' \in {"none", "queued", "cancelled", "done"},
         UNCHANGED <<rows, diffs, calling, orphan, due>>
  PROVE  Books'
<1>0. order.total \in Nat /\ order'.total \in Nat /\ amount \in Nat
  BY Rows DEF OrderRow
<1>1. PICK row \in PaymentRow :
        /\ row = [status |-> "requires_action", amount |-> amount, refunded |-> 0, settled |-> FALSE]
  <2>1. [status |-> "requires_action", amount |-> amount, refunded |-> 0, settled |-> FALSE]
          \in PaymentRow
    BY Rows DEF PaymentRow, Active
  <2> QED
    BY <2>1
<1>2. payments' = [payments EXCEPT ![p] = row] /\ payments[p].status = "none"
  BY <1>1 DEF StartOnline
<1>3. payments' \in [Payment -> PaymentRow]
  BY <1>2, Rows
<1>4. intent' \in [Payment -> IntentRow] /\ intent'[p] = [state |-> "open", amount |-> amount]
  <2>1. intent' = [intent EXCEPT ![p].state = "open", ![p].amount = amount]
    BY DEF StartOnline
  <2>2. intent[p] \in IntentRow
    BY Rows
  <2> QED
    BY <2>1, <2>2, Rows DEF IntentRow
<1>5. /\ payments'[p] = row
      /\ \A q \in Payment : q # p => payments'[q] = payments[q] /\ intent'[q] = intent[q]
  BY <1>2, Rows DEF StartOnline
<1>6. TypeOK'
  <2>1. ProviderTypeOK'
    BY <1>4, Rows DEF ProviderTypeOK, IntentRow, StartOnline
  <2>2. /\ rows' \in SUBSET RefundRow
        /\ diffs' \in [Payment -> SUBSET [at: 1..MaxAmount, amount: 1..MaxAmount]]
        /\ calling' \in [Payment -> CallRow \cup {NoCall}] /\ orphan' \in [Payment -> JobRow]
        /\ due' \in BOOLEAN
    BY Rows, TypeHas
  <2> QED
    BY <1>3, <2>1, <2>2 DEF TypeOK, OrderRow, PaymentRow, RefundRow, CallRow, JobRow
<1>7. Money'
  <2> SUFFICES ASSUME NEW q \in Payment
               PROVE  /\ payments'[q].refunded <= payments'[q].amount
                      /\ payments'[q].amount <= order'.total
                      /\ payments'[q].status \in Unpaid => payments'[q].refunded = 0 /\ ~payments'[q].settled
                      /\ intent'[q].amount = payments'[q].amount
                      /\ payments'[q].status = "none" <=> intent'[q].state = "none"
    BY DEF Money
  <2>1. CASE q = p
    BY <1>0, <1>1, <1>4, <1>5, <2>1
  <2>2. CASE q # p
    <3>1. payments'[q] = payments[q] /\ intent'[q] = intent[q] /\ payments[q].amount \in Nat
      BY <1>5, <2>2, Rows DEF PaymentRow
    <3> QED
      BY <1>0, <3>1 DEF Books, Money
  <2> QED
    BY <2>1, <2>2
<1>8. \A q \in Payment : payments[q].status # "none" => payments'[q] = payments[q]
  BY <1>2, <1>5
<1>9. EventsKnown'
  <2>1. UNCHANGED <<events, given>>
    BY DEF StartOnline
  <2>2. \A e \in events : e.payment \in Payment
    <3>1. \A e \in Event : e.payment \in Payment
      BY DEF Event
    <3> QED
      BY <3>1, Rows
  <2>3. \A i \in DOMAIN given : PaymentOf(given[i].id) \in Payment
    <3>1. \A i \in DOMAIN given : given[i] \in Given
      BY Rows
    <3> QED
      BY <3>1 DEF Given, RefundId, PaymentOf
  <2> QED
    BY <1>8, <2>1, <2>2, <2>3 DEF Books, EventsKnown
<1>10. RowsKnown' /\ DiffsFinite'
  <2>1. \A r \in rows : PaymentOf(r.id) \in Payment
    BY Rows DEF RefundRow, RefundId, PaymentOf
  <2> QED
    BY <1>8, <2>1 DEF Books, RowsKnown, DiffsFinite
<1>11. CallFits'
  BY <1>8 DEF Books, CallFits
<1>12. TriesFit'
  BY <1>2, <1>5 DEF Books, TriesFit, Replayed, Unpaid
<1> QED
  BY <1>6, <1>7, <1>9, <1>10, <1>11, <1>12 DEF Books

LEMMA CreateBooks == ASSUME Books, Inv, NEW total \in Totals, Create(total) PROVE Books'
<1>0. Attempt[1] \in Payment /\ 1 \in 0..Len(Attempt)
  BY OrderAssumption
<1>1. order \in OrderRow /\ order.total = 0 /\ total \in 0..MaxAmount /\ total \in Nat
  <2>1. order.total = 0
    BY DEF Create, Inv, OrderShape
  <2> QED
    BY <2>1, Rows, OrderAssumption
<1>2. CASE total > 0
  <2>1. order' = [order EXCEPT !.status = "pending", !.total = total, !.attempts = 1,
                               !.stock = "reserved"]
    BY <1>1, <1>2 DEF Create
  <2>2. order' \in OrderRow /\ order'.total = total
    BY <1>0, <1>1, <2>1 DEF OrderRow, OrderStatus
  <2>3. StartOnline(Attempt[1], total) /\ expiry' = "queued"
    BY <1>1, <1>2 DEF Create
  <2> QED
    BY <1>0, <1>1, <2>2, <2>3, StartBooks DEF Create
<1>3. CASE total = 0
  BY <1>3, FreeCreateBooks DEF Create
<1> QED
  BY <1>1, <1>2, <1>3

(* What is held is at least what a payer may still be asked for.            *)
LEMMA HeldNat ==
  ASSUME Books
  PROVE  /\ \A p \in Payment : HeldBy(p) \in Nat
         /\ SumFunctionOnSet([p \in Payment |-> HeldBy(p)], Payment) \in Nat
         /\ Outstanding <= order.total
<1>1. \A p \in Payment : HeldBy(p) \in Nat
  <2>1. \A p \in Payment : payments[p].amount \in Nat /\ payments[p].refunded \in Nat
                           /\ payments[p].refunded <= payments[p].amount
    BY Rows DEF PaymentRow, Books, Money
  <2> QED
    BY <2>1 DEF HeldBy
<1>2. SumFunctionOnSet([p \in Payment |-> HeldBy(p)], Payment) \in Nat
  <2> DEFINE f == [p \in Payment |-> HeldBy(p)]
  <2>1. \A p \in Payment : f[p] \in Nat
    BY <1>1
  <2>2. SumFunctionOnSet(f, Payment) \in Nat
    <3> HIDE DEF f
    <3> QED
      BY <2>1, OrderAssumption, SumOfNats
  <2> QED
    BY <2>2
<1>3. order.total \in Nat
  BY Rows DEF OrderRow
<1> QED
  BY <1>1, <1>2, <1>3 DEF Outstanding

LEMMA RetryBooks == ASSUME Books, RetryOrderPayment PROVE Books'
<1>1. PICK n : n = order.attempts + 1
  OBVIOUS
<1>2. order.attempts \in Nat /\ order.total \in 0..MaxAmount /\ order \in OrderRow
  BY Rows, OrderAssumption DEF OrderRow
<1>3. /\ n <= Len(Attempt) /\ order' = [order EXCEPT !.attempts = n, !.failed = FALSE]
      /\ StartOnline(Attempt[n], order.total)
      /\ UNCHANGED <<rows, diffs, calling, orphan, expiry, due>>
  BY <1>1 DEF RetryOrderPayment
<1>4. Attempt[n] \in Payment /\ n \in 0..Len(Attempt)
  BY <1>1, <1>2, <1>3, OrderAssumption
<1>5. order' \in OrderRow /\ order'.total = order.total
  BY <1>2, <1>3, <1>4 DEF OrderRow
<1>6. order.total <= order'.total
  BY <1>2, <1>5
<1> QED
  BY <1>2, <1>3, <1>4, <1>5, <1>6, StartBooks, TypeHas

LEMMA StaffPaysBooks ==
  ASSUME Books, NEW p \in StaffPayment, NEW amount \in 1..MaxAmount, StaffPays(p, amount)
  PROVE  Books'
<1>1. p \in Payment /\ amount \in 0..MaxAmount
  BY DEF StaffPayment
<1>2. order' = order /\ order \in OrderRow /\ order.total \in Nat
  BY Rows DEF StaffPays, OrderRow
<1>3. amount <= order.total
  <2>1. Outstanding <= order.total /\ amount <= Outstanding
    BY HeldNat DEF StaffPays
  <2>2. Outstanding \in Int
    BY <1>2, HeldNat DEF Outstanding
  <2> QED
    BY <1>1, <1>2, <2>1, <2>2
<1> QED
  BY <1>1, <1>2, <1>3, StartBooks, TypeHas DEF StaffPays

(* A payment settles.                                                       *)
LEMMA SettleBooks ==
  ASSUME Books, NEW p \in Payment, NEW status \in {"succeeded", "failed", "cancelled"},
         Settle(p, status), UNCHANGED <<intent, given, events, rows, diffs, calling, due>>,
         order' \in OrderRow, order'.total = order.total,
         expiry' \in {"none", "queued", "cancelled", "done"},
         orphan' \in [Payment -> JobRow],
         \A q \in Payment : q # p => orphan'[q] = orphan[q],
         orphan'[p].tries = orphan[p].tries
  PROVE  Books'
<1>1. payments[p].status = "requires_action" /\ calling[p] = NoCall
  BY Rows DEF Settle, PaymentRow, Active, Final, Free
<1>2. payments' \in [Payment -> PaymentRow]
  <2>1. payments[p] \in PaymentRow
    BY Rows
  <2>2. (status = "succeeded") \in BOOLEAN /\ status \in Active \cup Final
    BY DEF Active, Final
  <2> QED
    BY <2>1, <2>2, Rows DEF Settle, PaymentRow
<1>3. /\ payments'[p].status = status /\ payments'[p].amount = payments[p].amount
      /\ payments'[p].refunded = payments[p].refunded
      /\ payments'[p].settled = (status = "succeeded")
      /\ \A q \in Payment : q # p => payments'[q] = payments[q]
  BY Rows DEF Settle, PaymentRow
<1>4. status # "none" /\ status \notin Unpaid
  BY DEF Unpaid
<1>5. TypeOK'
  <2>1. ProviderTypeOK'
    BY TypeHas DEF ProviderTypeOK
  <2>2. /\ rows' \in SUBSET RefundRow
        /\ diffs' \in [Payment -> SUBSET [at: 1..MaxAmount, amount: 1..MaxAmount]]
        /\ calling' \in [Payment -> CallRow \cup {NoCall}]
        /\ due' \in BOOLEAN
    BY Rows, TypeHas
  <2> QED
    BY <1>2, <2>1, <2>2 DEF TypeOK, OrderRow, PaymentRow, RefundRow, CallRow, JobRow
<1>6. Money'
  <2> SUFFICES ASSUME NEW q \in Payment
               PROVE  /\ payments'[q].refunded <= payments'[q].amount
                      /\ payments'[q].amount <= order'.total
                      /\ payments'[q].status \in Unpaid => payments'[q].refunded = 0 /\ ~payments'[q].settled
                      /\ intent'[q].amount = payments'[q].amount
                      /\ payments'[q].status = "none" <=> intent'[q].state = "none"
    BY DEF Money
  <2>1. CASE q = p
    BY <1>1, <1>3, <1>4, <2>1 DEF Books, Money
  <2>2. CASE q # p
    BY <1>3, <2>2 DEF Books, Money
  <2> QED
    BY <2>1, <2>2
<1>7. \A q \in Payment : payments[q].status # "none" => payments'[q].status # "none"
  BY <1>3, <1>4
<1>8. EventsKnown'
  <2>1. \A e \in events : e.payment \in Payment
    <3>1. \A e \in Event : e.payment \in Payment
      BY DEF Event
    <3> QED
      BY <3>1, Rows
  <2>2. \A i \in DOMAIN given : PaymentOf(given[i].id) \in Payment
    <3>1. \A i \in DOMAIN given : given[i] \in Given
      BY Rows
    <3> QED
      BY <3>1 DEF Given, RefundId, PaymentOf
  <2> QED
    BY <1>7, <2>1, <2>2 DEF Books, EventsKnown
<1>9. RowsKnown' /\ DiffsFinite'
  <2>1. \A r \in rows : PaymentOf(r.id) \in Payment
    BY Rows DEF RefundRow, RefundId, PaymentOf
  <2> QED
    BY <1>7, <2>1 DEF Books, RowsKnown, DiffsFinite
<1>10. CallFits'
  BY <1>1, <1>3 DEF Books, CallFits
<1>11. TriesFit'
  <2>1. payments[p].status \in Unpaid
    BY <1>1 DEF Unpaid
  <2>2. orphan[p].tries = 0
    BY <2>1 DEF Books, TriesFit
  <2>3. 0 < MaxTries
    BY OrderAssumption
  <2> SUFFICES ASSUME NEW q \in Payment
               PROVE  /\ orphan'[q].state = "queued" /\ ~(\E r \in rows' : r.id = <<"orphan", q>> /\ r.api)
                           => orphan'[q].tries < MaxTries
                      /\ payments'[q].status \in Unpaid =>
                           orphan'[q].state = "none" /\ orphan'[q].tries = 0
    BY DEF TriesFit, Replayed
  <2>4. CASE q = p
    BY <1>3, <1>4, <2>2, <2>3, <2>4
  <2>5. CASE q # p
    <3>1. orphan'[q] = orphan[q] /\ payments'[q] = payments[q] /\ rows' = rows
      BY <1>3, <2>5
    <3> QED
      BY <3>1 DEF Books, TriesFit, Replayed
  <2> QED
    BY <2>4, <2>5
<1> QED
  BY <1>5, <1>6, <1>8, <1>9, <1>10, <1>11 DEF Books

LEMMA SucceededBooks == ASSUME Books, NEW p \in Payment, Succeeded(p) PROVE Books'
<1>1. order \in OrderRow /\ orphan[p] \in JobRow
  BY Rows
<1>2. order' \in OrderRow /\ order'.total = order.total
  <2>1. CASE order' = [order EXCEPT !.status = "paid", !.paidBy = p, !.failed = FALSE]
    BY <1>1, <2>1 DEF OrderRow, OrderStatus
  <2>2. CASE order' = order
    BY <1>1, <2>2
  <2> QED
    BY <2>1, <2>2 DEF Succeeded, OnPaymentSucceeded
<1>3. expiry' \in {"none", "queued", "cancelled", "done"}
  BY TypeHas DEF Succeeded, OnPaymentSucceeded, CancelExpiry
<1>4. /\ orphan' \in [Payment -> JobRow] /\ orphan'[p].tries = orphan[p].tries
      /\ \A q \in Payment : q # p => orphan'[q] = orphan[q]
  <2>1. CASE orphan' = [orphan EXCEPT ![p].state = "queued"]
    <3>1. [orphan[p] EXCEPT !.state = "queued"] \in JobRow
      BY <1>1 DEF JobRow
    <3>2. orphan' = [orphan EXCEPT ![p] = [orphan[p] EXCEPT !.state = "queued"]]
      BY <2>1
    <3> QED
      BY <3>1, <3>2, Rows DEF JobRow
  <2>2. CASE orphan' = orphan
    BY <2>2, Rows
  <2> QED
    BY <2>1, <2>2 DEF Succeeded, OnPaymentSucceeded
<1>5. Settle(p, "succeeded") /\ UNCHANGED <<intent, given, events, rows, diffs, calling, due>>
  BY DEF Succeeded
<1> QED
  BY <1>2, <1>3, <1>4, <1>5, SettleBooks

LEMMA PaymentFailedBooks == ASSUME Books, NEW p \in Payment, PaymentFailed(p) PROVE Books'
<1>1. order \in OrderRow
  BY Rows
<1>2. order' \in OrderRow /\ order'.total = order.total
  <2>1. (order.failed \/ order.status = "pending") \in BOOLEAN
    OBVIOUS
  <2> DEFINE f == order.failed \/ order.status = "pending"
  <2>2. order' = [order EXCEPT !.failed = f]
    BY DEF PaymentFailed
  <2>3. f \in BOOLEAN
    OBVIOUS
  <2> HIDE DEF f
  <2> QED
    BY <1>1, <2>2, <2>3 DEF OrderRow
<1>3. Settle(p, "failed")
  BY DEF PaymentFailed
<1>4. UNCHANGED <<intent, given, events, rows, diffs, calling, orphan, expiry, due>>
  BY DEF PaymentFailed
<1> QED
  BY <1>2, <1>3, <1>4, SettleBooks, TypeHas, Rows

LEMMA IntentCanceledBooks == ASSUME Books, NEW p \in Payment, IntentCanceled(p) PROVE Books'
<1>1. Settle(p, "cancelled") /\ UNCHANGED <<intent, given, events, order, rows, diffs, calling, orphan, expiry, due>>
  BY DEF IntentCanceled
<1> QED
  BY <1>1, SettleBooks, TypeHas, Rows

-----------------------------------------------------------------------------
(* Refunds that are recorded.                                               *)

(* What a transaction may make of the rows when it is told of refunds of p. *)
Grown(p, rs, ss) ==
  /\ IsFiniteSet(ss) /\ OneRowEach(ss)
  /\ \A r \in ss : PaymentOf(r.id) = p \/ \E q \in rs : q.id = r.id
  /\ \A q \in rs : \E r \in ss : r.id = q.id /\ r.api = q.api
  /\ \A r \in ss : r.api => \E q \in rs : q.id = r.id /\ q.api

LEMMA GrownSame ==
  ASSUME NEW p, NEW rs, IsFiniteSet(rs), OneRowEach(rs) PROVE Grown(p, rs, rs)
BY DEF Grown

LEMMA GrownTwice ==
  ASSUME NEW p, NEW rs, NEW ss, NEW ts, Grown(p, rs, ss), Grown(p, ss, ts)
  PROVE  Grown(p, rs, ts)
<1>1. IsFiniteSet(ts) /\ OneRowEach(ts)
  BY DEF Grown
<1>2. ASSUME NEW r \in ts PROVE PaymentOf(r.id) = p \/ \E q \in rs : q.id = r.id
  <2>1. PaymentOf(r.id) = p \/ \E q \in ss : q.id = r.id
    BY DEF Grown
  <2>2. \A q \in ss : PaymentOf(q.id) = p \/ \E o \in rs : o.id = q.id
    BY DEF Grown
  <2> QED
    BY <2>1, <2>2
<1>3. ASSUME NEW q \in rs PROVE \E r \in ts : r.id = q.id /\ r.api = q.api
  <2>1. PICK o \in ss : o.id = q.id /\ o.api = q.api
    BY DEF Grown
  <2>2. \E r \in ts : r.id = o.id /\ r.api = o.api
    BY DEF Grown
  <2> QED
    BY <2>1, <2>2
<1>4. ASSUME NEW r \in ts, r.api PROVE \E q \in rs : q.id = r.id /\ q.api
  <2>1. PICK o \in ss : o.id = r.id /\ o.api
    BY <1>4 DEF Grown
  <2>2. \E q \in rs : q.id = o.id /\ q.api
    BY <2>1 DEF Grown
  <2> QED
    BY <2>1, <2>2
<1> QED
  BY <1>1, <1>2, <1>3, <1>4 DEF Grown

LEMMA ApplyGrows ==
  ASSUME NEW amount \in 0..MaxAmount, NEW s \in Sofar(amount), NEW re \in Snapshot, NEW p,
         PaymentOf(re.id) = p, IsFiniteSet(s.rows), OneRowEach(s.rows)
  PROVE  /\ Grown(p, s.rows, ApplyProviderRefund(amount, s, re).rows)
         /\ LET t == ApplyProviderRefund(amount, s, re)
            IN  s.touched => t.touched
         /\ LET t == ApplyProviderRefund(amount, s, re)
            IN  t.touched \/ t.refunded = s.refunded
<1>1. PICK t : t = ApplyProviderRefund(amount, s, re)
  OBVIOUS
<1>2. t = s \/ NewRow(amount, s, re, t) \/ NewState(amount, s, re, t)
  BY <1>1, ApplyCases
<1>3. CASE t = s
  <2>1. Grown(p, s.rows, s.rows)
    BY GrownSame
  <2> QED
    BY <1>1, <1>3, <2>1
<1>4. CASE NewRow(amount, s, re, t)
  <2>1. PICK row : row = [id |-> re.id, amount |-> Fewer(re.amount, amount - s.refunded),
                          status |-> re.state, api |-> FALSE]
    OBVIOUS
  <2>2. /\ t.rows = s.rows \cup {row} /\ row.id = re.id /\ ~row.api /\ t.touched
        /\ \A r \in s.rows : r.id # re.id
    BY <1>4, <2>1 DEF NewRow
  <2>3. IsFiniteSet(t.rows)
    BY <2>2, FS_AddElement
  <2>4. OneRowEach(t.rows)
    BY <2>2 DEF OneRowEach
  <2>5. Grown(p, s.rows, t.rows)
    BY <2>2, <2>3, <2>4 DEF Grown
  <2> QED
    BY <1>1, <2>2, <2>5
<1>5. CASE NewState(amount, s, re, t)
  <2>1. PICK r \in s.rows :
          /\ r.id = re.id /\ r.status # re.state
          /\ t.rows = (s.rows \ {r}) \cup {[r EXCEPT !.status = re.state]}
          /\ t.told = s.told
          /\ \/ re.state = "failed" /\ t.touched
             \/ re.state # "failed" /\ r.status = "failed" /\ t.touched
             \/ re.state # "failed" /\ r.status # "failed" /\ t.touched = s.touched
                /\ t.refunded = s.refunded
    BY <1>5 DEF NewState
  <2>2. r \in RefundRow
    BY DEF Sofar
  <2>3. PICK n : n = [r EXCEPT !.status = re.state]
    OBVIOUS
  <2>4. n.id = r.id /\ n.api = r.api
    BY <2>2, <2>3 DEF RefundRow
  <2>5. t.rows = (s.rows \ {r}) \cup {n}
    BY <2>1, <2>3
  <2>6. IsFiniteSet(t.rows)
    <3>1. IsFiniteSet(s.rows \ {r})
      BY FS_RemoveElement
    <3> QED
      BY <2>5, <3>1, FS_AddElement
  <2>7. OneRowEach(t.rows)
    BY <2>4, <2>5 DEF OneRowEach
  <2>8. Grown(p, s.rows, t.rows)
    BY <2>4, <2>5, <2>6, <2>7 DEF Grown
  <2>9. (s.touched => t.touched) /\ (t.touched \/ t.refunded = s.refunded)
    <3>1. CASE t.touched
      BY <3>1
    <3>2. CASE ~t.touched
      <4>1. t.touched = s.touched /\ t.refunded = s.refunded
        BY <2>1, <3>2
      <4> QED
        BY <3>2, <4>1
    <3> QED
      BY <3>1, <3>2
  <2> QED
    BY <1>1, <2>8, <2>9
<1> QED
  BY <1>2, <1>3, <1>4, <1>5

(* Before a transaction is told of anything.                                *)
LEMMA BeforeFacts ==
  ASSUME Books, NEW p \in Payment
  PROVE  /\ payments[p].amount \in 0..MaxAmount
         /\ Before(p) \in Sofar(payments[p].amount)
         /\ Before(p).rows = rows /\ Before(p).refunded = payments[p].refunded
         /\ Before(p).told = Untold
         /\ IsFiniteSet(rows) /\ OneRowEach(rows)
<1>1. payments[p].amount \in 0..MaxAmount /\ payments[p].refunded \in 0..MaxAmount
      /\ payments[p].refunded <= payments[p].amount
  BY Rows DEF PaymentRow, Books, Money
<1>2. payments[p].refunded \in 0..payments[p].amount
  BY <1>1
<1>3. IsFiniteSet(rows) /\ OneRowEach(rows)
  BY DEF Books, RowsKnown
<1>4. Before(p) \in Sofar(payments[p].amount)
  BY <1>2, Rows DEF Before, Sofar
<1> QED
  BY <1>1, <1>3, <1>4 DEF Before

(* What a transaction that is told of refunds writes.                       *)
LEMMA AbsorbBooks ==
  ASSUME Books, NEW p \in Payment, NEW s, s \in Sofar(payments[p].amount), Free(p),
         Grown(p, rows, s.rows), s.touched \/ s.refunded = payments[p].refunded,
         payments[p].status # "none",
         Absorb(p, s), UNCHANGED <<intent, given, events, calling, orphan, expiry, due>>,
         diffs' \in [Payment -> SUBSET [at: 1..MaxAmount, amount: 1..MaxAmount]],
         DiffsFinite'
  PROVE  Books'
<1>0. /\ payments[p].amount \in 0..MaxAmount /\ MaxAmount \in Nat /\ calling[p] = NoCall
      /\ s.rows \in SUBSET RefundRow /\ s.refunded \in 0..payments[p].amount
      /\ s.told \in {Untold} \cup 1..payments[p].amount
  BY BeforeFacts, Rows DEF Sofar, Free
<1>1. PICK new : new = StatusOf(payments[p].amount, s.refunded)
  OBVIOUS
<1>2. new \in {"succeeded", "refunded", "partially_refunded"}
  BY <1>1 DEF StatusOf
<1>3. PICK status : status = IF s.touched THEN new ELSE payments[p].status
  OBVIOUS
<1>4. status \in {"none"} \cup Active \cup Final
  BY <1>2, <1>3, Rows DEF PaymentRow, Active
<1>5. payments' = [payments EXCEPT ![p].refunded = s.refunded, ![p].status = status]
  BY <1>1, <1>3 DEF Absorb
<1>6. payments' \in [Payment -> PaymentRow]
  <2>1. payments[p] \in PaymentRow /\ s.refunded \in 0..MaxAmount
    BY <1>0, Rows
  <2>2. [payments[p] EXCEPT !.refunded = s.refunded, !.status = status] \in PaymentRow
    BY <1>4, <2>1 DEF PaymentRow
  <2>3. payments' = [payments EXCEPT ![p] = [payments[p] EXCEPT !.refunded = s.refunded, !.status = status]]
    BY <1>5, Rows
  <2> QED
    BY <2>2, <2>3, Rows
<1>7. /\ payments'[p].status = status /\ payments'[p].amount = payments[p].amount
      /\ payments'[p].refunded = s.refunded /\ payments'[p].settled = payments[p].settled
      /\ \A q \in Payment : q # p => payments'[q] = payments[q]
  BY <1>5, Rows DEF PaymentRow
<1>8. order' \in OrderRow /\ order'.total = order.total
  <2>1. order \in OrderRow
    BY Rows
  <2>2. CASE s.told # Untold /\ order.paidBy = p
    <3>1. s.told \in 0..MaxAmount
      BY <1>0, <2>2
    <3> QED
      BY <2>1, <2>2, <3>1 DEF Absorb, OrderRow
  <2>3. CASE ~(s.told # Untold /\ order.paidBy = p)
    BY <2>1, <2>3 DEF Absorb
  <2> QED
    BY <2>2, <2>3
<1>9. status # "none" /\ (status \in Unpaid => payments[p].status \in Unpaid /\ ~s.touched)
  <2>1. CASE s.touched
    BY <1>2, <1>3, <2>1 DEF Unpaid
  <2>2. CASE ~s.touched
    BY <1>3, <2>2
  <2> QED
    BY <2>1, <2>2
<1>10. TypeOK'
  <2>1. ProviderTypeOK'
    BY TypeHas DEF ProviderTypeOK
  <2>2. /\ rows' \in SUBSET RefundRow /\ orphan' \in [Payment -> JobRow]
        /\ calling' \in [Payment -> CallRow \cup {NoCall}]
        /\ expiry' \in {"none", "queued", "cancelled", "done"} /\ due' \in BOOLEAN
    BY <1>0, Rows, TypeHas DEF Absorb
  <2> QED
    BY <1>6, <1>8, <2>1, <2>2 DEF TypeOK, OrderRow, PaymentRow, RefundRow, CallRow, JobRow
<1>11. Money'
  <2> SUFFICES ASSUME NEW q \in Payment
               PROVE  /\ payments'[q].refunded <= payments'[q].amount
                      /\ payments'[q].amount <= order'.total
                      /\ payments'[q].status \in Unpaid => payments'[q].refunded = 0 /\ ~payments'[q].settled
                      /\ intent'[q].amount = payments'[q].amount
                      /\ payments'[q].status = "none" <=> intent'[q].state = "none"
    BY DEF Money
  <2>1. CASE q = p
    BY <1>0, <1>7, <1>8, <1>9, <2>1 DEF Books, Money
  <2>2. CASE q # p
    BY <1>7, <1>8, <2>2 DEF Books, Money
  <2> QED
    BY <2>1, <2>2
<1>12. \A q \in Payment : payments[q].status # "none" => payments'[q].status # "none"
  BY <1>7, <1>9
<1>13. EventsKnown'
  <2>1. \A e \in events : e.payment \in Payment
    <3>1. \A e \in Event : e.payment \in Payment
      BY DEF Event
    <3> QED
      BY <3>1, Rows
  <2>2. \A i \in DOMAIN given : PaymentOf(given[i].id) \in Payment
    <3>1. \A i \in DOMAIN given : given[i] \in Given
      BY Rows
    <3> QED
      BY <3>1 DEF Given, RefundId, PaymentOf
  <2> QED
    BY <1>12, <2>1, <2>2 DEF Books, EventsKnown
<1>14. RowsKnown'
  <2>1. rows' = s.rows
    BY DEF Absorb
  <2>2. \A r \in rows : PaymentOf(r.id) \in Payment
    BY Rows DEF RefundRow, RefundId, PaymentOf
  <2>3. \A r \in s.rows : payments'[PaymentOf(r.id)].status # "none"
    <3> TAKE r \in s.rows
    <3>1. CASE PaymentOf(r.id) = p
      BY <1>7, <1>9, <3>1
    <3>2. CASE \E q \in rows : q.id = r.id
      BY <1>12, <2>2, <3>2 DEF Books, RowsKnown
    <3> QED
      BY <3>1, <3>2 DEF Grown
  <2> QED
    BY <2>1, <2>3 DEF RowsKnown, Grown
<1>15. CallFits'
  BY <1>0, <1>7 DEF Books, CallFits
<1>16. TriesFit'
  <2> SUFFICES ASSUME NEW q \in Payment
               PROVE  /\ orphan'[q].state = "queued" /\ ~(\E r \in rows' : r.id = <<"orphan", q>> /\ r.api)
                           => orphan'[q].tries < MaxTries
                      /\ payments'[q].status \in Unpaid =>
                           orphan'[q].state = "none" /\ orphan'[q].tries = 0
    BY DEF TriesFit, Replayed
  <2>1. orphan' = orphan /\ rows' = s.rows
    BY DEF Absorb
  <2>2. payments'[q].status \in Unpaid => payments[q].status \in Unpaid
    BY <1>7, <1>9
  <2>3. (\E r \in rows : r.id = <<"orphan", q>> /\ r.api)
          => \E r \in s.rows : r.id = <<"orphan", q>> /\ r.api
    BY DEF Grown
  <2> QED
    BY <2>1, <2>2, <2>3 DEF Books, TriesFit, Replayed
<1> QED
  BY <1>10, <1>11, <1>13, <1>14, <1>15, <1>16, <1>8 DEF Books

LEMMA EventRefund ==
  ASSUME Books, NEW e \in events, e.type = "refund.updated"
  PROVE  /\ e.refund \in Snapshot /\ PaymentOf(e.refund.id) = e.payment
         /\ payments[e.payment].status # "none"
<1>1. e \in Event
  BY Rows
<1>2. e.refund \in Snapshot
  BY <1>1 DEF Event
<1> QED
  BY <1>2 DEF Books, EventsKnown, SnapshotsOf

LEMMA EventCharge ==
  ASSUME Books, NEW e \in events, e.type = "charge.refunded"
  PROVE  /\ e.list \in Seq(Snapshot) /\ e.refunded \in 0..MaxAmount
         /\ \A i \in 1..Len(e.list) : e.list[i] \in Snapshot /\ PaymentOf(e.list[i].id) = e.payment
         /\ payments[e.payment].status # "none"
<1>1. e \in Event
  BY Rows
<1>2. e.list \in Seq(Snapshot) /\ e.refunded \in 0..MaxAmount
  BY <1>1 DEF Event
<1>3. \A i \in 1..Len(e.list) : e.list[i] \in Snapshot /\ e.list[i] \in SnapshotsOf(e)
  BY <1>2 DEF SnapshotsOf
<1> QED
  BY <1>2, <1>3 DEF Books, EventsKnown

LEMMA RefundUpdatedBooks ==
  ASSUME Books, NEW p \in Payment, NEW e \in events, RefundUpdated(p, e) PROVE Books'
<1>1. e.type = "refund.updated" /\ e.payment = p /\ Free(p)
  BY DEF RefundUpdated
<1>2. PICK s : s = ApplyProviderRefund(payments[p].amount, Before(p), e.refund)
  OBVIOUS
<1>3. /\ s \in Sofar(payments[p].amount) /\ Grown(p, rows, s.rows)
      /\ s.touched \/ s.refunded = payments[p].refunded
  BY <1>1, <1>2, EventRefund, BeforeFacts, ApplyCases, ApplyGrows
<1>4. Absorb(p, s) /\ UNCHANGED <<intent, given, events, diffs, calling, orphan, expiry, due>>
  BY <1>2 DEF RefundUpdated
<1>5. diffs' \in [Payment -> SUBSET [at: 1..MaxAmount, amount: 1..MaxAmount]] /\ DiffsFinite'
  BY <1>4, Rows DEF Books, DiffsFinite
<1>6. payments[p].status # "none"
  BY <1>1, EventRefund
<1> QED
  BY <1>1, <1>3, <1>4, <1>5, <1>6, AbsorbBooks

(* What the refunds of a charge, one after the other, make of a payment.    *)
LEMMA ApplyAllFacts ==
  ASSUME Books, NEW p \in Payment, NEW e \in events, e.type = "charge.refunded", e.payment = p
  PROVE  LET s == ApplyAll(payments[p].amount, Before(p), e.list)
         IN  /\ s \in Sofar(payments[p].amount) /\ Grown(p, rows, s.rows)
             /\ s.touched \/ s.refunded = payments[p].refunded
<1> DEFINE amount == payments[p].amount
           G == {t \in Sofar(amount) : /\ Grown(p, rows, t.rows)
                                       /\ t.touched \/ t.refunded = payments[p].refunded}
<1>1. Before(p) \in G
  BY BeforeFacts, GrownSame
<1>2. ASSUME NEW t \in G, NEW n \in 1..Len(e.list)
      PROVE  ApplyProviderRefund(amount, t, e.list[n]) \in G
  <2>1. t \in Sofar(amount) /\ Grown(p, rows, t.rows) /\ (t.touched \/ t.refunded = payments[p].refunded)
    OBVIOUS
  <2>2. PICK a : a = amount /\ a \in 0..MaxAmount
    BY BeforeFacts
  <2>3. PICK re \in Snapshot : re = e.list[n] /\ PaymentOf(re.id) = p
    BY EventCharge
  <2>4. IsFiniteSet(t.rows) /\ OneRowEach(t.rows)
    BY <2>1 DEF Grown
  <2>5. PICK u : u = ApplyProviderRefund(a, t, re)
    OBVIOUS
  <2>6. u \in Sofar(a)
    BY <2>1, <2>2, <2>5, ApplyCases
  <2>7. Grown(p, t.rows, u.rows) /\ (t.touched => u.touched) /\ (u.touched \/ u.refunded = t.refunded)
    BY <2>1, <2>2, <2>3, <2>4, <2>5, ApplyGrows
  <2>8. Grown(p, rows, u.rows)
    BY <2>1, <2>7, GrownTwice
  <2> QED
    BY <2>1, <2>2, <2>3, <2>5, <2>6, <2>7, <2>8
<1>3. Len(e.list) \in Nat
  BY EventCharge
<1>4. ApplyAll(amount, Before(p), e.list) \in G
  <2> HIDE DEF G, amount
  <2> QED
    BY <1>1, <1>2, <1>3, ApplyAllInduction
<1> QED
  BY <1>4

LEMMA PendingGrows ==
  ASSUME NEW p, NEW rs, rs \in SUBSET RefundRow, IsFiniteSet(rs), OneRowEach(rs)
  PROVE  PendingSucceed(p, rs) \in SUBSET RefundRow /\ Grown(p, rs, PendingSucceed(p, rs))
<1> DEFINE new(r) == IF r.status = "pending" /\ PaymentOf(r.id) = p
                     THEN [r EXCEPT !.status = "succeeded"] ELSE r
<1>1. \A r \in rs : new(r) \in RefundRow /\ new(r).id = r.id /\ new(r).api = r.api
  <2> TAKE r \in rs
  <2>1. r \in RefundRow
    OBVIOUS
  <2>2. [r EXCEPT !.status = "succeeded"] \in RefundRow
    BY <2>1 DEF RefundRow, RefundState
  <2>3. [r EXCEPT !.status = "succeeded"].id = r.id /\ [r EXCEPT !.status = "succeeded"].api = r.api
    BY <2>1 DEF RefundRow
  <2> QED
    BY <2>1, <2>2, <2>3
<1>2. PendingSucceed(p, rs) = {new(r) : r \in rs}
  BY DEF PendingSucceed
<1> HIDE DEF new
<1>3. IsFiniteSet({new(r) : r \in rs})
  <2> DEFINE f == [r \in rs |-> new(r)]
  <2>1. {f[r] : r \in rs} = {new(r) : r \in rs}
    OBVIOUS
  <2> HIDE DEF f
  <2> QED
    BY <2>1, FiniteImage
<1> QED
  BY <1>1, <1>2, <1>3 DEF Grown, OneRowEach

(* A charge event makes a payment's refunds what the charge says of them.   *)
LEMMA ChargeRefundedBooks ==
  ASSUME Books, NEW p \in Payment, NEW e \in events, ChargeRefunded(p, e) PROVE Books'
<1>1. e.type = "charge.refunded" /\ e.payment = p /\ Free(p)
  BY DEF ChargeRefunded
<1>2. PICK amount : amount = payments[p].amount
  OBVIOUS
<1>3. PICK s : s = ApplyAll(amount, Before(p), e.list)
  OBVIOUS
<1>4. /\ s \in Sofar(amount) /\ Grown(p, rows, s.rows)
      /\ s.touched \/ s.refunded = payments[p].refunded
  BY <1>1, <1>2, <1>3, ApplyAllFacts
<1>5. /\ amount \in 0..MaxAmount /\ MaxAmount \in Nat /\ e.refunded \in 0..MaxAmount
      /\ s.rows \in SUBSET RefundRow /\ s.refunded \in 0..amount /\ s.touched \in BOOLEAN
      /\ s.told \in {Untold} \cup 1..amount
  BY <1>1, <1>2, <1>4, BeforeFacts, EventCharge, Rows DEF Sofar
<1>6. PICK diff : diff = Fewer(e.refunded, amount) - s.refunded
  OBVIOUS
<1>7. PICK more \in BOOLEAN : more = (diff > 0 /\ \A d \in diffs[p] : d.at # e.refunded)
  OBVIOUS
<1>8. more => diff \in 1..MaxAmount /\ e.refunded \in 1..MaxAmount /\ s.refunded + diff \in 1..amount
  <2> SUFFICES ASSUME more
               PROVE diff \in 1..MaxAmount /\ e.refunded \in 1..MaxAmount /\ s.refunded + diff \in 1..amount
    OBVIOUS
  <2>1. diff > 0
    BY <1>7
  <2> QED
    BY <1>5, <1>6, <2>1 DEF Fewer
<1>9. PICK rs : rs = IF e.list = <<>> THEN PendingSucceed(p, s.rows) ELSE s.rows
  OBVIOUS
<1>10. rs \in SUBSET RefundRow /\ Grown(p, rows, rs)
  <2>1. IsFiniteSet(s.rows) /\ OneRowEach(s.rows)
    BY <1>4 DEF Grown
  <2>2. /\ PendingSucceed(p, s.rows) \in SUBSET RefundRow
        /\ Grown(p, s.rows, PendingSucceed(p, s.rows))
    BY <1>5, <2>1, PendingGrows
  <2>3. Grown(p, rows, PendingSucceed(p, s.rows))
    BY <1>4, <2>2, GrownTwice
  <2> QED
    BY <1>4, <1>5, <1>9, <2>2, <2>3
<1>11. PICK refunded : refunded = s.refunded + (IF more THEN diff ELSE 0)
  OBVIOUS
<1>12. PICK touched \in BOOLEAN : touched = (s.touched \/ more)
  OBVIOUS
<1>13. PICK told : told = IF more THEN s.refunded + diff ELSE s.told
  OBVIOUS
<1>14. /\ refunded \in 0..amount /\ told \in {Untold} \cup 1..amount
       /\ touched \/ refunded = payments[p].refunded
  <2>1. CASE more
    <3>1. refunded = s.refunded + diff /\ told = s.refunded + diff
      BY <1>11, <1>13, <2>1
    <3>2. touched
      BY <1>12, <2>1, Zenon
    <3> QED
      BY <1>5, <1>8, <2>1, <3>1, <3>2
  <2>2. CASE ~more
    <3>1. refunded = s.refunded /\ told = s.told
      BY <1>5, <1>11, <1>13, <2>2
    <3>2. touched \/ refunded = payments[p].refunded
      BY <1>4, <1>12, <3>1
    <3> QED
      BY <1>5, <3>1, <3>2
  <2> QED
    BY <2>1, <2>2
<1>15. PICK t : t = [rows |-> rs, refunded |-> refunded, touched |-> touched, told |-> told]
  OBVIOUS
<1>16. t \in Sofar(amount)
  BY <1>10, <1>14, <1>15 DEF Sofar
<1>17. t.rows = rs /\ t.refunded = refunded /\ t.touched = touched
  BY <1>15
<1>18. /\ Absorb(p, t)
       /\ UNCHANGED <<intent, given, events, calling, orphan, expiry, due>>
       /\ diffs' = IF more THEN [diffs EXCEPT ![p] = @ \cup {[at |-> e.refunded, amount |-> diff]}]
                   ELSE diffs
  BY <1>2, <1>3, <1>6, <1>7, <1>9, <1>11, <1>12, <1>13, <1>15 DEF ChargeRefunded
<1>19. diffs' \in [Payment -> SUBSET [at: 1..MaxAmount, amount: 1..MaxAmount]] /\ DiffsFinite'
  <2>1. CASE more
    <3>1. PICK d \in [at: 1..MaxAmount, amount: 1..MaxAmount] : d = [at |-> e.refunded, amount |-> diff]
      BY <1>8, <2>1
    <3>2. diffs' = [diffs EXCEPT ![p] = @ \cup {d}]
      BY <1>18, <2>1, <3>1
    <3>3. IsFiniteSet(diffs[p] \cup {d})
      BY FS_AddElement DEF Books, DiffsFinite
    <3> QED
      BY <3>2, <3>3, Rows DEF Books, DiffsFinite
  <2>2. CASE ~more
    BY <1>18, <2>2, Rows DEF Books, DiffsFinite
  <2> QED
    BY <2>1, <2>2
<1>20. Grown(p, rows, t.rows) /\ (t.touched \/ t.refunded = payments[p].refunded)
  BY <1>10, <1>14, <1>17
<1>21. payments[p].status # "none"
  BY <1>1, EventCharge
<1> QED
  BY <1>1, <1>2, <1>16, <1>18, <1>19, <1>20, <1>21, AbsorbBooks

-----------------------------------------------------------------------------
(* Refunds through the API.                                                 *)

LEMMA CallRowIs ==
  ASSUME Books, NEW p \in Payment, NEW by \in Caller, NEW amount \in Int,
         CallProvider(by, p, amount)
  PROVE  /\ amount \in 1..MaxAmount
         /\ payments[p].refunded + amount <= payments[p].amount
         /\ payments[p].status \in {"succeeded", "partially_refunded"}
         /\ Free(p) /\ ~Replayed(<<by, p>>)
         /\ UNCHANGED intent
<1>1. /\ payments[p].status \in {"succeeded", "partially_refunded"}
      /\ amount > 0 /\ payments[p].refunded + amount <= payments[p].amount
      /\ Free(p) /\ ~Replayed(<<by, p>>)
  BY DEF CallProvider, Refundable
<1>2. payments[p].amount \in 0..MaxAmount /\ payments[p].refunded \in 0..MaxAmount /\ MaxAmount \in Nat
  BY Rows DEF PaymentRow
<1>3. amount \in 1..MaxAmount
  BY <1>1, <1>2
<1>4. UNCHANGED intent
  BY DEF CallProvider, provider
<1> QED
  BY <1>1, <1>3, <1>4

LEMMA CallMade ==
  ASSUME Books, NEW p \in Payment, NEW by \in Caller, NEW amount \in Int,
         CallProvider(by, p, amount)
  PROVE  \E c \in CallRow : /\ c.by = by /\ c.amount = amount
                            /\ calling' = [calling EXCEPT ![p] = c]
<1>1. PICK state \in RefundState :
        calling' = [calling EXCEPT ![p] = [by |-> by, amount |-> amount, status |-> state]]
  <2>1. Starts \subseteq RefundState
    BY ProviderAssumption DEF RefundState
  <2>2. \A i \in DOMAIN given : given[i].first \in Starts
    <3>1. \A i \in DOMAIN given : given[i] \in Given
      BY Rows
    <3> QED
      BY <3>1 DEF Given
  <2> QED
    BY <2>1, <2>2 DEF CallProvider
<1>2. amount \in 1..MaxAmount
  BY CallRowIs
<1>3. PICK c \in CallRow : c = [by |-> by, amount |-> amount, status |-> state]
  BY <1>2 DEF CallRow
<1>4. calling' = [calling EXCEPT ![p] = c] /\ c.by = by /\ c.amount = amount
  BY <1>1, <1>3
<1> QED
  BY <1>4

(* The call itself changes the provider and locks the payment.              *)
LEMMA CallBooks ==
  ASSUME Books, NEW p \in Payment, NEW by \in Caller, NEW amount \in Int,
         CallProvider(by, p, amount),
         UNCHANGED <<order, payments, rows, diffs, expiry, due>>,
         orphan' \in [Payment -> JobRow],
         \A q \in Payment : q # p => orphan'[q] = orphan[q],
         orphan' = orphan \/ orphan'[p].state = "running"
  PROVE  Books'
<1>1. PICK c \in CallRow : c.by = by /\ c.amount = amount /\ calling' = [calling EXCEPT ![p] = c]
  BY CallMade
<1>2. /\ payments[p].refunded + amount <= payments[p].amount
      /\ payments[p].status \in {"succeeded", "partially_refunded"}
      /\ UNCHANGED intent
  BY CallRowIs
<1>3. /\ given' \in Seq(Given) /\ events' \subseteq Event
      /\ \A e \in events' : /\ payments[e.payment].status # "none"
                            /\ \A s \in SnapshotsOf(e) : PaymentOf(s.id) = e.payment
      /\ \A i \in DOMAIN given' : payments[PaymentOf(given'[i].id)].status # "none"
  <2>1. CASE UNCHANGED provider
    <3>1. given' = given /\ events' = events
      BY <2>1 DEF provider
    <3> QED
      BY <3>1, Rows DEF Books, EventsKnown
  <2>2. CASE \E state \in Starts, listed \in ListModes : Give(<<by, p>>, amount, state, listed)
    <3>1. <<by, p>> \in RefundId /\ amount \in 1..MaxAmount
      BY CallRowIs DEF RefundId
    <3> QED
      BY <2>2, <3>1, GiveBooks
  <2> QED
    BY <2>1, <2>2 DEF CallProvider
<1>4. TypeOK'
  <2>1. ProviderTypeOK'
    BY <1>2, <1>3, Rows DEF ProviderTypeOK, IntentRow
  <2>2. calling' \in [Payment -> CallRow \cup {NoCall}]
    BY <1>1, Rows
  <2>3. /\ rows' \in SUBSET RefundRow /\ order' \in OrderRow /\ payments' \in [Payment -> PaymentRow]
        /\ diffs' \in [Payment -> SUBSET [at: 1..MaxAmount, amount: 1..MaxAmount]]
        /\ expiry' \in {"none", "queued", "cancelled", "done"} /\ due' \in BOOLEAN
    BY Rows, TypeHas
  <2> QED
    BY <2>1, <2>2, <2>3 DEF TypeOK, OrderRow, PaymentRow, RefundRow, CallRow, JobRow
<1>5. Money'
  BY <1>2 DEF Books, Money
<1>6. EventsKnown'
  BY <1>3 DEF EventsKnown
<1>7. RowsKnown' /\ DiffsFinite'
  BY DEF Books, RowsKnown, DiffsFinite
<1>8. CallFits'
  <2>1. calling'[p] = c /\ \A q \in Payment : q # p => calling'[q] = calling[q]
    BY <1>1, Rows
  <2> QED
    BY <1>1, <1>2, <2>1 DEF Books, CallFits
<1>9. TriesFit'
  <2> SUFFICES ASSUME NEW q \in Payment
               PROVE  /\ orphan'[q].state = "queued" /\ ~Replayed(<<"orphan", q>>)
                           => orphan'[q].tries < MaxTries
                      /\ payments[q].status \in Unpaid =>
                           orphan'[q].state = "none" /\ orphan'[q].tries = 0
    BY DEF TriesFit, Replayed
  <2>1. CASE q # p \/ orphan' = orphan
    <3>1. orphan'[q] = orphan[q]
      BY <2>1
    <3> QED
      BY <3>1 DEF Books, TriesFit
  <2>2. CASE q = p /\ orphan'[p].state = "running"
    BY <1>2, <2>2 DEF Unpaid
  <2> QED
    BY <2>1, <2>2
<1> QED
  BY <1>4, <1>5, <1>6, <1>7, <1>8, <1>9 DEF Books

LEMMA RefundRequestBooks ==
  ASSUME Books, NEW by, NEW p \in Payment, NEW amount \in 1..MaxAmount,
         RefundRequest(by, p, amount)
  PROVE  Books'
<1>1. by \in Caller /\ amount \in Int
  BY DEF RefundRequest, Desk
<1>2. /\ orphan' \in [Payment -> JobRow] /\ orphan' = orphan
      /\ \A q \in Payment : q # p => orphan'[q] = orphan[q]
  BY Rows DEF RefundRequest
<1> QED
  BY <1>1, <1>2, CallBooks DEF RefundRequest

(* A step of the refund jobs that calls nobody.                             *)
LEMMA JobBooks ==
  ASSUME Books, NEW p \in Payment, NEW job \in JobRow, orphan' = [orphan EXCEPT ![p] = job],
         job.state = "queued" /\ ~Replayed(<<"orphan", p>>) => job.tries < MaxTries,
         payments[p].status \notin Unpaid,
         calling' = calling \/ calling' = [calling EXCEPT ![p] = NoCall],
         UNCHANGED <<provider, order, payments, rows, diffs, expiry, due>>
  PROVE  Books'
<1>1. /\ calling' \in [Payment -> CallRow \cup {NoCall}]
      /\ \A q \in Payment : calling'[q] = calling[q] \/ calling'[q] = NoCall
  BY Rows
<1>2. /\ orphan' \in [Payment -> JobRow] /\ orphan'[p] = job
      /\ \A q \in Payment : q # p => orphan'[q] = orphan[q]
  BY Rows
<1>3. TypeOK'
  <2>1. ProviderTypeOK'
    BY TypeHas DEF ProviderTypeOK, provider
  <2>2. /\ rows' \in SUBSET RefundRow /\ order' \in OrderRow /\ payments' \in [Payment -> PaymentRow]
        /\ diffs' \in [Payment -> SUBSET [at: 1..MaxAmount, amount: 1..MaxAmount]]
        /\ expiry' \in {"none", "queued", "cancelled", "done"} /\ due' \in BOOLEAN
    BY Rows, TypeHas
  <2> QED
    BY <1>1, <1>2, <2>1, <2>2 DEF TypeOK, OrderRow, PaymentRow, RefundRow, CallRow, JobRow
<1>4. Money' /\ EventsKnown' /\ RowsKnown' /\ DiffsFinite'
  BY DEF Books, Money, EventsKnown, RowsKnown, DiffsFinite, provider
<1>5. CallFits'
  BY <1>1 DEF Books, CallFits
<1>6. TriesFit'
  <2> SUFFICES ASSUME NEW q \in Payment
               PROVE  /\ orphan'[q].state = "queued" /\ ~Replayed(<<"orphan", q>>)
                           => orphan'[q].tries < MaxTries
                      /\ payments[q].status \in Unpaid =>
                           orphan'[q].state = "none" /\ orphan'[q].tries = 0
    BY DEF TriesFit, Replayed
  <2>1. CASE q = p
    BY <1>2, <2>1
  <2>2. CASE q # p
    BY <1>2, <2>2 DEF Books, TriesFit
  <2> QED
    BY <2>1, <2>2
<1> QED
  BY <1>3, <1>4, <1>5, <1>6 DEF Books

LEMMA FailureRow ==
  ASSUME NEW job \in JobRow, MaxTries \in Nat
  PROVE  /\ AfterFailure(job) \in JobRow /\ AfterFailure(job).tries = job.tries
         /\ AfterFailure(job).state = "queued" => job.tries < MaxTries
<1>1. PICK state : state = IF job.tries = MaxTries THEN "dead" ELSE "queued"
  OBVIOUS
<1>2. AfterFailure(job) = [job EXCEPT !.state = state]
  BY <1>1 DEF AfterFailure
<1>3. AfterFailure(job) \in JobRow /\ AfterFailure(job).tries = job.tries
      /\ AfterFailure(job).state = state
  BY <1>1, <1>2 DEF JobRow
<1>4. job.tries \in 0..MaxTries
  BY DEF JobRow
<1> QED
  BY <1>1, <1>3, <1>4

LEMMA TriedRow ==
  ASSUME Books, NEW p \in Payment, orphan[p].state = "queued", ~Replayed(<<"orphan", p>>)
  PROVE  Tried(orphan[p]) \in JobRow
<1>1. orphan[p] \in JobRow /\ orphan[p].tries < MaxTries /\ MaxTries \in Nat
  BY Rows DEF Books, TriesFit
<1>2. orphan[p].tries + 1 \in 0..MaxTries
  BY <1>1 DEF JobRow
<1> QED
  BY <1>1, <1>2 DEF Tried, JobRow

LEMMA RunOrphanBooks == ASSUME Books, NEW p \in Payment, RunOrphan(p) PROVE Books'
<1>1. CASE StartOrphan(p)
  <2>1. payments[p].amount \in Int /\ "orphan" \in Caller
    BY Rows, OrderAssumption DEF PaymentRow
  <2>2. CallProvider("orphan", p, payments[p].amount) /\ orphan[p].state = "queued"
    BY <1>1 DEF StartOrphan
  <2>3. ~Replayed(<<"orphan", p>>)
    BY <2>2 DEF CallProvider
  <2>4. PICK job \in JobRow : job = [Tried(orphan[p]) EXCEPT !.state = "running"]
    <3>1. Tried(orphan[p]) \in JobRow
      BY <2>2, <2>3, TriedRow
    <3>2. [Tried(orphan[p]) EXCEPT !.state = "running"] \in JobRow
      BY <3>1 DEF JobRow
    <3> QED
      BY <3>2
  <2>5. job.state = "running"
    BY <2>4, <2>2, <2>3, TriedRow DEF JobRow
  <2>6. orphan' = [orphan EXCEPT ![p] = job]
    BY <1>1, <2>4 DEF StartOrphan
  <2>7. /\ orphan' \in [Payment -> JobRow] /\ orphan'[p].state = "running"
        /\ \A q \in Payment : q # p => orphan'[q] = orphan[q]
    BY <2>5, <2>6, Rows
  <2>8. UNCHANGED <<order, payments, rows, diffs, expiry, due>>
    BY <1>1 DEF StartOrphan
  <2> QED
    BY <2>1, <2>2, <2>7, <2>8, CallBooks
<1>2. CASE OrphanEndsAtOnce(p)
  <2>1. orphan[p].state = "queued" /\ orphan[p] \in JobRow /\ MaxTries \in Nat
    BY <1>2, Rows DEF OrphanEndsAtOnce
  <2>2. payments[p].status \notin Unpaid
    BY <2>1 DEF Books, TriesFit
  <2>3. UNCHANGED <<provider, order, payments, rows, diffs, calling, expiry, due>>
    BY <1>2 DEF OrphanEndsAtOnce
  <2>4. CASE orphan' = [orphan EXCEPT ![p].state = "done"]
    <3>1. PICK job : job = [orphan[p] EXCEPT !.state = "done"]
      OBVIOUS
    <3>2. job \in JobRow /\ job.state # "queued"
      BY <2>1, <3>1 DEF JobRow
    <3>3. orphan' = [orphan EXCEPT ![p] = job]
      BY <2>4, <3>1
    <3> QED
      BY <2>2, <2>3, <3>2, <3>3, JobBooks
  <2>5. CASE ~Replayed(<<"orphan", p>>) /\ orphan' = [orphan EXCEPT ![p] = AfterFailure(Tried(@))]
    <3>1. PICK job : job = AfterFailure(Tried(orphan[p]))
      OBVIOUS
    <3>2. job \in JobRow /\ (job.state = "queued" => job.tries < MaxTries)
      <4>1. PICK tried \in JobRow : tried = Tried(orphan[p])
        BY <2>1, <2>5, TriedRow
      <4>2. /\ AfterFailure(tried) \in JobRow /\ AfterFailure(tried).tries = tried.tries
            /\ AfterFailure(tried).state = "queued" => tried.tries < MaxTries
        BY <2>1, FailureRow
      <4>3. job = AfterFailure(tried)
        BY <3>1, <4>1
      <4> QED
        BY <4>2, <4>3
    <3>3. orphan' = [orphan EXCEPT ![p] = job]
      BY <2>5, <3>1
    <3> QED
      BY <2>2, <2>3, <3>2, <3>3, JobBooks
  <2> QED
    BY <1>2, <2>4, <2>5 DEF OrphanEndsAtOnce
<1> QED
  BY <1>1, <1>2 DEF RunOrphan

LEMMA RollbackBooks == ASSUME Books, NEW p \in Payment, RollbackRefund(p) PROVE Books'
<1>1. orphan[p] \in JobRow /\ MaxTries \in Nat
  BY Rows
<1>2. payments[p].status \in {"succeeded", "partially_refunded"}
  BY DEF RollbackRefund, Free, Books, CallFits
<1>3. payments[p].status \notin Unpaid
  BY <1>2 DEF Unpaid
<1>4. /\ UNCHANGED <<provider, order, payments, rows, diffs, expiry, due>>
      /\ calling' = [calling EXCEPT ![p] = NoCall]
  BY DEF RollbackRefund
<1>5. CASE orphan' = [orphan EXCEPT ![p] = AfterFailure(@)]
  <2>1. PICK job : job = AfterFailure(orphan[p])
    OBVIOUS
  <2>2. job \in JobRow /\ (job.state = "queued" => job.tries < MaxTries)
    BY <1>1, <2>1, FailureRow
  <2>3. orphan' = [orphan EXCEPT ![p] = job]
    BY <1>5, <2>1
  <2> QED
    BY <1>3, <1>4, <2>2, <2>3, JobBooks
<1>6. CASE orphan' = orphan
  <2>1. PICK job \in JobRow : job = orphan[p]
    BY <1>1
  <2>2. orphan' = [orphan EXCEPT ![p] = job]
    BY <1>6, <2>1, Rows
  <2>3. job.state = "queued" /\ ~Replayed(<<"orphan", p>>) => job.tries < MaxTries
    BY <2>1 DEF Books, TriesFit
  <2> QED
    BY <1>3, <1>4, <2>2, <2>3, JobBooks
<1> QED
  BY <1>5, <1>6 DEF RollbackRefund

(* A refund that is committed: the row, the payment, and who waited for it. *)
LEMMA CommitFacts ==
  ASSUME Books, NEW p \in Payment, CommitRefund(p)
  PROVE  /\ calling[p] \in CallRow
         /\ payments[p].status \in {"succeeded", "partially_refunded"}
         /\ payments[p].refunded + calling[p].amount \in 1..payments[p].amount
         /\ payments[p].refunded \in Nat /\ payments[p].amount \in 0..MaxAmount
         /\ \E row \in RefundRow :
              /\ row.id = <<calling[p].by, p>> /\ row.amount = calling[p].amount
              /\ row.status = calling[p].status /\ row.api
              /\ rows' = rows \cup {row} /\ \A r \in rows : r.id # row.id
         /\ \E row \in PaymentRow :
              /\ row.status \in {"refunded", "partially_refunded"}
              /\ row.amount = payments[p].amount /\ row.settled = payments[p].settled
              /\ row.refunded = payments[p].refunded + calling[p].amount
              /\ payments' = [payments EXCEPT ![p] = row]
<1>1. calling[p] \in CallRow /\ calling[p] # NoCall
  BY Rows DEF CommitRefund, Free
<1>2. payments[p] \in PaymentRow /\ MaxAmount \in Nat
  BY Rows
<1>3. /\ payments[p].status \in {"succeeded", "partially_refunded"}
      /\ payments[p].refunded + calling[p].amount <= payments[p].amount
  BY <1>1 DEF Books, CallFits
<1>4. PICK refunded : refunded = payments[p].refunded + calling[p].amount
  OBVIOUS
<1>5. /\ payments[p].refunded \in 0..MaxAmount /\ payments[p].amount \in 0..MaxAmount
      /\ calling[p].amount \in 1..MaxAmount
  BY <1>1, <1>2 DEF PaymentRow, CallRow
<1>6. refunded \in 1..payments[p].amount
  BY <1>2, <1>3, <1>4, <1>5
<1>7. \E row \in RefundRow :
        /\ row.id = <<calling[p].by, p>> /\ row.amount = calling[p].amount
        /\ row.status = calling[p].status /\ row.api
        /\ rows' = rows \cup {row} /\ \A r \in rows : r.id # row.id
  <2>1. PICK row : row = [id |-> <<calling[p].by, p>>, amount |-> calling[p].amount,
                          status |-> calling[p].status, api |-> TRUE]
    OBVIOUS
  <2>2. row \in RefundRow
    BY <1>1, <2>1 DEF RefundRow, CallRow, RefundId
  <2>3. rows' = rows \cup {row} /\ RowsOf(<<calling[p].by, p>>) = {}
    BY <2>1 DEF CommitRefund
  <2>4. \A r \in rows : r.id # <<calling[p].by, p>>
    BY <2>3 DEF RowsOf
  <2> QED
    BY <2>1, <2>2, <2>3, <2>4
<1>8. \E row \in PaymentRow :
        /\ row.status \in {"refunded", "partially_refunded"}
        /\ row.amount = payments[p].amount /\ row.settled = payments[p].settled
        /\ row.refunded = refunded
        /\ payments' = [payments EXCEPT ![p] = row]
  <2>1. PICK status : status = StatusOf(payments[p].amount, refunded)
    OBVIOUS
  <2>2. status \in {"refunded", "partially_refunded"}
    BY <1>6, <2>1 DEF StatusOf
  <2>3. payments' = [payments EXCEPT ![p].refunded = refunded, ![p].status = status]
    BY <1>4, <2>1 DEF CommitRefund
  <2>4. PICK row : row = [payments[p] EXCEPT !.refunded = refunded, !.status = status]
    OBVIOUS
  <2>5. payments' = [payments EXCEPT ![p] = row]
    BY <2>3, <2>4, Rows
  <2>6. /\ row \in PaymentRow /\ row.status = status /\ row.amount = payments[p].amount
        /\ row.settled = payments[p].settled /\ row.refunded = refunded
    <3>1. refunded \in 0..MaxAmount
      BY <1>2, <1>5, <1>6
    <3> QED
      BY <1>2, <2>2, <2>4, <3>1 DEF PaymentRow, Active
  <2> QED
    BY <2>2, <2>5, <2>6
<1>9. \E row \in PaymentRow :
        /\ row.status \in {"refunded", "partially_refunded"}
        /\ row.amount = payments[p].amount /\ row.settled = payments[p].settled
        /\ row.refunded = payments[p].refunded + calling[p].amount
        /\ payments' = [payments EXCEPT ![p] = row]
  BY <1>4, <1>8
<1>10. /\ payments[p].refunded + calling[p].amount \in 1..payments[p].amount
       /\ payments[p].refunded \in Nat /\ payments[p].amount \in 0..MaxAmount
  BY <1>2, <1>4, <1>5, <1>6
<1> QED
  BY <1>1, <1>3, <1>7, <1>9, <1>10

LEMMA CommitBooks == ASSUME Books, NEW p \in Payment, CommitRefund(p) PROVE Books'
<1>1. PICK c \in CallRow : c = calling[p]
  BY CommitFacts
<1>2. PICK refunded : refunded = payments[p].refunded + c.amount
  OBVIOUS
<1>3. PICK new \in PaymentRow :
        /\ new.status \in {"refunded", "partially_refunded"}
        /\ new.amount = payments[p].amount /\ new.settled = payments[p].settled
        /\ new.refunded = refunded
        /\ payments' = [payments EXCEPT ![p] = new]
  BY <1>1, <1>2, CommitFacts
<1>6. PICK status \in {"refunded", "partially_refunded"} : status = new.status
  BY <1>3
<1>4. PICK row \in RefundRow : /\ row.id = <<c.by, p>> /\ row.api
                               /\ rows' = rows \cup {row} /\ \A r \in rows : r.id # row.id
  BY <1>1, CommitFacts
<1>5. /\ refunded \in 1..payments[p].amount /\ payments[p].amount \in 0..MaxAmount
      /\ MaxAmount \in Nat /\ payments[p] \in PaymentRow
      /\ payments[p].status \in {"succeeded", "partially_refunded"}
  BY <1>1, <1>2, CommitFacts, Rows
<1>7. payments' \in [Payment -> PaymentRow]
  BY <1>3, Rows
<1>8. /\ payments'[p].status = status /\ payments'[p].amount = payments[p].amount
      /\ payments'[p].refunded = refunded /\ payments'[p].settled = payments[p].settled
      /\ \A q \in Payment : q # p => payments'[q] = payments[q]
  BY <1>3, <1>6, Rows
<1>9. order' \in OrderRow /\ order'.total = order.total
  <2>1. order \in OrderRow /\ order.total \in 0..MaxAmount
    BY Rows DEF OrderRow
  <2>2. CASE order' = Cancelled(order.total)
    BY <2>1, <2>2, CancelledRow
  <2>3. CASE order' = [order EXCEPT !.refunded = refunded]
    <3>1. refunded \in 0..MaxAmount
      BY <1>5
    <3> QED
      BY <2>1, <2>3, <3>1 DEF OrderRow
  <2>4. CASE order' = order
    BY <2>1, <2>4
  <2> QED
    BY <1>1, <1>2, <2>2, <2>3, <2>4 DEF CommitRefund
<1>10. expiry' \in {"none", "queued", "cancelled", "done"}
  BY TypeHas DEF CommitRefund, CancelExpiry
<1>11. UNCHANGED <<provider, diffs, due>> /\ calling' = [calling EXCEPT ![p] = NoCall]
  BY DEF CommitRefund
<1>12. /\ calling' \in [Payment -> CallRow \cup {NoCall}] /\ calling'[p] = NoCall
       /\ \A q \in Payment : q # p => calling'[q] = calling[q]
  BY <1>11, Rows
<1>13. /\ orphan' \in [Payment -> JobRow]
       /\ orphan'[p] = orphan[p] \/ (c.by = "orphan" /\ orphan'[p].state # "none")
       /\ \A q \in Payment : q # p => orphan'[q] = orphan[q]
  <2>1. orphan[p] \in JobRow
    BY Rows
  <2>2. CASE c.by = "orphan" /\ \E state \in {"done", "queued"} : orphan' = [orphan EXCEPT ![p].state = state]
    <3>1. PICK state \in {"done", "queued"} : orphan' = [orphan EXCEPT ![p].state = state]
      BY <2>2
    <3>2. PICK job : job = [orphan[p] EXCEPT !.state = state]
      OBVIOUS
    <3>3. job \in JobRow /\ job.state = state
      BY <2>1, <3>2 DEF JobRow
    <3>4. orphan' = [orphan EXCEPT ![p] = job]
      BY <3>1, <3>2
    <3> QED
      BY <2>2, <3>3, <3>4, Rows
  <2>3. CASE UNCHANGED orphan
    BY <2>3, Rows
  <2>4. \/ c.by = "orphan" /\ \E state \in {"done", "queued"} : orphan' = [orphan EXCEPT ![p].state = state]
        \/ UNCHANGED orphan
    BY <1>1 DEF CommitRefund
  <2> QED
    BY <2>2, <2>3, <2>4
<1>14. TypeOK'
  <2>1. ProviderTypeOK'
    BY <1>11, TypeHas DEF ProviderTypeOK, provider
  <2>2. /\ rows' \in SUBSET RefundRow /\ due' \in BOOLEAN
        /\ diffs' \in [Payment -> SUBSET [at: 1..MaxAmount, amount: 1..MaxAmount]]
    BY <1>4, <1>11, Rows, TypeHas
  <2> QED
    BY <1>7, <1>9, <1>10, <1>12, <1>13, <2>1, <2>2
       DEF TypeOK, OrderRow, PaymentRow, RefundRow, CallRow, JobRow
<1>15. status # "none" /\ status \notin Unpaid /\ payments[p].status # "none"
       /\ payments[p].status \notin Unpaid
  BY <1>5 DEF Unpaid
<1>16. Money'
  <2> SUFFICES ASSUME NEW q \in Payment
               PROVE  /\ payments'[q].refunded <= payments'[q].amount
                      /\ payments'[q].amount <= order'.total
                      /\ payments'[q].status \in Unpaid => payments'[q].refunded = 0 /\ ~payments'[q].settled
                      /\ intent'[q].amount = payments'[q].amount
                      /\ payments'[q].status = "none" <=> intent'[q].state = "none"
    BY DEF Money
  <2>0. intent' = intent
    BY <1>11 DEF provider
  <2>1. CASE q = p
    BY <1>5, <1>8, <1>9, <1>15, <2>0, <2>1 DEF Books, Money
  <2>2. CASE q # p
    BY <1>8, <1>9, <2>0, <2>2 DEF Books, Money
  <2> QED
    BY <2>1, <2>2
<1>17. \A q \in Payment : payments[q].status # "none" => payments'[q].status # "none"
  BY <1>8, <1>15
<1>18. EventsKnown'
  <2>1. \A e \in events : e.payment \in Payment
    <3>1. \A e \in Event : e.payment \in Payment
      BY DEF Event
    <3> QED
      BY <3>1, Rows
  <2>2. \A i \in DOMAIN given : PaymentOf(given[i].id) \in Payment
    <3>1. \A i \in DOMAIN given : given[i] \in Given
      BY Rows
    <3> QED
      BY <3>1 DEF Given, RefundId, PaymentOf
  <2>3. events' = events /\ given' = given
    BY <1>11 DEF provider
  <2> QED
    BY <1>17, <2>1, <2>2, <2>3 DEF Books, EventsKnown
<1>19. RowsKnown' /\ DiffsFinite'
  <2>1. \A r \in rows : PaymentOf(r.id) \in Payment
    BY Rows DEF RefundRow, RefundId, PaymentOf
  <2>2. PaymentOf(row.id) = p
    BY <1>4 DEF PaymentOf
  <2>3. IsFiniteSet(rows')
    BY <1>4, FS_AddElement DEF Books, RowsKnown
  <2>4. OneRowEach(rows')
    BY <1>4 DEF Books, RowsKnown, OneRowEach
  <2>5. \A r \in rows' : payments'[PaymentOf(r.id)].status # "none"
    BY <1>4, <1>8, <1>15, <1>17, <2>1, <2>2 DEF Books, RowsKnown
  <2> QED
    BY <1>11, <2>3, <2>4, <2>5 DEF Books, RowsKnown, DiffsFinite
<1>20. CallFits'
  BY <1>8, <1>12 DEF Books, CallFits
<1>21. TriesFit'
  <2> SUFFICES ASSUME NEW q \in Payment
               PROVE  /\ orphan'[q].state = "queued" /\ ~(\E r \in rows' : r.id = <<"orphan", q>> /\ r.api)
                           => orphan'[q].tries < MaxTries
                      /\ payments'[q].status \in Unpaid =>
                           orphan'[q].state = "none" /\ orphan'[q].tries = 0
    BY DEF TriesFit, Replayed
  <2>1. CASE orphan'[q] = orphan[q]
    <3>1. payments'[q].status \in Unpaid => payments[q].status \in Unpaid
      BY <1>8, <1>15
    <3> QED
      BY <1>4, <2>1, <3>1 DEF Books, TriesFit, Replayed
  <2>2. CASE q = p /\ c.by = "orphan"
    BY <1>4, <1>8, <1>15, <2>2
  <2> QED
    BY <1>13, <2>1, <2>2
<1> QED
  BY <1>14, <1>16, <1>18, <1>19, <1>20, <1>21 DEF Books

LEMMA CancelBooks == ASSUME Books, Inv, CancelOrder PROVE Books'
<1>1. order \in OrderRow /\ order.total \in 0..MaxAmount /\ order.refunded \in 0..MaxAmount
      /\ MaxAmount \in Nat
  BY Rows DEF OrderRow
<1>2. CASE /\ order.paidBy # NoPayment
           /\ CallProvider("cancel", order.paidBy, ToRefund)
           /\ UNCHANGED <<order, expiry>>
  <2>1. order.paidBy \in Payment /\ "cancel" \in Caller
    BY <1>2, OrderAssumption DEF Inv, OrderShape
  <2>2. ToRefund \in Int
    BY <1>1 DEF ToRefund
  <2>3. UNCHANGED <<payments, rows, diffs, orphan, due>>
    BY DEF CancelOrder
  <2> QED
    BY <1>2, <2>1, <2>2, <2>3, CallBooks, Rows
<1>3. CASE order' = Cancelled(order.refunded) /\ CancelExpiry /\ UNCHANGED <<provider, calling>>
  <2>1. order' \in OrderRow /\ order.total <= order'.total
    BY <1>1, <1>3, CancelledRow
  <2>2. expiry' \in {"none", "queued", "cancelled", "done"} /\ due' \in BOOLEAN
    BY <1>3, TypeHas DEF CancelExpiry, CancelOrder
  <2> QED
    BY <1>3, <2>1, <2>2, OrderBooks DEF CancelOrder
<1> QED
  BY <1>2, <1>3 DEF CancelOrder

LEMMA StepBooks == Books /\ Inv /\ [Next]_vars => Books'
<1> SUFFICES ASSUME Books, Inv, [Next]_vars PROVE Books'
  OBVIOUS
<1>1. CASE ProviderNext /\ UNCHANGED local
  BY <1>1, ProviderBooks
<1>2. ASSUME NEW total \in Totals, Create(total) PROVE Books'
  BY <1>2, CreateBooks
<1>3. CASE RetryOrderPayment
  BY <1>3, RetryBooks
<1>4. ASSUME NEW p \in StaffPayment, NEW amount \in 1..MaxAmount, StaffPays(p, amount) PROVE Books'
  BY <1>4, StaffPaysBooks
<1>5. CASE Webhook
  BY <1>5, SucceededBooks, PaymentFailedBooks, IntentCanceledBooks, ChargeRefundedBooks,
     RefundUpdatedBooks DEF Webhook
<1>6. ASSUME NEW by \in Desk, NEW p \in Payment, NEW amount \in 1..MaxAmount,
             RefundRequest(by, p, amount)
      PROVE  Books'
  BY <1>6, RefundRequestBooks
<1>7. ASSUME NEW p \in Payment, RunOrphan(p) \/ CommitRefund(p) \/ RollbackRefund(p) PROVE Books'
  BY <1>7, RunOrphanBooks, CommitBooks, RollbackBooks
<1>8. CASE TimePasses
  BY <1>8, TimeBooks
<1>9. CASE ExpireOrder
  BY <1>9, ExpireBooks
<1>10. CASE ProcessOrder \/ ShipOrder \/ DeliverOrder
  BY <1>10, MoveBooks DEF ProcessOrder, ShipOrder, DeliverOrder, OrderStatus
<1>11. CASE CancelOrder
  BY <1>11, CancelBooks
<1>12. CASE UNCHANGED vars
  <2>1. /\ UNCHANGED provider /\ UNCHANGED <<payments, rows, diffs, calling, orphan>>
        /\ UNCHANGED <<order, expiry, due>>
    BY <1>12 DEF vars, provider
  <2>2. order' \in OrderRow /\ order.total <= order'.total
    BY <2>1, Rows DEF OrderRow
  <2> QED
    BY <2>1, <2>2, OrderBooks, TypeHas
<1> QED
  BY <1>1, <1>2, <1>3, <1>4, <1>5, <1>6, <1>7, <1>8, <1>9, <1>10, <1>11, <1>12 DEF Next

LEMMA BooksAlways == Spec => []Books
BY InitBooks, StepBooks, InvAlways, PTL DEF Spec

(* The order, its payments and refunds, the refund jobs and what the        *)
(* provider says keep their types: no payment is refunded more than it took *)
(* and no refund job runs more often than it may.                           *)
THEOREM EcOrderTypes == Spec => []TypeOK
<1>1. Books => TypeOK
  BY DEF Books
<1> QED
  BY <1>1, BooksAlways, PTL

-----------------------------------------------------------------------------
(* What the payments of an order hold.                                      *)

(* A payment's stake in the order: all it may bring in.  Other than what it *)
(* holds, the stake does not come back when a refund fails.                 *)
AtStake(p) == payments[p].status = "requires_action" \/ payments[p].settled
Stake(p) == IF AtStake(p) THEN payments[p].amount ELSE 0

Stakes == SumFunctionOnSet([p \in Payment |-> Stake(p)], Payment)

StakesWithinTotal == Stakes <= order.total

LEMMA StakeNat ==
  ASSUME Books
  PROVE  (\A p \in Payment : Stake(p) \in Nat) /\ Stakes \in Nat
<1>1. \A p \in Payment : Stake(p) \in Nat
  BY Rows DEF PaymentRow, Stake
<1> DEFINE f == [p \in Payment |-> Stake(p)]
<1>2. \A p \in Payment : f[p] \in Nat
  BY <1>1
<1>3. SumFunctionOnSet(f, Payment) \in Nat
  <2> HIDE DEF f
  <2> QED
    BY <1>2, OrderAssumption, SumOfNats
<1> QED
  BY <1>1, <1>3 DEF Stakes

LEMMA StakeNatNext == Books' => (\A p \in Payment : Stake(p)' \in Nat) /\ Stakes' \in Nat
<1>1. Books => (\A p \in Payment : Stake(p) \in Nat) /\ Stakes \in Nat
  BY StakeNat
<1>2. (Books => (\A p \in Payment : Stake(p) \in Nat) /\ Stakes \in Nat)'
  BY <1>1, PTL
<1> QED
  BY <1>2

(* A step that starts no payment puts nothing more at stake.                *)
LEMMA StakesDrop ==
  ASSUME Books, Books', StakesWithinTotal, order'.total = order.total,
         \A p \in Payment : /\ payments'[p].amount = payments[p].amount
                            /\ AtStake(p)' => AtStake(p)
  PROVE  StakesWithinTotal'
<1> DEFINE f == [p \in Payment |-> Stake(p)']
           g == [p \in Payment |-> Stake(p)]
<1>1. \A p \in Payment : Stake(p)' \in Nat /\ Stake(p) \in Nat
  BY StakeNat, StakeNatNext
<1>2. \A p \in Payment : Stake(p)' <= Stake(p)
  <2> TAKE p \in Payment
  <2>1. payments[p].amount \in Nat
    BY Rows DEF PaymentRow
  <2> QED
    BY <2>1 DEF Stake
<1>3. \A p \in Payment : f[p] \in Int /\ g[p] \in Int /\ f[p] <= g[p]
  BY <1>1, <1>2
<1>4. Stakes' = SumFunctionOnSet(f, Payment) /\ Stakes = SumFunctionOnSet(g, Payment)
  BY DEF Stakes
<1>5. SumFunctionOnSet(f, Payment) <= SumFunctionOnSet(g, Payment)
  <2> HIDE DEF f, g
  <2> QED
    BY <1>3, OrderAssumption, SumMonotone
<1>6. Stakes \in Nat /\ Stakes' \in Nat /\ order.total \in Nat
  BY StakeNat, StakeNatNext, Rows DEF OrderRow
<1> HIDE DEF f, g
<1>7. Stakes' <= Stakes
  BY <1>4, <1>5
<1> QED
  BY <1>6, <1>7 DEF StakesWithinTotal

(* Starting a payment puts its amount at stake.                             *)
LEMMA StakesStart ==
  ASSUME Books, Books', NEW p \in Payment, NEW amount \in Nat, StartOnline(p, amount)
  PROVE  Stakes' = Stakes + amount
<1> DEFINE f == [q \in Payment |-> Stake(q)]
           g == [q \in Payment |-> Stake(q)']
<1>1. payments[p].status = "none"
  BY DEF StartOnline
<1>2. ~payments[p].settled
  BY <1>1 DEF Books, Money, Unpaid
<1>3. /\ payments'[p].status = "requires_action" /\ payments'[p].amount = amount
      /\ \A q \in Payment : q # p => payments'[q] = payments[q]
  BY Rows DEF StartOnline
<1>4. Stake(p) = 0
  BY <1>1, <1>2 DEF Stake, AtStake
<1>5. Stake(p)' = amount
  BY <1>3 DEF Stake, AtStake
<1>6. \A q \in Payment : q # p => Stake(q)' = Stake(q)
  BY <1>3 DEF Stake, AtStake
<1>7. \A q \in Payment : f[q] \in Int /\ g[q] \in Int
  BY StakeNat, StakeNatNext
<1>8. \A q \in Payment \ {p} : f[q] = g[q]
  BY <1>6
<1>9. f[p] = 0 /\ g[p] = amount
  BY <1>4, <1>5
<1>10. Stakes = SumFunctionOnSet(f, Payment) /\ Stakes' = SumFunctionOnSet(g, Payment)
  BY DEF Stakes
<1>11. IsFiniteSet(Payment)
  BY OrderAssumption
<1> HIDE DEF f, g
<1>12. SumFunctionOnSet(g, Payment) = SumFunctionOnSet(f, Payment) - f[p] + g[p]
  BY ONLY <1>7, <1>8, <1>11, p \in Payment, SumUpdate
<1>13. Stakes \in Nat
  BY StakeNat
<1> QED
  BY <1>9, <1>10, <1>12, <1>13

(* While an order is pending, everything at stake is held.                  *)
LEMMA StakesHeld ==
  ASSUME Books, Inv, order.status \in {"none", "pending"}
  PROVE  Stakes <= SumFunctionOnSet([p \in Payment |-> HeldBy(p)], Payment)
<1> DEFINE f == [p \in Payment |-> Stake(p)]
           g == [p \in Payment |-> HeldBy(p)]
<1>1. \A p \in Payment : Stake(p) <= HeldBy(p)
  <2> TAKE p \in Payment
  <2>1. ~payments[p].settled
    BY DEF Inv, NothingSettled
  <2>2. CASE payments[p].status = "requires_action"
    <3>1. payments[p].refunded = 0 /\ payments[p].amount \in Nat
      BY <2>2, Rows DEF Books, Money, Unpaid, PaymentRow
    <3> QED
      BY <2>2, <3>1 DEF Stake, AtStake, HeldBy, Active
  <2>3. CASE payments[p].status # "requires_action"
    BY <2>1, <2>3, HeldNat DEF Stake, AtStake
  <2> QED
    BY <2>2, <2>3
<1>2. \A p \in Payment : f[p] \in Int /\ g[p] \in Int /\ f[p] <= g[p]
  BY <1>1, StakeNat, HeldNat
<1>3. Stakes = SumFunctionOnSet(f, Payment)
  BY DEF Stakes
<1>4. SumFunctionOnSet(f, Payment) <= SumFunctionOnSet(g, Payment)
  <2> HIDE DEF f, g
  <2> QED
    BY <1>2, OrderAssumption, SumMonotone
<1> QED
  BY <1>3, <1>4

LEMMA StakesOutstanding ==
  ASSUME Books, Books', Inv, NEW p \in Payment, NEW amount \in Nat, StartOnline(p, amount),
         order.status = "pending", amount <= Outstanding, order'.total = order.total
  PROVE  StakesWithinTotal'
<1>1. Stakes' = Stakes + amount /\ Stakes \in Nat /\ order.total \in Nat
  BY StakesStart, StakeNat, Rows DEF OrderRow
<1>2. PICK held \in Nat : held = SumFunctionOnSet([q \in Payment |-> HeldBy(q)], Payment)
  BY HeldNat
<1>3. Stakes <= held /\ amount <= order.total - held
  BY <1>2, StakesHeld DEF Outstanding
<1> QED
  BY <1>1, <1>2, <1>3 DEF StakesWithinTotal

(* Before an order exists nothing is at stake.                              *)
LEMMA StakesNone ==
  ASSUME Books, Inv, order.status = "none" PROVE Stakes = 0
<1> DEFINE f == [p \in Payment |-> Stake(p)]
<1>1. \A p \in Payment : f[p] = 0
  <2> TAKE p \in Payment
  <2>1. ~payments[p].settled /\ payments[p].status # "requires_action"
    BY DEF Inv, NothingSettled, Final
  <2> QED
    BY <2>1 DEF Stake, AtStake
<1>2. SumFunctionOnSet(f, Payment) = 0
  <2> HIDE DEF f
  <2> QED
    BY <1>1, OrderAssumption, SumZero
<1> QED
  BY <1>2 DEF Stakes

LEMMA InitStakes == Init => StakesWithinTotal
<1> SUFFICES ASSUME Init PROVE StakesWithinTotal
  OBVIOUS
<1>1. Books /\ Inv /\ order.status = "none" /\ order.total = 0
  BY InitBooks, InitInv DEF Init
<1> QED
  BY <1>1, StakesNone DEF StakesWithinTotal

LEMMA CreateStakes ==
  ASSUME Books, Books', Inv, NEW total \in Totals, Create(total) PROVE StakesWithinTotal'
<1>0. Attempt[1] \in Payment /\ total \in Nat /\ order.status = "none" /\ order.total = 0
  BY OrderAssumption, ProviderAssumption DEF Create, Inv, OrderShape
<1>1. Stakes = 0
  BY <1>0, StakesNone
<1>2. CASE total > 0
  <2>1. /\ StartOnline(Attempt[1], total)
        /\ order' = [order EXCEPT !.status = "pending", !.total = total, !.attempts = 1,
                                  !.stock = "reserved"]
    BY <1>0, <1>2 DEF Create
  <2>2. order'.total = total
    BY <2>1, Rows DEF OrderRow
  <2>3. Stakes' = total
    BY <1>0, <1>1, <2>1, StakesStart
  <2> QED
    BY <1>0, <2>2, <2>3 DEF StakesWithinTotal
<1>3. CASE total = 0
  <2>1. order'.total = order.total /\ payments' = payments
    <3>1. /\ order' = [order EXCEPT !.status = "paid", !.stock = "reserved"]
          /\ UNCHANGED payments
      BY <1>0, <1>3 DEF Create
    <3> QED
      BY <3>1, Rows DEF OrderRow
  <2>2. StakesWithinTotal
    BY <1>0, <1>1 DEF StakesWithinTotal
  <2>3. \A p \in Payment : payments'[p].amount = payments[p].amount /\ (AtStake(p)' => AtStake(p))
    BY <2>1 DEF AtStake
  <2> QED
    BY <2>1, <2>2, <2>3, StakesDrop
<1> QED
  BY <1>0, <1>2, <1>3

(* What keeps the payments' amounts and settlement.                         *)
LEMMA StakesStay ==
  ASSUME Books, Books', StakesWithinTotal, UNCHANGED payments, order'.total = order.total
  PROVE  StakesWithinTotal'
<1>1. \A p \in Payment : payments'[p].amount = payments[p].amount /\ (AtStake(p)' => AtStake(p))
  BY DEF AtStake
<1> QED
  BY <1>1, StakesDrop

LEMMA SettleStakes ==
  ASSUME Books, Books', StakesWithinTotal, NEW p \in Payment, NEW status, Settle(p, status),
         status # "requires_action", order'.total = order.total
  PROVE  StakesWithinTotal'
<1>1. payments[p].status = "requires_action"
  BY Rows DEF Settle, PaymentRow, Active, Final
<1>2. /\ payments'[p].amount = payments[p].amount
      /\ \A q \in Payment : q # p => payments'[q] = payments[q]
  BY Rows DEF Settle, PaymentRow
<1>3. \A q \in Payment : payments'[q].amount = payments[q].amount /\ (AtStake(q)' => AtStake(q))
  BY <1>1, <1>2 DEF AtStake
<1> QED
  BY <1>3, StakesDrop

LEMMA AbsorbStakes ==
  ASSUME Books, Books', Inv, StakesWithinTotal, NEW p \in Payment, NEW s, Absorb(p, s)
  PROVE  StakesWithinTotal'
<1>1. order'.total = order.total
  BY DEF Absorb, Inv, OrderShape
<1>2. PICK status : /\ status # "requires_action" \/ status = payments[p].status
                    /\ payments' = [payments EXCEPT ![p].refunded = s.refunded, ![p].status = status]
  <2>1. StatusOf(payments[p].amount, s.refunded) # "requires_action"
    BY DEF StatusOf
  <2>2. CASE s.touched
    <3>1. PICK new : new = StatusOf(payments[p].amount, s.refunded)
      OBVIOUS
    <3>2. payments' = [payments EXCEPT ![p].refunded = s.refunded, ![p].status = new]
      BY <2>2, <3>1 DEF Absorb
    <3> QED
      BY <2>1, <3>1, <3>2
  <2>3. CASE ~s.touched
    <3>1. PICK old : old = payments[p].status
      OBVIOUS
    <3>2. payments' = [payments EXCEPT ![p].refunded = s.refunded, ![p].status = old]
      BY <2>3, <3>1 DEF Absorb
    <3> QED
      BY <3>1, <3>2
  <2> QED
    BY <2>2, <2>3
<1>3. /\ payments'[p].amount = payments[p].amount /\ payments'[p].settled = payments[p].settled
      /\ payments'[p].status = status
      /\ \A q \in Payment : q # p => payments'[q] = payments[q]
  BY <1>2, Rows DEF PaymentRow
<1>4. \A q \in Payment : payments'[q].amount = payments[q].amount /\ (AtStake(q)' => AtStake(q))
  BY <1>2, <1>3 DEF AtStake
<1> QED
  BY <1>1, <1>4, StakesDrop

LEMMA CommitStakes ==
  ASSUME Books, Books', StakesWithinTotal, NEW p \in Payment, CommitRefund(p)
  PROVE  StakesWithinTotal'
<1>1. PICK row \in PaymentRow :
        /\ row.status \in {"refunded", "partially_refunded"}
        /\ row.amount = payments[p].amount /\ row.settled = payments[p].settled
        /\ payments' = [payments EXCEPT ![p] = row]
  BY CommitFacts
<1>2. payments'[p] = row /\ \A q \in Payment : q # p => payments'[q] = payments[q]
  BY <1>1, Rows
<1>3. order'.total = order.total
  BY Rows DEF CommitRefund, Cancelled, OrderRow
<1>4. \A q \in Payment : payments'[q].amount = payments[q].amount /\ (AtStake(q)' => AtStake(q))
  BY <1>1, <1>2 DEF AtStake
<1> QED
  BY <1>3, <1>4, StakesDrop

LEMMA StepStakes == Books /\ Books' /\ Inv /\ StakesWithinTotal /\ [Next]_vars => StakesWithinTotal'
<1> SUFFICES ASSUME Books, Books', Inv, StakesWithinTotal, [Next]_vars PROVE StakesWithinTotal'
  OBVIOUS
<1>0. order \in OrderRow /\ order.total \in Nat
  BY Rows DEF OrderRow
<1>1. CASE ProviderNext /\ UNCHANGED local
  BY <1>1, StakesStay DEF local
<1>2. ASSUME NEW total \in Totals, Create(total) PROVE StakesWithinTotal'
  BY <1>2, CreateStakes
<1>3. CASE RetryOrderPayment
  <2>1. PICK n : n = order.attempts + 1
    OBVIOUS
  <2>2. /\ n <= Len(Attempt) /\ order' = [order EXCEPT !.attempts = n, !.failed = FALSE]
        /\ StartOnline(Attempt[n], order.total) /\ order.status = "pending"
        /\ order.total <= Outstanding
    BY <1>3, <2>1 DEF RetryOrderPayment
  <2>3. order.attempts \in Nat
    BY DEF Inv, OrderShape
  <2>4. Attempt[n] \in Payment /\ order'.total = order.total
    BY <1>0, <2>1, <2>2, <2>3, OrderAssumption DEF OrderRow
  <2> QED
    BY <1>0, <2>2, <2>4, StakesOutstanding
<1>4. ASSUME NEW p \in StaffPayment, NEW amount \in 1..MaxAmount, StaffPays(p, amount)
      PROVE  StakesWithinTotal'
  <2>1. p \in Payment /\ amount \in Nat
    BY DEF StaffPayment
  <2> QED
    BY <1>4, <2>1, StakesOutstanding DEF StaffPays
<1>5. CASE Webhook
  <2>1. ASSUME NEW p \in Payment, Succeeded(p) PROVE StakesWithinTotal'
    <3>1. order'.total = order.total
      BY <1>0, <2>1 DEF Succeeded, OnPaymentSucceeded, OrderRow
    <3> QED
      BY <2>1, <3>1, SettleStakes DEF Succeeded
  <2>2. ASSUME NEW p \in Payment, PaymentFailed(p) PROVE StakesWithinTotal'
    <3>1. order'.total = order.total
      BY <1>0, <2>2 DEF PaymentFailed, OrderRow
    <3> QED
      BY <2>2, <3>1, SettleStakes DEF PaymentFailed
  <2>3. ASSUME NEW p \in Payment, IntentCanceled(p) PROVE StakesWithinTotal'
    BY <2>3, SettleStakes DEF IntentCanceled
  <2>4. ASSUME NEW p \in Payment, NEW e \in events, ChargeRefunded(p, e) PROVE StakesWithinTotal'
    BY <2>4, AbsorbStakes DEF ChargeRefunded
  <2>5. ASSUME NEW p \in Payment, NEW e \in events, RefundUpdated(p, e) PROVE StakesWithinTotal'
    BY <2>5, AbsorbStakes DEF RefundUpdated
  <2> QED
    BY <1>5, <2>1, <2>2, <2>3, <2>4, <2>5 DEF Webhook
<1>6. ASSUME NEW by \in Desk, NEW p \in Payment, NEW amount \in 1..MaxAmount,
             RefundRequest(by, p, amount)
      PROVE  StakesWithinTotal'
  BY <1>6, StakesStay DEF RefundRequest
<1>7. ASSUME NEW p \in Payment, RunOrphan(p) \/ RollbackRefund(p) PROVE StakesWithinTotal'
  BY <1>7, StakesStay DEF RunOrphan, StartOrphan, OrphanEndsAtOnce, RollbackRefund
<1>8. ASSUME NEW p \in Payment, CommitRefund(p) PROVE StakesWithinTotal'
  BY <1>8, CommitStakes
<1>9. CASE TimePasses
  BY <1>9, StakesStay DEF TimePasses
<1>10. CASE ExpireOrder
  <2>1. order'.total = order.total
    BY <1>0, <1>10 DEF ExpireOrder, Cancelled, OrderRow
  <2> QED
    BY <1>10, <2>1, StakesStay DEF ExpireOrder
<1>11. CASE ProcessOrder \/ ShipOrder \/ DeliverOrder
  <2>1. order'.total = order.total /\ UNCHANGED payments
    BY <1>0, <1>11 DEF ProcessOrder, ShipOrder, DeliverOrder, Move, OrderRow
  <2> QED
    BY <2>1, StakesStay
<1>12. CASE CancelOrder
  <2>1. order'.total = order.total
    BY <1>0, <1>12 DEF CancelOrder, Cancelled, OrderRow
  <2> QED
    BY <1>12, <2>1, StakesStay DEF CancelOrder
<1>13. CASE UNCHANGED vars
  BY <1>13, StakesStay DEF vars
<1> QED
  BY <1>1, <1>2, <1>3, <1>4, <1>5, <1>6, <1>7, <1>8, <1>9, <1>10, <1>11, <1>12, <1>13 DEF Next

LEMMA StakesImplyHeld == Books /\ StakesWithinTotal => HeldWithinTotal
<1> SUFFICES ASSUME Books, StakesWithinTotal PROVE HeldWithinTotal
  OBVIOUS
<1> DEFINE f == [p \in Payment |-> Claim(p)]
           g == [p \in Payment |-> Stake(p)]
<1>1. \A p \in Payment : Claim(p) \in Int /\ Claim(p) <= Stake(p)
  <2> TAKE p \in Payment
  <2>1. payments[p].amount \in Nat /\ payments[p].refunded \in Nat /\ payments[p].refunded <= payments[p].amount
    BY Rows DEF PaymentRow, Books, Money
  <2> QED
    BY <2>1 DEF Claim, HeldBy, Stake, AtStake
<1>2. \A p \in Payment : f[p] \in Int /\ g[p] \in Int /\ f[p] <= g[p]
  BY <1>1, StakeNat
<1>3. SumFunctionOnSet(f, Payment) <= SumFunctionOnSet(g, Payment) /\ SumFunctionOnSet(f, Payment) \in Int
  <2> HIDE DEF f, g
  <2> QED
    BY <1>2, OrderAssumption, SumMonotone, SumType
<1>4. Stakes = SumFunctionOnSet(g, Payment) /\ Stakes \in Nat /\ order.total \in Nat
  BY StakeNat, Rows DEF Stakes, OrderRow
<1>5. SumFunctionOnSet(f, Payment) <= order.total
  <2> HIDE DEF f, g
  <2> QED
    BY <1>3, <1>4 DEF StakesWithinTotal
<1> QED
  BY <1>5 DEF HeldWithinTotal

(* However payments are started by the customer and by staff, and in        *)
(* whatever order they succeed, fail, are cancelled and refunded, together  *)
(* they never hold more than the order costs (payments/api.ts:              *)
(* outstandingBalance, startOnlinePayment).                                 *)
THEOREM NeverHeldTwice == Spec => []HeldWithinTotal
BY InitStakes, StepStakes, StakesImplyHeld, BooksAlways, InvAlways, PTL DEF Spec

-----------------------------------------------------------------------------
(* What the provider was asked for stays made.                              *)

GivenKept ==
  \A i \in DOMAIN given :
    /\ i \in DOMAIN given' /\ given'[i].id = given[i].id /\ given'[i].amount = given[i].amount
    /\ given[i].state = "failed" => given'[i].state = "failed"

LEMMA GiveKeeps ==
  ASSUME Books, NEW id, NEW amount, NEW state, NEW listed, Give(id, amount, state, listed)
  PROVE  /\ GivenKept
         /\ \E i \in DOMAIN given' : given'[i].id = id /\ given'[i].amount = amount
<1>1. PICK g : g = [id |-> id, amount |-> amount, state |-> state, first |-> state]
  OBVIOUS
<1>2. given' = Append(given, g) /\ g.id = id /\ g.amount = amount
  BY <1>1 DEF Give
<1>3. given \in Seq(Given)
  BY Rows
<1>4. \A i \in DOMAIN given : i \in DOMAIN given' /\ given'[i] = given[i]
  BY <1>2, <1>3
<1>5. Len(given) + 1 \in DOMAIN given' /\ given'[Len(given) + 1] = g
  BY <1>2, <1>3
<1> QED
  BY <1>2, <1>4, <1>5 DEF GivenKept

LEMMA CallKeeps ==
  ASSUME Books, NEW by, NEW p, NEW amount, CallProvider(by, p, amount)
  PROVE  /\ GivenKept
         /\ \E i \in DOMAIN given' : given'[i].id = <<by, p>> /\ given'[i].amount = amount
<1>1. CASE \E i \in DOMAIN given : /\ given[i].id = <<by, p>> /\ given[i].amount = amount
                                   /\ UNCHANGED provider
  BY <1>1 DEF GivenKept, provider
<1>2. CASE \E state \in Starts, listed \in ListModes : Give(<<by, p>>, amount, state, listed)
  BY <1>2, GiveKeeps
<1> QED
  BY <1>1, <1>2 DEF CallProvider

LEMMA ProviderKeepsGiven == ASSUME Books, ProviderNext PROVE GivenKept
<1>1. ASSUME NEW p \in Payment, Pay(p) \/ Decline(p) \/ PayAgain(p) \/ CancelIntent(p) PROVE GivenKept
  BY <1>1 DEF Pay, Decline, PayAgain, CancelIntent, GivenKept
<1>2. ASSUME NEW id \in RefundId, NEW amount \in 1..MaxAmount, RefundOnBoard(id, amount)
      PROVE  GivenKept
  BY <1>2, GiveKeeps DEF RefundOnBoard
<1>3. ASSUME NEW i \in DOMAIN given, NEW state \in RefundState, UpdateRefund(i, state)
      PROVE  GivenKept
  <2>1. \A j \in DOMAIN given : given[j] \in Given
    BY Rows
  <2>2. given' = [given EXCEPT ![i].state = state] /\ (given[i].state = "failed" => FALSE)
    BY <1>3 DEF UpdateRefund
  <2> QED
    BY <2>1, <2>2 DEF GivenKept, Given
<1> QED
  BY <1>1, <1>2, <1>3 DEF ProviderNext

-----------------------------------------------------------------------------
(* What a webhook does to the rows of refunds.                              *)

LEMMA UpdatedGrows ==
  ASSUME Books, NEW p \in Payment, NEW e \in events, RefundUpdated(p, e)
  PROVE  Grown(p, rows, rows')
<1>1. e.type = "refund.updated" /\ e.payment = p
  BY DEF RefundUpdated
<1>2. PICK s : s = ApplyProviderRefund(payments[p].amount, Before(p), e.refund)
  OBVIOUS
<1>3. Grown(p, rows, s.rows)
  BY <1>1, <1>2, EventRefund, BeforeFacts, ApplyCases, ApplyGrows
<1> QED
  BY <1>2, <1>3 DEF RefundUpdated, Absorb

LEMMA ChargeGrows ==
  ASSUME Books, NEW p \in Payment, NEW e \in events, ChargeRefunded(p, e)
  PROVE  Grown(p, rows, rows')
<1>1. e.type = "charge.refunded" /\ e.payment = p
  BY DEF ChargeRefunded
<1>2. PICK s : s = ApplyAll(payments[p].amount, Before(p), e.list)
  OBVIOUS
<1>3. s \in Sofar(payments[p].amount) /\ Grown(p, rows, s.rows)
  BY <1>1, <1>2, ApplyAllFacts
<1>4. s.rows \in SUBSET RefundRow /\ IsFiniteSet(s.rows) /\ OneRowEach(s.rows)
  BY <1>3 DEF Sofar, Grown
<1>5. Grown(p, s.rows, PendingSucceed(p, s.rows))
  BY <1>4, PendingGrows
<1>6. rows' = IF e.list = <<>> THEN PendingSucceed(p, s.rows) ELSE s.rows
  BY <1>2 DEF ChargeRefunded, Absorb
<1> QED
  BY <1>3, <1>5, <1>6, GrownTwice

LEMMA AbsorbKeeps ==
  ASSUME Books, NEW p \in Payment, NEW s, Absorb(p, s)
  PROVE  \A q \in Payment : payments'[q].amount = payments[q].amount
<1>1. PICK status : payments' = [payments EXCEPT ![p].refunded = s.refunded, ![p].status = status]
  BY DEF Absorb
<1> QED
  BY <1>1, Rows DEF PaymentRow

-----------------------------------------------------------------------------
(* Refund jobs.                                                             *)

Made(id, amount) == \E i \in DOMAIN given : given[i].id = id /\ given[i].amount = amount

(* A refund job that called the provider had the whole payment given back,  *)
(* even when its transaction is rolled back later, and a job is done only   *)
(* when the refund is recorded.                                             *)
OrphanMade ==
  \A p \in Payment :
    /\ calling[p].by = "orphan" \/ Replayed(<<"orphan", p>>) =>
         Made(<<"orphan", p>>, payments[p].amount)
    /\ orphan[p].state = "done" => Replayed(<<"orphan", p>>)

LEMMA OrphanFrame ==
  ASSUME Books, OrphanMade, GivenKept,
         \A p \in Payment : payments[p].status # "none" => payments'[p].amount = payments[p].amount,
         \A p \in Payment : calling'[p].by = "orphan" =>
           calling[p].by = "orphan" \/ Made(<<"orphan", p>>, payments[p].amount)',
         \A p \in Payment : Replayed(<<"orphan", p>>) => Replayed(<<"orphan", p>>)',
         \A p \in Payment : Replayed(<<"orphan", p>>)' =>
           Replayed(<<"orphan", p>>) \/ calling[p].by = "orphan",
         \A p \in Payment : orphan'[p].state = "done" =>
           orphan[p].state = "done" \/ Replayed(<<"orphan", p>>)'
  PROVE  OrphanMade'
<1> SUFFICES ASSUME NEW p \in Payment
             PROVE  /\ calling'[p].by = "orphan" \/ Replayed(<<"orphan", p>>)' =>
                         Made(<<"orphan", p>>, payments[p].amount)'
                    /\ orphan'[p].state = "done" => Replayed(<<"orphan", p>>)'
  BY DEF OrphanMade
<1>1. ASSUME Made(<<"orphan", p>>, payments[p].amount) PROVE Made(<<"orphan", p>>, payments[p].amount)'
  <2>1. PICK i \in DOMAIN given : given[i].id = <<"orphan", p>> /\ given[i].amount = payments[p].amount
    BY <1>1 DEF Made
  <2>2. payments[p].status # "none"
    BY <2>1 DEF Books, EventsKnown, PaymentOf
  <2> QED
    BY <2>1, <2>2 DEF Made, GivenKept
<1>2. calling'[p].by = "orphan" \/ Replayed(<<"orphan", p>>)' =>
        Made(<<"orphan", p>>, payments[p].amount)'
  BY <1>1 DEF OrphanMade
<1>3. orphan'[p].state = "done" => Replayed(<<"orphan", p>>)'
  BY DEF OrphanMade
<1> QED
  BY <1>2, <1>3

(* A step that has nothing to do with refunds.                              *)
LEMMA OrphanRests ==
  ASSUME Books, OrphanMade, UNCHANGED <<given, rows, calling>>,
         \A p \in Payment : payments[p].status # "none" => payments'[p].amount = payments[p].amount,
         \A p \in Payment : orphan'[p].state = "done" => orphan[p].state = "done"
  PROVE  OrphanMade'
<1>1. GivenKept
  BY DEF GivenKept
<1>2. \A p \in Payment : Replayed(<<"orphan", p>>)' <=> Replayed(<<"orphan", p>>)
  BY DEF Replayed
<1> QED
  BY <1>1, <1>2, OrphanFrame

LEMMA OrphanStarts ==
  ASSUME Books, OrphanMade, NEW p \in Payment, NEW amount, StartOnline(p, amount),
         UNCHANGED <<rows, calling, orphan>>
  PROVE  OrphanMade'
<1>1. \A q \in Payment : payments[q].status # "none" => payments'[q].amount = payments[q].amount
  BY Rows DEF StartOnline
<1> QED
  BY <1>1, OrphanRests DEF StartOnline

LEMMA OrphanSettles ==
  ASSUME Books, OrphanMade, NEW p \in Payment, NEW status, Settle(p, status),
         UNCHANGED <<given, rows, calling>>,
         \A q \in Payment : orphan'[q].state = "done" => orphan[q].state = "done"
  PROVE  OrphanMade'
<1>1. \A q \in Payment : payments'[q].amount = payments[q].amount
  BY Rows DEF Settle, PaymentRow
<1> QED
  BY <1>1, OrphanRests

LEMMA OrphanAbsorbs ==
  ASSUME Books, OrphanMade, NEW p \in Payment, NEW s, Absorb(p, s), Grown(p, rows, rows'),
         UNCHANGED <<given, calling, orphan>>
  PROVE  OrphanMade'
<1>1. GivenKept
  BY DEF GivenKept
<1>2. \A q \in Payment : Replayed(<<"orphan", q>>)' <=> Replayed(<<"orphan", q>>)
  <2> TAKE q \in Payment
  <2>1. ASSUME Replayed(<<"orphan", q>>) PROVE Replayed(<<"orphan", q>>)'
    <3>1. PICK r \in rows : r.id = <<"orphan", q>> /\ r.api
      BY <2>1 DEF Replayed
    <3>2. \E t \in rows' : t.id = r.id /\ t.api = r.api
      BY DEF Grown
    <3> QED
      BY <3>1, <3>2 DEF Replayed
  <2>2. ASSUME Replayed(<<"orphan", q>>)' PROVE Replayed(<<"orphan", q>>)
    <3>1. PICK r \in rows' : r.id = <<"orphan", q>> /\ r.api
      BY <2>2 DEF Replayed
    <3>2. \E t \in rows : t.id = r.id /\ t.api
      BY <3>1 DEF Grown
    <3> QED
      BY <3>1, <3>2 DEF Replayed
  <2> QED
    BY <2>1, <2>2
<1> QED
  BY <1>1, <1>2, AbsorbKeeps, OrphanFrame

LEMMA OrphanCalls ==
  ASSUME Books, OrphanMade, NEW p \in Payment, NEW by \in Caller, NEW amount \in Int,
         CallProvider(by, p, amount), by = "orphan" => amount = payments[p].amount,
         UNCHANGED <<payments, rows>>,
         \A q \in Payment : orphan'[q].state = "done" => orphan[q].state = "done"
  PROVE  OrphanMade'
<1>1. PICK c \in CallRow : c.by = by /\ calling' = [calling EXCEPT ![p] = c]
  BY CallMade
<1>2. GivenKept /\ \E i \in DOMAIN given' : given'[i].id = <<by, p>> /\ given'[i].amount = amount
  BY CallKeeps
<1>3. \A q \in Payment : calling'[q].by = "orphan" =>
        calling[q].by = "orphan" \/ Made(<<"orphan", q>>, payments[q].amount)'
  <2> SUFFICES ASSUME NEW q \in Payment, calling'[q].by = "orphan", calling[q].by # "orphan"
               PROVE  Made(<<"orphan", q>>, payments[q].amount)'
    OBVIOUS
  <2>1. q = p /\ by = "orphan"
    BY <1>1, Rows
  <2> QED
    BY <1>2, <2>1 DEF Made
<1>4. \A q \in Payment : Replayed(<<"orphan", q>>)' <=> Replayed(<<"orphan", q>>)
  BY DEF Replayed
<1> QED
  BY <1>2, <1>3, <1>4, OrphanFrame

LEMMA OrphanCommits ==
  ASSUME Books, OrphanMade, NEW p \in Payment, CommitRefund(p) PROVE OrphanMade'
<1>1. PICK row \in RefundRow : /\ row.id = <<calling[p].by, p>> /\ row.api
                               /\ rows' = rows \cup {row}
  BY CommitFacts
<1>2. PICK new \in PaymentRow : /\ new.amount = payments[p].amount
                                /\ payments' = [payments EXCEPT ![p] = new]
  BY CommitFacts
<1>3. \A q \in Payment : payments'[q].amount = payments[q].amount
  BY <1>2, Rows
<1>4. calling' = [calling EXCEPT ![p] = NoCall] /\ UNCHANGED provider
  BY DEF CommitRefund
<1>5. \A q \in Payment : calling'[q].by = "orphan" => calling[q].by = "orphan"
  BY <1>4, Rows DEF NoCall
<1>6. \A q \in Payment : Replayed(<<"orphan", q>>) => Replayed(<<"orphan", q>>)'
  BY <1>1 DEF Replayed
<1>7. \A q \in Payment : Replayed(<<"orphan", q>>)' => Replayed(<<"orphan", q>>) \/ calling[q].by = "orphan"
  BY <1>1 DEF Replayed
<1>8. \A q \in Payment : orphan'[q].state = "done" =>
        orphan[q].state = "done" \/ Replayed(<<"orphan", q>>)'
  <2>1. CASE UNCHANGED orphan
    BY <2>1
  <2>2. CASE calling[p].by = "orphan" /\ \E state \in {"done", "queued"} : orphan' = [orphan EXCEPT ![p].state = state]
    <3>1. Replayed(<<"orphan", p>>)'
      BY <1>1, <2>2 DEF Replayed
    <3>2. \A q \in Payment : q # p => orphan'[q] = orphan[q]
      BY <2>2, Rows
    <3> QED
      BY <3>1, <3>2
  <2> QED
    BY <2>1, <2>2 DEF CommitRefund
<1>9. GivenKept
  BY <1>4 DEF GivenKept, provider
<1> QED
  BY <1>3, <1>5, <1>6, <1>7, <1>8, <1>9, OrphanFrame

LEMMA OrphanRollsBack ==
  ASSUME Books, OrphanMade, NEW p \in Payment, RollbackRefund(p) PROVE OrphanMade'
<1>1. calling' = [calling EXCEPT ![p] = NoCall] /\ UNCHANGED <<provider, payments, rows>>
  BY DEF RollbackRefund
<1>2. \A q \in Payment : calling'[q].by = "orphan" => calling[q].by = "orphan"
  BY <1>1, Rows DEF NoCall
<1>3. \A q \in Payment : Replayed(<<"orphan", q>>)' <=> Replayed(<<"orphan", q>>)
  BY <1>1 DEF Replayed
<1>4. \A q \in Payment : orphan'[q].state = "done" => orphan[q].state = "done"
  BY Rows DEF RollbackRefund, AfterFailure, JobRow
<1>5. GivenKept
  BY <1>1 DEF GivenKept, provider
<1> QED
  BY <1>1, <1>2, <1>3, <1>4, <1>5, OrphanFrame

LEMMA OrphanRuns == ASSUME Books, OrphanMade, NEW p \in Payment, RunOrphan(p) PROVE OrphanMade'
<1>1. CASE StartOrphan(p)
  <2>1. payments[p].amount \in Int /\ "orphan" \in Caller
    BY Rows, OrderAssumption DEF PaymentRow
  <2>2. \A q \in Payment : orphan'[q].state = "done" => orphan[q].state = "done"
    BY <1>1, Rows DEF StartOrphan, Tried, JobRow
  <2> QED
    BY <1>1, <2>1, <2>2, OrphanCalls DEF StartOrphan
<1>2. CASE OrphanEndsAtOnce(p)
  <2>1. UNCHANGED <<provider, payments, rows, calling>>
    BY <1>2 DEF OrphanEndsAtOnce
  <2>2. \A q \in Payment : Replayed(<<"orphan", q>>)' <=> Replayed(<<"orphan", q>>)
    BY <2>1 DEF Replayed
  <2>3. \A q \in Payment : orphan'[q].state = "done" =>
          orphan[q].state = "done" \/ Replayed(<<"orphan", q>>)'
    <3>1. CASE Replayed(<<"orphan", p>>) /\ orphan' = [orphan EXCEPT ![p].state = "done"]
      BY <2>2, <3>1, Rows
    <3>2. CASE orphan' = [orphan EXCEPT ![p] = AfterFailure(Tried(@))]
      BY <3>2, Rows DEF AfterFailure, Tried, JobRow
    <3> QED
      BY <1>2, <3>1, <3>2 DEF OrphanEndsAtOnce
  <2>4. GivenKept
    BY <2>1 DEF GivenKept, provider
  <2> QED
    BY <2>1, <2>2, <2>3, <2>4, OrphanFrame
<1> QED
  BY <1>1, <1>2 DEF RunOrphan

LEMMA InitOrphanMade == Init => OrphanMade
BY DEF Init, OrphanMade, NoCall, Replayed

LEMMA StepOrphanMade == Books /\ Inv /\ OrphanMade /\ [Next]_vars => OrphanMade'
<1> SUFFICES ASSUME Books, Inv, OrphanMade, [Next]_vars PROVE OrphanMade'
  OBVIOUS
<1>1. CASE ProviderNext /\ UNCHANGED local
  <2>1. GivenKept
    BY <1>1, ProviderKeepsGiven
  <2>2. \A p \in Payment : Replayed(<<"orphan", p>>)' <=> Replayed(<<"orphan", p>>)
    BY <1>1 DEF Replayed, local
  <2> QED
    BY <1>1, <2>1, <2>2, OrphanFrame DEF local
<1>2. ASSUME NEW total \in Totals, Create(total) PROVE OrphanMade'
  <2>1. Attempt[1] \in Payment
    BY OrderAssumption
  <2>2. CASE StartOnline(Attempt[1], total)
    BY <1>2, <2>1, <2>2, OrphanStarts DEF Create
  <2>3. CASE UNCHANGED <<payments, given>>
    BY <1>2, <2>3, OrphanRests DEF Create
  <2> QED
    BY <1>2, <2>2, <2>3 DEF Create
<1>3. CASE RetryOrderPayment
  <2>1. PICK n : n = order.attempts + 1
    OBVIOUS
  <2>2. n <= Len(Attempt) /\ StartOnline(Attempt[n], order.total) /\ UNCHANGED <<rows, calling, orphan>>
    BY <1>3, <2>1 DEF RetryOrderPayment
  <2>3. order.attempts \in Nat
    BY DEF Inv, OrderShape
  <2>4. Attempt[n] \in Payment
    BY <2>1, <2>2, <2>3, OrderAssumption
  <2> QED
    BY <2>2, <2>4, OrphanStarts
<1>4. ASSUME NEW p \in StaffPayment, NEW amount \in 1..MaxAmount, StaffPays(p, amount)
      PROVE  OrphanMade'
  <2>1. p \in Payment
    BY DEF StaffPayment
  <2> QED
    BY <1>4, <2>1, OrphanStarts DEF StaffPays
<1>5. CASE Webhook
  <2>1. ASSUME NEW p \in Payment, Succeeded(p) PROVE OrphanMade'
    <3>1. \A q \in Payment : orphan'[q].state = "done" => orphan[q].state = "done"
      BY <2>1, Rows DEF Succeeded, OnPaymentSucceeded, JobRow
    <3> QED
      BY <2>1, <3>1, OrphanSettles DEF Succeeded
  <2>2. ASSUME NEW p \in Payment, PaymentFailed(p) PROVE OrphanMade'
    BY <2>2, OrphanSettles DEF PaymentFailed
  <2>3. ASSUME NEW p \in Payment, IntentCanceled(p) PROVE OrphanMade'
    BY <2>3, OrphanSettles DEF IntentCanceled
  <2>4. ASSUME NEW p \in Payment, NEW e \in events, ChargeRefunded(p, e) PROVE OrphanMade'
    BY <2>4, ChargeGrows, OrphanAbsorbs DEF ChargeRefunded
  <2>5. ASSUME NEW p \in Payment, NEW e \in events, RefundUpdated(p, e) PROVE OrphanMade'
    BY <2>5, UpdatedGrows, OrphanAbsorbs DEF RefundUpdated
  <2> QED
    BY <1>5, <2>1, <2>2, <2>3, <2>4, <2>5 DEF Webhook
<1>6. ASSUME NEW by \in Desk, NEW p \in Payment, NEW amount \in 1..MaxAmount,
             RefundRequest(by, p, amount)
      PROVE  OrphanMade'
  <2>1. by \in Caller /\ by # "orphan" /\ amount \in Int
    BY DEF Desk
  <2> QED
    BY <1>6, <2>1, OrphanCalls DEF RefundRequest
<1>7. ASSUME NEW p \in Payment, RunOrphan(p) \/ CommitRefund(p) \/ RollbackRefund(p)
      PROVE  OrphanMade'
  BY <1>7, OrphanRuns, OrphanCommits, OrphanRollsBack
<1>8. CASE TimePasses
  BY <1>8, OrphanRests DEF TimePasses, provider
<1>9. CASE ExpireOrder
  BY <1>9, OrphanRests DEF ExpireOrder, provider
<1>10. CASE ProcessOrder \/ ShipOrder \/ DeliverOrder
  BY <1>10, OrphanRests DEF ProcessOrder, ShipOrder, DeliverOrder, Move, provider
<1>11. CASE CancelOrder
  <2>1. CASE order.paidBy # NoPayment /\ CallProvider("cancel", order.paidBy, ToRefund)
    <3>1. order.paidBy \in Payment /\ "cancel" \in Caller
      BY <2>1, OrderAssumption DEF Inv, OrderShape
    <3>2. ToRefund \in Int
      BY Rows DEF ToRefund, OrderRow
    <3> QED
      BY <1>11, <2>1, <3>1, <3>2, OrphanCalls DEF CancelOrder
  <2>2. CASE UNCHANGED <<provider, calling>>
    BY <1>11, <2>2, OrphanRests DEF CancelOrder, provider
  <2> QED
    BY <1>11, <2>1, <2>2 DEF CancelOrder
<1>12. CASE UNCHANGED vars
  BY <1>12, OrphanRests DEF vars
<1> QED
  BY <1>1, <1>2, <1>3, <1>4, <1>5, <1>6, <1>7, <1>8, <1>9, <1>10, <1>11, <1>12 DEF Next

(* A refund job that is done has had the whole payment given back           *)
(* (orders.ts: refundOrphanPayment), whatever was rolled back, retried or   *)
(* reported by webhooks in between.                                         *)
THEOREM OrphanRefunded == Spec => []OrphanGivenBack
<1>1. OrphanMade => OrphanGivenBack
  BY DEF OrphanMade, OrphanGivenBack, Made
<1> QED
  BY <1>1, InitOrphanMade, StepOrphanMade, BooksAlways, InvAlways, PTL DEF Spec

-----------------------------------------------------------------------------
(* Counting the refunds of a payment.                                       *)

Counts(p, r) == IF PaymentOf(r.id) = p /\ r.status # "failed" THEN r.amount ELSE 0
RowSum(p, rs) == SumFunctionOnSet([r \in rs |-> Counts(p, r)], rs)
DiffSum(ds) == SumFunctionOnSet([d \in ds |-> d.amount], ds)
DiffRow == [at: 1..MaxAmount, amount: 1..MaxAmount]

LEMMA CountsNat == ASSUME NEW p, NEW r \in RefundRow PROVE Counts(p, r) \in Nat
BY ProviderAssumption DEF Counts, RefundRow

LEMMA RowSumNat ==
  ASSUME NEW p, NEW rs \in SUBSET RefundRow, IsFiniteSet(rs) PROVE RowSum(p, rs) \in Nat
<1> DEFINE f == [r \in rs |-> Counts(p, r)]
<1>1. \A r \in rs : f[r] \in Nat
  BY CountsNat
<1>2. SumFunctionOnSet(f, rs) \in Nat
  <2> HIDE DEF f
  <2> QED
    BY <1>1, SumOfNats
<1> QED
  BY <1>2 DEF RowSum

LEMMA RowSumAdd ==
  ASSUME NEW p, NEW rs \in SUBSET RefundRow, IsFiniteSet(rs), NEW row \in RefundRow, row \notin rs
  PROVE  RowSum(p, rs \cup {row}) = RowSum(p, rs) + Counts(p, row)
<1> DEFINE f == [r \in rs \cup {row} |-> Counts(p, r)]
           g == [r \in rs |-> Counts(p, r)]
<1>1. \A r \in rs \cup {row} : f[r] \in Int
  BY CountsNat
<1>2. \A r \in rs : g[r] = f[r]
  OBVIOUS
<1>3. f[row] = Counts(p, row)
  OBVIOUS
<1>4. RowSum(p, rs \cup {row}) = SumFunctionOnSet(f, rs \cup {row}) /\ RowSum(p, rs) = SumFunctionOnSet(g, rs)
  BY DEF RowSum
<1>5. RowSum(p, rs) \in Nat /\ Counts(p, row) \in Nat
  BY RowSumNat, CountsNat
<1> HIDE DEF f, g
<1>6. SumFunctionOnSet(g, rs) = SumFunctionOnSet(f, rs)
  BY <1>2, SumSame
<1>7. SumFunctionOnSet(f, rs \cup {row}) = f[row] + SumFunctionOnSet(f, rs)
  BY <1>1, SumAdd
<1> QED
  BY <1>3, <1>4, <1>5, <1>6, <1>7

(* A row takes the place of another.                                        *)
LEMMA RowSumSwap ==
  ASSUME NEW p, NEW rs \in SUBSET RefundRow, IsFiniteSet(rs), NEW r \in rs, NEW n \in RefundRow,
         n \notin rs \ {r}
  PROVE  RowSum(p, (rs \ {r}) \cup {n}) = RowSum(p, rs) - Counts(p, r) + Counts(p, n)
<1>1. PICK rest \in SUBSET RefundRow : rest = rs \ {r}
  OBVIOUS
<1>2. IsFiniteSet(rest) /\ rs = rest \cup {r} /\ r \notin rest /\ r \in RefundRow /\ n \notin rest
  BY <1>1, FS_RemoveElement
<1>3. RowSum(p, rest \cup {r}) = RowSum(p, rest) + Counts(p, r)
  BY <1>2, RowSumAdd
<1>4. RowSum(p, rest \cup {n}) = RowSum(p, rest) + Counts(p, n)
  BY <1>2, RowSumAdd
<1>5. RowSum(p, rest) \in Nat /\ Counts(p, r) \in Nat /\ Counts(p, n) \in Nat
  BY <1>2, RowSumNat, CountsNat
<1>6. RowSum(p, rs) = RowSum(p, rest) + Counts(p, r)
  BY <1>2, <1>3
<1>7. RowSum(p, (rs \ {r}) \cup {n}) = RowSum(p, rest) + Counts(p, n)
  BY <1>1, <1>4
<1> QED
  BY <1>5, <1>6, <1>7

LEMMA DiffSumNat ==
  ASSUME NEW ds \in SUBSET DiffRow, IsFiniteSet(ds) PROVE DiffSum(ds) \in Nat
<1> DEFINE f == [d \in ds |-> d.amount]
<1>1. \A d \in ds : f[d] \in Nat
  BY ProviderAssumption DEF DiffRow
<1>2. SumFunctionOnSet(f, ds) \in Nat
  <2> HIDE DEF f
  <2> QED
    BY <1>1, SumOfNats
<1> QED
  BY <1>2 DEF DiffSum

LEMMA DiffSumAdd ==
  ASSUME NEW ds \in SUBSET DiffRow, IsFiniteSet(ds), NEW new \in DiffRow, new \notin ds
  PROVE  DiffSum(ds \cup {new}) = DiffSum(ds) + new.amount
<1> DEFINE f == [d \in ds \cup {new} |-> d.amount]
           g == [d \in ds |-> d.amount]
<1>1. \A d \in ds \cup {new} : f[d] \in Int
  BY ProviderAssumption DEF DiffRow
<1>2. \A d \in ds : g[d] = f[d]
  OBVIOUS
<1>3. f[new] = new.amount /\ new.amount \in Int
  BY ProviderAssumption DEF DiffRow
<1>4. DiffSum(ds \cup {new}) = SumFunctionOnSet(f, ds \cup {new}) /\ DiffSum(ds) = SumFunctionOnSet(g, ds)
  BY DEF DiffSum
<1>5. DiffSum(ds) \in Nat
  BY DiffSumNat
<1> HIDE DEF f, g
<1>6. SumFunctionOnSet(g, ds) = SumFunctionOnSet(f, ds)
  BY <1>2, SumSame
<1>7. SumFunctionOnSet(f, ds \cup {new}) = f[new] + SumFunctionOnSet(f, ds)
  BY <1>1, SumAdd
<1> QED
  BY <1>3, <1>4, <1>5, <1>6, <1>7

(* A refund of p that is reported is counted at most once, and not at all   *)
(* for other payments.                                                      *)
LEMMA ApplyCounts ==
  ASSUME NEW amount \in 0..MaxAmount, NEW s \in Sofar(amount), NEW re \in Snapshot, NEW p,
         PaymentOf(re.id) = p, IsFiniteSet(s.rows), OneRowEach(s.rows), NEW more \in Nat,
         s.refunded <= RowSum(p, s.rows) + more
  PROVE  LET t == ApplyProviderRefund(amount, s, re)
         IN  /\ t.refunded <= RowSum(p, t.rows) + more
             /\ \A q : q # p => RowSum(q, t.rows) = RowSum(q, s.rows)
<1>1. PICK t : t = ApplyProviderRefund(amount, s, re)
  OBVIOUS
<1>2. t \in Sofar(amount) /\ (t = s \/ NewRow(amount, s, re, t) \/ NewState(amount, s, re, t))
  BY <1>1, ApplyCases
<1>3. /\ MaxAmount \in Nat /\ amount \in Nat /\ s.refunded \in 0..amount
      /\ s.rows \in SUBSET RefundRow /\ t.rows \in SUBSET RefundRow
  BY <1>2, ProviderAssumption DEF Sofar
<1>4. \A q : RowSum(q, s.rows) \in Nat
  BY <1>3, RowSumNat
<1>5. CASE NewRow(amount, s, re, t)
  <2>1. PICK paid : paid = Fewer(re.amount, amount - s.refunded)
    OBVIOUS
  <2>2. PICK row : row = [id |-> re.id, amount |-> paid, status |-> re.state, api |-> FALSE]
    OBVIOUS
  <2>3. /\ row \notin s.rows /\ t.rows = s.rows \cup {row} /\ t.refunded = s.refunded + paid
        /\ re.state # "failed"
    BY <1>5, <2>1, <2>2 DEF NewRow
  <2>4. row \in RefundRow
    BY <1>3, <2>3
  <2>5. Counts(p, row) = paid /\ \A q : q # p => Counts(q, row) = 0
    BY <2>2, <2>3 DEF Counts
  <2>6. \A q : RowSum(q, t.rows) = RowSum(q, s.rows) + Counts(q, row)
    BY <1>3, <2>3, <2>4, RowSumAdd
  <2>7. Counts(p, row) \in Nat
    BY <2>4, CountsNat
  <2>8. t.refunded <= RowSum(p, t.rows) + more
    <3>1. PICK before \in Nat : before = RowSum(p, s.rows)
      BY <1>4
    <3>2. RowSum(p, t.rows) = before + paid /\ s.refunded <= before + more /\ paid \in Nat
      BY <2>5, <2>6, <2>7, <3>1
    <3> QED
      BY <1>3, <2>3, <3>2
  <2>9. \A q : q # p => RowSum(q, t.rows) = RowSum(q, s.rows)
    <3> TAKE q
    <3> HAVE q # p
    <3>1. RowSum(q, t.rows) = RowSum(q, s.rows) + Counts(q, row) /\ Counts(q, row) = 0
      BY <2>5, <2>6
    <3>2. RowSum(q, s.rows) \in Nat
      BY <1>4
    <3> QED
      BY <3>1, <3>2
  <2> QED
    BY <1>1, <2>8, <2>9
<1>6. CASE NewState(amount, s, re, t)
  <2>1. PICK r \in s.rows :
          /\ r.id = re.id /\ r.status # re.state
          /\ t.rows = (s.rows \ {r}) \cup {[r EXCEPT !.status = re.state]}
          /\ \/ /\ re.state = "failed"
                /\ t.refunded = IF s.refunded > r.amount THEN s.refunded - r.amount ELSE 0
             \/ /\ re.state # "failed" /\ r.status = "failed"
                /\ t.refunded = Fewer(amount, s.refunded + r.amount)
             \/ /\ re.state # "failed" /\ r.status # "failed"
                /\ t.refunded = s.refunded
    BY <1>6 DEF NewState
  <2>2. r \in RefundRow /\ re.state \in RefundState
    BY <1>3 DEF Snapshot
  <2>3. PICK n : n = [r EXCEPT !.status = re.state]
    OBVIOUS
  <2>4. n \in RefundRow /\ n.id = r.id /\ n.amount = r.amount /\ n.status = re.state
    BY <2>2, <2>3 DEF RefundRow
  <2>5. t.rows = (s.rows \ {r}) \cup {n}
    BY <2>1, <2>3
  <2>6. n \notin s.rows \ {r}
    BY <2>4 DEF OneRowEach
  <2>7. \A q : RowSum(q, t.rows) = RowSum(q, s.rows) - Counts(q, r) + Counts(q, n)
    BY <1>3, <2>4, <2>5, <2>6, RowSumSwap
  <2>8. /\ Counts(p, r) = IF r.status = "failed" THEN 0 ELSE r.amount
        /\ Counts(p, n) = IF re.state = "failed" THEN 0 ELSE r.amount
    BY <2>1, <2>4 DEF Counts
  <2>9. \A q : q # p => Counts(q, r) = 0 /\ Counts(q, n) = 0
    BY <2>1, <2>4 DEF Counts
  <2>10. r.amount \in Nat
    BY <1>3, <2>2 DEF RefundRow
  <2>11. \A q : q # p => RowSum(q, t.rows) = RowSum(q, s.rows)
    <3> TAKE q
    <3> HAVE q # p
    <3>1. RowSum(q, t.rows) = RowSum(q, s.rows) - 0 + 0 /\ RowSum(q, s.rows) \in Nat
      BY <1>4, <2>7, <2>9
    <3> QED
      BY <3>1
  <2>12. t.refunded <= RowSum(p, t.rows) + more
    <3>1. PICK before \in Nat : before = RowSum(p, s.rows)
      BY <1>4
    <3>2. PICK after : after = RowSum(p, t.rows)
      OBVIOUS
    <3>3. after = before - Counts(p, r) + Counts(p, n) /\ s.refunded <= before + more
      BY <2>7, <3>1, <3>2
    <3>4. after \in Nat
      <4>1. IsFiniteSet(t.rows)
        <5>1. IsFiniteSet(s.rows \ {r})
          BY FS_RemoveElement
        <5> QED
          BY <2>5, <5>1, FS_AddElement
      <4> QED
        BY <1>3, <3>2, <4>1, RowSumNat
    <3>5. t.refunded <= after + more
      <4>1. CASE re.state = "failed"
        <5>1. after = before - r.amount + 0
          BY <2>1, <2>8, <3>3, <4>1
        <5>2. t.refunded = IF s.refunded > r.amount THEN s.refunded - r.amount ELSE 0
          BY <2>1, <4>1
        <5>3. s.refunded \in Nat
          BY <1>3
        <5> QED
          BY <2>10, <3>1, <3>3, <3>4, <5>1, <5>2, <5>3
      <4>2. CASE re.state # "failed" /\ r.status = "failed"
        BY <1>3, <2>1, <2>8, <2>10, <3>1, <3>3, <3>4, <4>2 DEF Fewer
      <4>3. CASE re.state # "failed" /\ r.status # "failed"
        BY <1>3, <2>1, <2>8, <2>10, <3>1, <3>3, <3>4, <4>3
      <4> QED
        BY <4>1, <4>2, <4>3
    <3> QED
      BY <3>2, <3>5
  <2> QED
    BY <1>1, <2>11, <2>12
<1>7. CASE t = s
  BY <1>1, <1>7
<1> QED
  BY <1>2, <1>5, <1>6, <1>7

(* Counting a row does not depend on whether it is pending.                 *)
LEMMA PendingCounts ==
  ASSUME NEW p, NEW rs \in SUBSET RefundRow, IsFiniteSet(rs), OneRowEach(rs), NEW q
  PROVE  RowSum(q, PendingSucceed(p, rs)) = RowSum(q, rs)
<1> DEFINE new(r) == IF r.status = "pending" /\ PaymentOf(r.id) = p
                     THEN [r EXCEPT !.status = "succeeded"] ELSE r
           m == [r \in rs |-> new(r)]
           f == [r \in rs |-> Counts(q, r)]
           g == [r \in PendingSucceed(p, rs) |-> Counts(q, r)]
<1>1. \A r \in rs : m[r].id = r.id /\ Counts(q, m[r]) = Counts(q, r)
  BY DEF RefundRow, Counts
<1>2. {m[r] : r \in rs} = PendingSucceed(p, rs)
  BY DEF PendingSucceed
<1>3. \A r, o \in rs : m[r] = m[o] => r = o
  <2> HIDE DEF m
  <2> QED
    BY <1>1 DEF OneRowEach
<1>4. \A r \in rs : f[r] \in Int /\ g[m[r]] = f[r]
  <2>1. \A r \in rs : f[r] \in Int
    BY CountsNat
  <2>2. \A r \in rs : m[r] \in PendingSucceed(p, rs)
    BY <1>2
  <2> HIDE DEF m
  <2> QED
    BY <1>1, <2>1, <2>2
<1>5. RowSum(q, rs) = SumFunctionOnSet(f, rs)
      /\ RowSum(q, PendingSucceed(p, rs)) = SumFunctionOnSet(g, PendingSucceed(p, rs))
  BY DEF RowSum
<1> HIDE DEF m, f, g
<1>6. SumFunctionOnSet(g, {m[r] : r \in rs}) = SumFunctionOnSet(f, rs)
  BY <1>3, <1>4, SumImage
<1> QED
  BY <1>2, <1>5, <1>6

(* A payment's refunded amount is covered by its refunds.                   *)
Covered(p, refunded, rs, ds) == refunded <= RowSum(p, rs) + DiffSum(ds)

(* The provider's answer to a call is never that the refund failed.         *)
Answered == \A p \in Payment : calling[p] # NoCall => calling[p].status # "failed"

Counted ==
  /\ \A p \in Payment : Covered(p, payments[p].refunded, rows, diffs[p])
  /\ Answered

LEMMA SumsNat ==
  ASSUME Books
  PROVE  /\ IsFiniteSet(rows) /\ rows \in SUBSET RefundRow
         /\ \A p \in Payment : /\ RowSum(p, rows) \in Nat /\ DiffSum(diffs[p]) \in Nat
                                /\ diffs[p] \in SUBSET DiffRow /\ IsFiniteSet(diffs[p])
                                /\ payments[p].refunded \in Nat
<1>1. IsFiniteSet(rows) /\ rows \in SUBSET RefundRow
  BY Rows DEF Books, RowsKnown
<1>2. \A p \in Payment : diffs[p] \in SUBSET DiffRow /\ IsFiniteSet(diffs[p])
  BY Rows DEF DiffRow, Books, DiffsFinite
<1>3. \A p \in Payment : payments[p].refunded \in Nat
  BY Rows DEF PaymentRow
<1> QED
  BY <1>1, <1>2, <1>3, RowSumNat, DiffSumNat

(* A step that records no refund.                                           *)
LEMMA CountedRests ==
  ASSUME Books, Counted, UNCHANGED <<rows, diffs>>, Answered',
         \A p \in Payment : payments'[p].refunded = 0 \/ payments'[p].refunded = payments[p].refunded
  PROVE  Counted'
<1> SUFFICES ASSUME NEW p \in Payment PROVE Covered(p, payments'[p].refunded, rows, diffs[p])
  BY DEF Counted, Covered, RowSum, DiffSum, Counts
<1>1. RowSum(p, rows) \in Nat /\ DiffSum(diffs[p]) \in Nat
  BY SumsNat
<1> QED
  BY <1>1 DEF Counted, Covered

LEMMA CountedStarts ==
  ASSUME Books, Counted, NEW p \in Payment, NEW amount, StartOnline(p, amount),
         UNCHANGED <<rows, diffs, calling>>
  PROVE  Counted'
<1>1. Answered'
  BY DEF Counted, Answered
<1>2. \A q \in Payment : payments'[q].refunded = 0 \/ payments'[q].refunded = payments[q].refunded
  BY Rows DEF StartOnline
<1> QED
  BY <1>1, <1>2, CountedRests

LEMMA CountedSettles ==
  ASSUME Books, Counted, NEW p \in Payment, NEW status, Settle(p, status),
         UNCHANGED <<rows, diffs, calling>>
  PROVE  Counted'
<1>1. Answered'
  BY DEF Counted, Answered
<1>2. \A q \in Payment : payments'[q].refunded = payments[q].refunded
  BY Rows DEF Settle, PaymentRow
<1> QED
  BY <1>1, <1>2, CountedRests

LEMMA CountedCalls ==
  ASSUME Books, Counted, NEW p \in Payment, NEW by, NEW amount, CallProvider(by, p, amount),
         UNCHANGED <<payments, rows, diffs>>
  PROVE  Counted'
<1>1. PICK state : /\ state # "failed"
                   /\ calling' = [calling EXCEPT ![p] = [by |-> by, amount |-> amount, status |-> state]]
  <2>1. \A i \in DOMAIN given : given[i].first \in Starts
    <3>1. \A i \in DOMAIN given : given[i] \in Given
      BY Rows
    <3> QED
      BY <3>1 DEF Given
  <2>2. "failed" \notin Starts
    BY ProviderAssumption
  <2> QED
    BY <2>1, <2>2 DEF CallProvider
<1>2. Answered'
  BY <1>1, Rows DEF Counted, Answered
<1> QED
  BY <1>2, CountedRests

(* What a webhook writes.                                                   *)
LEMMA CountedAbsorbs ==
  ASSUME Books, Counted, NEW p \in Payment, NEW s, Absorb(p, s), UNCHANGED calling,
         Covered(p, s.refunded, s.rows, diffs'[p]),
         \A q \in Payment \ {p} : RowSum(q, s.rows) = RowSum(q, rows) /\ diffs'[q] = diffs[q]
  PROVE  Counted'
<1>1. Answered'
  BY DEF Counted, Answered
<1>2. PICK status : payments' = [payments EXCEPT ![p].refunded = s.refunded, ![p].status = status]
  BY DEF Absorb
<1>3. payments'[p].refunded = s.refunded /\ \A q \in Payment : q # p => payments'[q] = payments[q]
  BY <1>2, Rows DEF PaymentRow
<1>4. rows' = s.rows
  BY DEF Absorb
<1>5. \A q \in Payment : Covered(q, payments'[q].refunded, s.rows, diffs'[q])
  <2> TAKE q \in Payment
  <2>1. CASE q = p
    BY <1>3, <2>1
  <2>2. CASE q # p
    BY <1>3, <2>2 DEF Counted, Covered
  <2> QED
    BY <2>1, <2>2
<1> QED
  BY <1>1, <1>4, <1>5 DEF Counted, Covered, RowSum, DiffSum, Counts

LEMMA CountedUpdates ==
  ASSUME Books, Counted, NEW p \in Payment, NEW e \in events, RefundUpdated(p, e)
  PROVE  Counted'
<1>1. e.type = "refund.updated" /\ e.payment = p
  BY DEF RefundUpdated
<1>2. PICK s : s = ApplyProviderRefund(payments[p].amount, Before(p), e.refund)
  OBVIOUS
<1>3. Absorb(p, s) /\ UNCHANGED <<diffs, calling>>
  BY <1>2 DEF RefundUpdated
<1>4. PICK more \in Nat : more = DiffSum(diffs[p])
  BY SumsNat
<1>5. Before(p).refunded <= RowSum(p, Before(p).rows) + more
  BY <1>4, BeforeFacts DEF Counted, Covered
<1>6. PICK b \in Sofar(payments[p].amount) : b = Before(p)
  BY BeforeFacts
<1>7. PICK re \in Snapshot : re = e.refund /\ PaymentOf(re.id) = p
  BY <1>1, EventRefund
<1>8. PICK amount \in 0..MaxAmount : amount = payments[p].amount
  BY BeforeFacts
<1>9. IsFiniteSet(b.rows) /\ OneRowEach(b.rows) /\ b.rows = rows
  BY <1>6, BeforeFacts
<1>10. s = ApplyProviderRefund(amount, b, re)
  BY <1>2, <1>6, <1>7, <1>8
<1>11. /\ s.refunded <= RowSum(p, s.rows) + more
       /\ \A q : q # p => RowSum(q, s.rows) = RowSum(q, b.rows)
  BY <1>5, <1>6, <1>7, <1>8, <1>9, <1>10, ApplyCounts
<1> QED
  BY <1>3, <1>4, <1>9, <1>11, CountedAbsorbs DEF Covered

(* The refunds of a charge, one after the other.                            *)
LEMMA ApplyAllCounts ==
  ASSUME Books, Counted, NEW p \in Payment, NEW e \in events, e.type = "charge.refunded",
         e.payment = p
  PROVE  LET s == ApplyAll(payments[p].amount, Before(p), e.list)
         IN  /\ Covered(p, s.refunded, s.rows, diffs[p])
             /\ \A q \in Payment \ {p} : RowSum(q, s.rows) = RowSum(q, rows)
<1>1. PICK amount \in 0..MaxAmount : amount = payments[p].amount
  BY BeforeFacts
<1>2. PICK more \in Nat : more = DiffSum(diffs[p])
  BY SumsNat
<1> DEFINE G == {t \in Sofar(amount) :
                   /\ IsFiniteSet(t.rows) /\ OneRowEach(t.rows)
                   /\ t.refunded <= RowSum(p, t.rows) + more
                   /\ \A q \in Payment \ {p} : RowSum(q, t.rows) = RowSum(q, rows)}
<1>3. Before(p) \in G
  BY <1>1, <1>2, BeforeFacts DEF Counted, Covered
<1>4. ASSUME NEW t \in G, NEW n \in 1..Len(e.list)
      PROVE  ApplyProviderRefund(amount, t, e.list[n]) \in G
  <2>1. /\ t \in Sofar(amount) /\ IsFiniteSet(t.rows) /\ OneRowEach(t.rows)
        /\ t.refunded <= RowSum(p, t.rows) + more
        /\ \A q \in Payment \ {p} : RowSum(q, t.rows) = RowSum(q, rows)
    OBVIOUS
  <2>2. PICK re \in Snapshot : re = e.list[n] /\ PaymentOf(re.id) = p
    BY EventCharge
  <2>3. PICK u : u = ApplyProviderRefund(amount, t, re)
    OBVIOUS
  <2>4. u \in Sofar(amount)
    BY <2>1, <2>3, ApplyCases
  <2>5. Grown(p, t.rows, u.rows)
    BY <2>1, <2>2, <2>3, ApplyGrows
  <2>6. /\ u.refunded <= RowSum(p, u.rows) + more
        /\ \A q : q # p => RowSum(q, u.rows) = RowSum(q, t.rows)
    <3>1. PICK b \in Sofar(amount) : b = t
      BY <2>1
    <3>2. IsFiniteSet(b.rows) /\ OneRowEach(b.rows) /\ b.refunded <= RowSum(p, b.rows) + more
      BY <2>1, <3>1
    <3>3. u = ApplyProviderRefund(amount, b, re) /\ PaymentOf(re.id) = p
      BY <2>2, <2>3, <3>1
    <3>4. /\ u.refunded <= RowSum(p, u.rows) + more
          /\ \A q : q # p => RowSum(q, u.rows) = RowSum(q, b.rows)
      BY ONLY <3>2, <3>3, p \in Payment, amount \in 0..MaxAmount, b \in Sofar(amount),
              re \in Snapshot, more \in Nat, ApplyCounts
    <3> QED
      BY <3>1, <3>4
  <2>7. u \in G
    BY <2>1, <2>4, <2>5, <2>6 DEF Grown
  <2> QED
    BY <2>2, <2>3, <2>7
<1>5. Len(e.list) \in Nat
  BY EventCharge
<1>6. ApplyAll(amount, Before(p), e.list) \in G
  <2> HIDE DEF G
  <2> QED
    BY <1>3, <1>4, <1>5, ApplyAllInduction
<1> QED
  BY <1>1, <1>2, <1>6 DEF Covered

LEMMA CountedCharges ==
  ASSUME Books, Counted, NEW p \in Payment, NEW e \in events, ChargeRefunded(p, e)
  PROVE  Counted'
<1>1. e.type = "charge.refunded" /\ e.payment = p
  BY DEF ChargeRefunded
<1>2. PICK amount \in 0..MaxAmount : amount = payments[p].amount
  BY BeforeFacts
<1>3. PICK s : s = ApplyAll(amount, Before(p), e.list)
  OBVIOUS
<1>4. s \in Sofar(amount) /\ Grown(p, rows, s.rows)
  BY <1>1, <1>2, <1>3, ApplyAllFacts
<1>5. /\ Covered(p, s.refunded, s.rows, diffs[p])
      /\ \A q \in Payment \ {p} : RowSum(q, s.rows) = RowSum(q, rows)
  BY <1>1, <1>2, <1>3, ApplyAllCounts
<1>6. /\ s.rows \in SUBSET RefundRow /\ s.refunded \in Nat
      /\ IsFiniteSet(s.rows) /\ OneRowEach(s.rows) /\ MaxAmount \in Nat
  BY <1>4, ProviderAssumption DEF Sofar, Grown
<1>7. PICK rs : rs = IF e.list = <<>> THEN PendingSucceed(p, s.rows) ELSE s.rows
  OBVIOUS
<1>8. \A q \in Payment : RowSum(q, rs) = RowSum(q, s.rows)
  BY <1>6, <1>7, PendingCounts
<1>9. PICK diff : diff = Fewer(e.refunded, amount) - s.refunded
  OBVIOUS
<1>10. PICK more \in BOOLEAN : more = (diff > 0 /\ \A d \in diffs[p] : d.at # e.refunded)
  OBVIOUS
<1>11. PICK refunded : refunded = s.refunded + (IF more THEN diff ELSE 0)
  OBVIOUS
<1>12. PICK t : t = [rows |-> rs, refunded |-> refunded, touched |-> s.touched \/ more,
                     told |-> IF more THEN s.refunded + diff ELSE s.told]
  OBVIOUS
<1>13. /\ Absorb(p, t) /\ UNCHANGED calling
       /\ diffs' = IF more THEN [diffs EXCEPT ![p] = @ \cup {[at |-> e.refunded, amount |-> diff]}]
                   ELSE diffs
  BY <1>2, <1>3, <1>7, <1>9, <1>10, <1>11, <1>12 DEF ChargeRefunded
<1>14. t.rows = rs /\ t.refunded = refunded
  BY <1>12
<1>15. RowSum(p, rs) \in Nat /\ RowSum(p, rs) = RowSum(p, s.rows) /\ DiffSum(diffs[p]) \in Nat
  BY <1>6, <1>8, RowSumNat, SumsNat
<1>16. Covered(p, refunded, rs, diffs'[p]) /\ \A q \in Payment \ {p} : diffs'[q] = diffs[q]
  <2>1. CASE more
    <3>1. /\ e.refunded \in 0..MaxAmount /\ s.refunded \in Nat /\ amount \in Nat /\ diff > 0
          /\ \A d \in diffs[p] : d.at # e.refunded
      <4>1. diff > 0 /\ \A d \in diffs[p] : d.at # e.refunded
        BY <1>10, <2>1, Zenon
      <4> QED
        BY <1>1, <1>6, <4>1, EventCharge
    <3>2. diff \in 1..MaxAmount /\ e.refunded \in 1..MaxAmount
      BY <1>6, <1>9, <3>1 DEF Fewer
    <3>3. PICK d \in DiffRow : d = [at |-> e.refunded, amount |-> diff]
      BY <3>2 DEF DiffRow
    <3>4. d \notin diffs[p] /\ d.amount = diff
      BY <3>1, <3>3
    <3>5. diffs'[p] = diffs[p] \cup {d} /\ \A q \in Payment \ {p} : diffs'[q] = diffs[q]
      BY <1>13, <2>1, <3>3, Rows
    <3>6. DiffSum(diffs[p] \cup {d}) = DiffSum(diffs[p]) + diff
      BY <3>4, DiffSumAdd, SumsNat
    <3>7. s.refunded <= RowSum(p, rs) + DiffSum(diffs[p])
      BY <1>5, <1>15 DEF Covered
    <3>8. refunded = s.refunded + diff
      BY <1>11, <2>1
    <3>9. refunded <= RowSum(p, rs) + DiffSum(diffs'[p])
      <4>1. PICK x \in Nat : x = RowSum(p, rs)
        BY <1>15
      <4>2. PICK y \in Nat : y = DiffSum(diffs[p])
        BY <1>15
      <4>3. DiffSum(diffs'[p]) = y + diff
        BY <3>5, <3>6, <4>2
      <4>4. s.refunded <= x + y
        BY <3>7, <4>1, <4>2
      <4>5. s.refunded + diff <= x + (y + diff)
        BY <3>1, <3>2, <4>4
      <4> QED
        BY <3>8, <4>1, <4>3, <4>5
    <3> QED
      BY <3>5, <3>9 DEF Covered
  <2>2. CASE ~more
    <3>1. diffs' = diffs /\ refunded = s.refunded
      BY <1>6, <1>11, <1>13, <2>2
    <3> QED
      BY <1>5, <1>15, <3>1 DEF Covered
  <2> QED
    BY <2>1, <2>2
<1>17. \A q \in Payment \ {p} : RowSum(q, rs) = RowSum(q, rows)
  BY <1>5, <1>8
<1> QED
  BY <1>13, <1>14, <1>16, <1>17, CountedAbsorbs

LEMMA CountedCommits ==
  ASSUME Books, Counted, NEW p \in Payment, CommitRefund(p) PROVE Counted'
<1>1. PICK row \in RefundRow :
        /\ row.id = <<calling[p].by, p>> /\ row.amount = calling[p].amount
        /\ row.status = calling[p].status
        /\ rows' = rows \cup {row} /\ \A r \in rows : r.id # row.id
  BY CommitFacts
<1>2. PICK new \in PaymentRow : /\ new.refunded = payments[p].refunded + calling[p].amount
                                /\ payments' = [payments EXCEPT ![p] = new]
  BY CommitFacts
<1>3. calling[p] # NoCall /\ calling' = [calling EXCEPT ![p] = NoCall] /\ diffs' = diffs
  BY DEF CommitRefund, Free
<1>4. Answered'
  BY <1>3, Rows DEF Counted, Answered
<1>5. Counts(p, row) = calling[p].amount /\ \A q : q # p => Counts(q, row) = 0
  BY <1>1, <1>3 DEF Counts, PaymentOf, Counted, Answered
<1>6. row \notin rows
  BY <1>1
<1>7. \A q : RowSum(q, rows \cup {row}) = RowSum(q, rows) + Counts(q, row)
  BY <1>6, SumsNat, RowSumAdd
<1>8. /\ payments'[p].refunded = payments[p].refunded + calling[p].amount
      /\ \A q \in Payment : q # p => payments'[q] = payments[q]
  BY <1>2, Rows
<1>9. \A q \in Payment : Covered(q, payments'[q].refunded, rows \cup {row}, diffs[q])
  <2> TAKE q \in Payment
  <2>1. PICK x \in Nat : x = RowSum(q, rows)
    BY SumsNat
  <2>2. PICK y \in Nat : y = DiffSum(diffs[q])
    BY SumsNat
  <2>3. PICK had \in Nat : had = payments[q].refunded
    BY SumsNat
  <2>4. had <= x + y
    BY <2>1, <2>2, <2>3 DEF Counted, Covered
  <2>5. PICK c \in Nat : c = Counts(q, row)
    BY CountsNat
  <2>6. payments'[q].refunded = had + c
    <3>1. CASE q = p
      BY <1>5, <1>8, <2>3, <2>5, <3>1
    <3>2. CASE q # p
      BY <1>5, <1>8, <2>3, <2>5, <3>2
    <3> QED
      BY <3>1, <3>2
  <2>7. RowSum(q, rows \cup {row}) = x + c
    BY <1>7, <2>1, <2>5
  <2>8. had + c <= (x + c) + y
    BY <2>4
  <2> QED
    BY <2>2, <2>6, <2>7, <2>8 DEF Covered
<1> QED
  BY <1>1, <1>3, <1>4, <1>9 DEF Counted, Covered, RowSum, DiffSum, Counts

LEMMA InitCounted == Init => Counted
<1> SUFFICES ASSUME Init PROVE Counted
  OBVIOUS
<1>1. Books
  BY InitBooks
<1>2. \A p \in Payment : payments[p].refunded = 0
  BY DEF Init
<1>3. \A p \in Payment : RowSum(p, rows) \in Nat /\ DiffSum(diffs[p]) \in Nat
  BY <1>1, SumsNat
<1>4. Answered
  BY DEF Init, Answered
<1> QED
  BY <1>2, <1>3, <1>4 DEF Counted, Covered

LEMMA StepCounted == Books /\ Inv /\ Counted /\ [Next]_vars => Counted'
<1> SUFFICES ASSUME Books, Inv, Counted, [Next]_vars PROVE Counted'
  OBVIOUS
<1>0. UNCHANGED calling => Answered'
  BY DEF Counted, Answered
<1>1. CASE ProviderNext /\ UNCHANGED local
  BY <1>0, <1>1, CountedRests DEF local
<1>2. ASSUME NEW total \in Totals, Create(total) PROVE Counted'
  <2>1. Attempt[1] \in Payment
    BY OrderAssumption
  <2>2. CASE StartOnline(Attempt[1], total)
    BY <1>2, <2>1, <2>2, CountedStarts DEF Create
  <2>3. CASE UNCHANGED payments
    BY <1>0, <1>2, <2>3, CountedRests DEF Create
  <2> QED
    BY <1>2, <2>2, <2>3 DEF Create
<1>3. CASE RetryOrderPayment
  <2>1. PICK n : n = order.attempts + 1
    OBVIOUS
  <2>2. /\ n <= Len(Attempt) /\ StartOnline(Attempt[n], order.total)
        /\ UNCHANGED <<rows, diffs, calling>>
    BY <1>3, <2>1 DEF RetryOrderPayment
  <2>3. order.attempts \in Nat
    BY DEF Inv, OrderShape
  <2>4. Attempt[n] \in Payment
    BY <2>1, <2>2, <2>3, OrderAssumption
  <2> QED
    BY <2>2, <2>4, CountedStarts
<1>4. ASSUME NEW p \in StaffPayment, NEW amount \in 1..MaxAmount, StaffPays(p, amount)
      PROVE  Counted'
  <2>1. p \in Payment
    BY DEF StaffPayment
  <2> QED
    BY <1>4, <2>1, CountedStarts DEF StaffPays
<1>5. CASE Webhook
  <2>1. ASSUME NEW p \in Payment, Succeeded(p) PROVE Counted'
    BY <2>1, CountedSettles DEF Succeeded
  <2>2. ASSUME NEW p \in Payment, PaymentFailed(p) PROVE Counted'
    BY <2>2, CountedSettles DEF PaymentFailed
  <2>3. ASSUME NEW p \in Payment, IntentCanceled(p) PROVE Counted'
    BY <2>3, CountedSettles DEF IntentCanceled
  <2> QED
    BY <1>5, <2>1, <2>2, <2>3, CountedCharges, CountedUpdates DEF Webhook
<1>6. ASSUME NEW by \in Desk, NEW p \in Payment, NEW amount \in 1..MaxAmount,
             RefundRequest(by, p, amount)
      PROVE  Counted'
  BY <1>6, CountedCalls DEF RefundRequest
<1>7. ASSUME NEW p \in Payment, RunOrphan(p) PROVE Counted'
  <2>1. CASE StartOrphan(p)
    BY <2>1, CountedCalls DEF StartOrphan
  <2>2. CASE OrphanEndsAtOnce(p)
    BY <1>0, <2>2, CountedRests DEF OrphanEndsAtOnce
  <2> QED
    BY <1>7, <2>1, <2>2 DEF RunOrphan
<1>8. ASSUME NEW p \in Payment, RollbackRefund(p) PROVE Counted'
  <2>1. Answered'
    BY <1>8, Rows DEF RollbackRefund, Counted, Answered
  <2> QED
    BY <1>8, <2>1, CountedRests DEF RollbackRefund
<1>9. CASE TimePasses \/ ExpireOrder
  BY <1>0, <1>9, CountedRests DEF TimePasses, ExpireOrder
<1>10. CASE ProcessOrder \/ ShipOrder \/ DeliverOrder
  BY <1>0, <1>10, CountedRests DEF ProcessOrder, ShipOrder, DeliverOrder, Move
<1>11. CASE CancelOrder
  <2>1. CASE order.paidBy # NoPayment /\ CallProvider("cancel", order.paidBy, ToRefund)
    <3>1. order.paidBy \in Payment
      BY <2>1 DEF Inv, OrderShape
    <3> QED
      BY <1>11, <2>1, <3>1, CountedCalls DEF CancelOrder
  <2>2. CASE UNCHANGED calling
    BY <1>0, <1>11, <2>2, CountedRests DEF CancelOrder
  <2> QED
    BY <1>11, <2>1, <2>2 DEF CancelOrder
<1>12. CASE UNCHANGED vars
  BY <1>0, <1>12, CountedRests DEF vars
<1> QED
  BY <1>1, <1>2, <1>3, <1>4, <1>5, <1>6, <1>7, <1>8, <1>9, <1>10, <1>11, <1>12, CountedCommits
     DEF Next

-----------------------------------------------------------------------------
(* The refunds of the provider, and what they come to.                      *)

Has(rs, id) == \E r \in rs : r.id = id

(* The refunds of p that "rs" has rows of.                                  *)
SeenOf(p, rs, i) == IF Has(rs, given[i].id) THEN given[i].amount ELSE 0
Seen(p, rs) == SumFunctionOnSet([i \in RefundsOf(p) |-> SeenOf(p, rs, i)], RefundsOf(p))

ReturnedOf(i) == IF given[i].state = "failed" THEN 0 ELSE given[i].amount

LEMMA ReturnedIs ==
  \A p : Returned(p) = SumFunctionOnSet([i \in RefundsOf(p) |-> ReturnedOf(i)], RefundsOf(p))
BY DEF Returned, ReturnedOf

LEMMA ReturnedIsNext ==
  \A p : Returned(p)' = SumFunctionOnSet([i \in RefundsOf(p)' |-> ReturnedOf(i)'], RefundsOf(p)')
BY DEF Returned, ReturnedOf

LEMMA GivenNats ==
  ASSUME Books, NEW p
  PROVE  /\ IsFiniteSet(RefundsOf(p)) /\ MaxAmount \in Nat
         /\ \A i \in RefundsOf(p) : /\ i \in DOMAIN given /\ given[i] \in Given
                                    /\ given[i].amount \in Nat /\ given[i].amount > 0
                                    /\ ReturnedOf(i) \in Nat
                                    /\ \A rs : SeenOf(p, rs, i) \in Nat
<1>1. IsFiniteSet(RefundsOf(p)) /\ \A i \in RefundsOf(p) : given[i] \in Given
  BY Rows, GivenFinite
<1>2. \A i \in RefundsOf(p) : i \in DOMAIN given
  BY DEF RefundsOf
<1>3. MaxAmount \in Nat
  BY Rows
<1>4. \A i \in RefundsOf(p) : given[i].amount \in Nat /\ given[i].amount > 0
  BY <1>1, <1>3 DEF Given
<1> QED
  BY <1>1, <1>2, <1>3, <1>4 DEF ReturnedOf, SeenOf

LEMMA SeenNat == ASSUME Books, NEW p, NEW rs PROVE Seen(p, rs) \in Nat
<1> DEFINE f == [i \in RefundsOf(p) |-> SeenOf(p, rs, i)]
<1>1. IsFiniteSet(RefundsOf(p)) /\ \A i \in RefundsOf(p) : f[i] \in Nat
  BY GivenNats
<1>2. SumFunctionOnSet(f, RefundsOf(p)) \in Nat
  <2> HIDE DEF f
  <2> QED
    BY <1>1, SumOfNats
<1> QED
  BY <1>2 DEF Seen

(* Only the rows' ids matter, and only those of refunds of p.               *)
LEMMA SeenSame ==
  ASSUME Books, NEW p, NEW rs, NEW ss,
         \A i \in RefundsOf(p) : Has(rs, given[i].id) <=> Has(ss, given[i].id)
  PROVE  Seen(p, rs) = Seen(p, ss)
<1> DEFINE f == [i \in RefundsOf(p) |-> SeenOf(p, rs, i)]
           g == [i \in RefundsOf(p) |-> SeenOf(p, ss, i)]
<1>1. IsFiniteSet(RefundsOf(p)) /\ \A i \in RefundsOf(p) : f[i] = g[i]
  BY GivenNats DEF SeenOf
<1>2. SumFunctionOnSet(f, RefundsOf(p)) = SumFunctionOnSet(g, RefundsOf(p))
  <2> HIDE DEF f, g
  <2> QED
    BY <1>1, SumSame
<1> QED
  BY <1>2 DEF Seen

GivenUnique == \A i, j \in DOMAIN given : given[i].id = given[j].id => i = j

(* A row of a refund that had none.                                         *)
LEMMA SeenAdds ==
  ASSUME Books, GivenUnique, NEW p, NEW rs, NEW ss, NEW k \in RefundsOf(p),
         ~Has(rs, given[k].id), \A id : Has(ss, id) <=> Has(rs, id) \/ id = given[k].id
  PROVE  Seen(p, ss) = Seen(p, rs) + given[k].amount
<1> DEFINE f == [i \in RefundsOf(p) |-> SeenOf(p, rs, i)]
           g == [i \in RefundsOf(p) |-> SeenOf(p, ss, i)]
<1>1. IsFiniteSet(RefundsOf(p)) /\ \A i \in RefundsOf(p) : f[i] \in Int /\ g[i] \in Int
  BY GivenNats
<1>2. \A i \in RefundsOf(p) \ {k} : f[i] = g[i]
  <2> TAKE i \in RefundsOf(p) \ {k}
  <2>1. given[i].id # given[k].id
    BY GivenNats DEF GivenUnique
  <2> QED
    BY <2>1 DEF SeenOf
<1>3. f[k] = 0 /\ g[k] = given[k].amount
  BY DEF SeenOf
<1>4. Seen(p, rs) = SumFunctionOnSet(f, RefundsOf(p)) /\ Seen(p, ss) = SumFunctionOnSet(g, RefundsOf(p))
  BY DEF Seen
<1>5. Seen(p, rs) \in Nat /\ given[k].amount \in Nat
  BY SeenNat, GivenNats
<1> HIDE DEF f, g
<1>6. SumFunctionOnSet(g, RefundsOf(p)) = SumFunctionOnSet(f, RefundsOf(p)) - f[k] + g[k]
  BY ONLY <1>1, <1>2, k \in RefundsOf(p), SumUpdate
<1> QED
  BY <1>3, <1>4, <1>5, <1>6

(* What was seen did go back, when no refund failed.                        *)
LEMMA SeenReturned ==
  ASSUME Books, NEW p, NEW rs, \A i \in RefundsOf(p) : given[i].state # "failed"
  PROVE  Seen(p, rs) <= Returned(p)
<1> DEFINE f == [i \in RefundsOf(p) |-> SeenOf(p, rs, i)]
           g == [i \in RefundsOf(p) |-> ReturnedOf(i)]
<1>1. IsFiniteSet(RefundsOf(p)) /\ \A i \in RefundsOf(p) : f[i] \in Int /\ g[i] \in Int /\ f[i] <= g[i]
  BY GivenNats DEF SeenOf, ReturnedOf
<1>2. Seen(p, rs) = SumFunctionOnSet(f, RefundsOf(p)) /\ Returned(p) = SumFunctionOnSet(g, RefundsOf(p))
  BY ReturnedIs DEF Seen
<1> HIDE DEF f, g
<1> QED
  BY <1>1, <1>2, SumMonotone

LEMMA SeenRoom ==
  ASSUME Books, GivenUnique, NEW p, NEW rs, NEW k \in RefundsOf(p), ~Has(rs, given[k].id),
         \A i \in RefundsOf(p) : given[i].state # "failed"
  PROVE  Seen(p, rs) + given[k].amount <= Returned(p)
<1>1. PICK ss : ss = rs \cup {given[k]}
  OBVIOUS
<1>2. \A id : Has(ss, id) <=> Has(rs, id) \/ id = given[k].id
  BY <1>1 DEF Has
<1>3. Seen(p, ss) = Seen(p, rs) + given[k].amount
  BY <1>2, SeenAdds
<1>4. Seen(p, ss) <= Returned(p)
  BY SeenReturned
<1> QED
  BY <1>3, <1>4

-----------------------------------------------------------------------------
(* The provider makes a refund, or changes its state.                       *)

LEMMA GivenGives ==
  ASSUME Books, NEW id, NEW amount, NEW state, NEW listed, Give(id, amount, state, listed), NEW p
  PROVE  \E k : /\ k \notin DOMAIN given
                /\ DOMAIN given' = DOMAIN given \cup {k}
                /\ \A i \in DOMAIN given : given'[i] = given[i]
                /\ given'[k].id = id /\ given'[k].amount = amount /\ given'[k].state = state
                /\ RefundsOf(p)' = RefundsOf(p) \cup (IF PaymentOf(id) = p THEN {k} ELSE {})
<1>1. PICK g : g = [id |-> id, amount |-> amount, state |-> state, first |-> state]
  OBVIOUS
<1>2. given' = Append(given, g) /\ given \in Seq(Given)
  BY <1>1, Rows DEF Give
<1>3. PICK k : k = Len(given) + 1
  OBVIOUS
<1>4. /\ k \notin DOMAIN given /\ DOMAIN given' = DOMAIN given \cup {k}
      /\ \A i \in DOMAIN given : given'[i] = given[i]
      /\ given'[k] = g
  BY <1>2, <1>3
<1>5. /\ given'[k].id = id /\ given'[k].amount = amount /\ given'[k].state = state
  BY <1>1, <1>4
<1>6. RefundsOf(p)' = {i \in DOMAIN given' : PaymentOf(given'[i].id) = p}
  BY DEF RefundsOf
<1>7. RefundsOf(p)' = RefundsOf(p) \cup (IF PaymentOf(id) = p THEN {k} ELSE {})
  BY <1>4, <1>5, <1>6 DEF RefundsOf
<1> QED
  BY <1>4, <1>5, <1>7

LEMMA ReturnedGives ==
  ASSUME Books, NEW id, NEW amount \in 1..MaxAmount, NEW state \in Starts, NEW listed,
         Give(id, amount, state, listed), NEW p
  PROVE  Returned(p)' = Returned(p) + (IF PaymentOf(id) = p THEN amount ELSE 0)
<1>1. PICK k : /\ k \notin DOMAIN given
               /\ DOMAIN given' = DOMAIN given \cup {k}
               /\ \A i \in DOMAIN given : given'[i] = given[i]
               /\ given'[k].id = id /\ given'[k].amount = amount /\ given'[k].state = state
               /\ RefundsOf(p)' = RefundsOf(p) \cup (IF PaymentOf(id) = p THEN {k} ELSE {})
  BY GivenGives
<1> DEFINE R == RefundsOf(p)'
           f == [i \in RefundsOf(p) |-> ReturnedOf(i)]
           g == [i \in R |-> ReturnedOf(i)']
<1>2. IsFiniteSet(RefundsOf(p)) /\ k \notin RefundsOf(p) /\ amount \in Nat
      /\ \A i \in RefundsOf(p) : i \in R /\ f[i] = g[i] /\ f[i] \in Int
  BY <1>1, GivenNats DEF ReturnedOf
<1>3. Returned(p) = SumFunctionOnSet(f, RefundsOf(p)) /\ Returned(p)' = SumFunctionOnSet(g, R)
  BY ReturnedIs, ReturnedIsNext
<1>4. k \in R => g[k] = amount
  <2>1. state # "failed"
    BY ProviderAssumption
  <2> QED
    BY <1>1, <2>1 DEF ReturnedOf
<1>5. Returned(p) \in Nat
  BY Rows, ReturnedNat
<1>6. R = RefundsOf(p) \cup (IF PaymentOf(id) = p THEN {k} ELSE {})
  BY <1>1
<1> HIDE DEF f, g, R
<1>7. SumFunctionOnSet(f, RefundsOf(p)) = SumFunctionOnSet(g, RefundsOf(p))
  BY <1>2, SumSame
<1>8. CASE PaymentOf(id) = p
  <2>1. R = RefundsOf(p) \cup {k} /\ g[k] = amount
    BY <1>4, <1>6, <1>8
  <2>2. \A i \in RefundsOf(p) \cup {k} : g[i] \in Int
    BY <1>2, <2>1
  <2>3. SumFunctionOnSet(g, RefundsOf(p) \cup {k}) = g[k] + SumFunctionOnSet(g, RefundsOf(p))
    BY <1>2, <2>2, SumAdd
  <2> QED
    BY <1>2, <1>3, <1>5, <1>7, <1>8, <2>1, <2>3
<1>9. CASE PaymentOf(id) # p
  <2>1. R = RefundsOf(p)
    BY <1>6, <1>9
  <2> QED
    BY <1>3, <1>5, <1>7, <1>9, <2>1
<1> QED
  BY <1>8, <1>9

LEMMA SeenGives ==
  ASSUME Books, NEW id, NEW amount \in 1..MaxAmount, NEW state, NEW listed,
         Give(id, amount, state, listed), NEW p, UNCHANGED rows, ~Has(rows, id)
  PROVE  Seen(p, rows)' = Seen(p, rows)
<1>1. PICK k : /\ k \notin DOMAIN given
               /\ \A i \in DOMAIN given : given'[i] = given[i]
               /\ given'[k].id = id
               /\ RefundsOf(p)' = RefundsOf(p) \cup (IF PaymentOf(id) = p THEN {k} ELSE {})
  BY GivenGives
<1> DEFINE R == RefundsOf(p)'
           f == [i \in RefundsOf(p) |-> SeenOf(p, rows, i)]
           g == [i \in R |-> SeenOf(p, rows, i)']
<1>2. IsFiniteSet(RefundsOf(p)) /\ k \notin RefundsOf(p)
      /\ \A i \in RefundsOf(p) : i \in R /\ f[i] = g[i] /\ f[i] \in Int
  BY <1>1, GivenNats DEF SeenOf
<1>3. Seen(p, rows) = SumFunctionOnSet(f, RefundsOf(p)) /\ Seen(p, rows)' = SumFunctionOnSet(g, R)
  BY DEF Seen
<1>4. k \in R => g[k] = 0
  BY <1>1 DEF SeenOf
<1>5. Seen(p, rows) \in Nat
  BY SeenNat
<1>6. R = RefundsOf(p) \cup (IF PaymentOf(id) = p THEN {k} ELSE {})
  BY <1>1
<1> HIDE DEF f, g, R
<1>7. SumFunctionOnSet(f, RefundsOf(p)) = SumFunctionOnSet(g, RefundsOf(p))
  BY <1>2, SumSame
<1>8. CASE PaymentOf(id) = p
  <2>1. R = RefundsOf(p) \cup {k} /\ g[k] = 0
    BY <1>4, <1>6, <1>8
  <2>2. \A i \in RefundsOf(p) \cup {k} : g[i] \in Int
    BY <1>2, <2>1
  <2>3. SumFunctionOnSet(g, RefundsOf(p) \cup {k}) = g[k] + SumFunctionOnSet(g, RefundsOf(p))
    BY <1>2, <2>2, SumAdd
  <2> QED
    BY <1>3, <1>5, <1>7, <2>1, <2>3
<1>9. CASE PaymentOf(id) # p
  <2>1. R = RefundsOf(p)
    BY <1>6, <1>9
  <2> QED
    BY <1>3, <1>7, <2>1
<1> QED
  BY <1>8, <1>9

(* A refund that succeeds or fails.                                         *)
LEMMA UpdateFacts ==
  ASSUME Books, NEW k \in DOMAIN given, NEW state \in RefundState, UpdateRefund(k, state), NEW p
  PROVE  /\ DOMAIN given' = DOMAIN given /\ RefundsOf(p)' = RefundsOf(p)
         /\ given'[k].state = state /\ given[k].state # "failed"
         /\ \A i \in DOMAIN given : /\ given'[i].id = given[i].id
                                    /\ given'[i].amount = given[i].amount
                                    /\ i # k => given'[i] = given[i]
<1>1. \A i \in DOMAIN given : given[i] \in Given
  BY Rows
<1>2. given' = [given EXCEPT ![k].state = state] /\ given[k].state # "failed"
  BY DEF UpdateRefund
<1>3. /\ DOMAIN given' = DOMAIN given /\ given'[k].state = state
      /\ \A i \in DOMAIN given : /\ given'[i].id = given[i].id
                                 /\ given'[i].amount = given[i].amount
                                 /\ i # k => given'[i] = given[i]
  BY <1>1, <1>2 DEF Given
<1>4. RefundsOf(p)' = {i \in DOMAIN given' : PaymentOf(given'[i].id) = p}
  BY DEF RefundsOf
<1>5. RefundsOf(p)' = RefundsOf(p)
  BY <1>3, <1>4 DEF RefundsOf
<1> QED
  BY <1>2, <1>3, <1>5

LEMMA UpdatedSums ==
  ASSUME Books, NEW k \in DOMAIN given, NEW state \in RefundState, UpdateRefund(k, state), NEW p,
         UNCHANGED rows
  PROVE  Returned(p)' <= Returned(p) /\ Seen(p, rows)' = Seen(p, rows)
<1> DEFINE R == RefundsOf(p)
           f == [i \in R |-> ReturnedOf(i)]
           g == [i \in R |-> ReturnedOf(i)']
           d == [i \in R |-> SeenOf(p, rows, i)]
           e == [i \in R |-> SeenOf(p, rows, i)']
<1>1. /\ RefundsOf(p)' = R
      /\ \A i \in R : /\ given'[i].id = given[i].id /\ given'[i].amount = given[i].amount
                      /\ i # k => given'[i] = given[i]
      /\ given[k].state # "failed" /\ IsFiniteSet(R)
  BY UpdateFacts, GivenNats
<1>2. \A i \in R : f[i] \in Int /\ g[i] \in Int /\ g[i] <= f[i]
  <2> TAKE i \in R
  <2>1. given[i].amount \in Nat
    BY GivenNats
  <2>2. g[i] \in {0, given[i].amount} /\ f[i] \in {0, given[i].amount}
    BY <1>1 DEF ReturnedOf
  <2>3. i = k => f[i] = given[i].amount
    BY <1>1 DEF ReturnedOf
  <2>4. i # k => g[i] = f[i]
    BY <1>1 DEF ReturnedOf
  <2> HIDE DEF f, g
  <2> QED
    BY <2>1, <2>2, <2>3, <2>4
<1>3. \A i \in R : d[i] = e[i]
  BY <1>1 DEF SeenOf
<1>4. Returned(p) = SumFunctionOnSet(f, R) /\ Returned(p)' = SumFunctionOnSet(g, R)
  BY <1>1, ReturnedIs, ReturnedIsNext
<1>5. Seen(p, rows) = SumFunctionOnSet(d, R) /\ Seen(p, rows)' = SumFunctionOnSet(e, R)
  BY <1>1 DEF Seen
<1> HIDE DEF f, g, d, e, R
<1>6. SumFunctionOnSet(g, R) <= SumFunctionOnSet(f, R)
  BY <1>1, <1>2, SumMonotone
<1>7. SumFunctionOnSet(d, R) = SumFunctionOnSet(e, R)
  BY <1>1, <1>3, SumSame
<1> QED
  BY <1>4, <1>5, <1>6, <1>7

-----------------------------------------------------------------------------
(* The provider makes each refund once and never gives back more than it    *)
(* took.                                                                    *)

Once == GivenUnique /\ \A p \in Payment : Returned(p) <= payments[p].amount

LEMMA AmountNext == Books' => \A p \in Payment : payments'[p].amount \in Nat
<1>1. Books => \A p \in Payment : payments[p].amount \in Nat
  BY Rows DEF PaymentRow
<1>2. (Books => \A p \in Payment : payments[p].amount \in Nat)'
  BY <1>1, PTL
<1> QED
  BY <1>2

LEMMA OnceRests ==
  ASSUME Books, Books', Once, UNCHANGED given,
         \A p \in Payment : payments[p].status # "none" => payments'[p].amount = payments[p].amount
  PROVE  Once'
<1>1. GivenUnique'
  BY DEF Once, GivenUnique
<1>2. ASSUME NEW p \in Payment PROVE Returned(p)' <= payments'[p].amount
  <2>1. Returned(p)' = Returned(p)
    BY DEF Returned, RefundsOf
  <2>2. CASE payments[p].status # "none"
    BY <2>1, <2>2 DEF Once
  <2>3. CASE payments[p].status = "none"
    <3>1. RefundsOf(p) = {}
      BY <2>3 DEF Books, EventsKnown, RefundsOf
    <3>2. Returned(p) = 0
      BY <3>1, ReturnedIs, SumEmpty
    <3>3. payments'[p].amount \in Nat
      BY AmountNext
    <3> QED
      BY <2>1, <3>2, <3>3
  <2> QED
    BY <2>2, <2>3
<1> QED
  BY <1>1, <1>2 DEF Once

LEMMA OnceGives ==
  ASSUME Books, Once, NEW id \in RefundId, NEW amount \in 1..MaxAmount, NEW state \in Starts,
         NEW listed, Give(id, amount, state, listed), UNCHANGED payments
  PROVE  Once'
<1>1. GivenUnique'
  <2>1. PICK k : /\ k \notin DOMAIN given
                 /\ DOMAIN given' = DOMAIN given \cup {k}
                 /\ \A i \in DOMAIN given : given'[i] = given[i]
                 /\ given'[k].id = id
    <3>1. PICK p : p = PaymentOf(id)
      OBVIOUS
    <3>2. \E k : /\ k \notin DOMAIN given
                 /\ DOMAIN given' = DOMAIN given \cup {k}
                 /\ \A i \in DOMAIN given : given'[i] = given[i]
                 /\ given'[k].id = id /\ given'[k].amount = amount /\ given'[k].state = state
                 /\ RefundsOf(p)' = RefundsOf(p) \cup (IF PaymentOf(id) = p THEN {k} ELSE {})
      BY GivenGives
    <3> QED
      BY <3>2
  <2>2. \A i \in DOMAIN given : given[i].id # id
    BY DEF Give
  <2> QED
    BY <2>1, <2>2 DEF Once, GivenUnique
<1>2. ASSUME NEW p \in Payment PROVE Returned(p)' <= payments'[p].amount
  <2>1. Returned(p)' = Returned(p) + (IF PaymentOf(id) = p THEN amount ELSE 0)
    BY ReturnedGives
  <2>2. Returned(p) \in Nat /\ Returned(p) <= payments[p].amount
    BY Rows, ReturnedNat DEF Once
  <2>3. CASE PaymentOf(id) = p
    <3>1. Returned(p) + amount <= intent[p].amount
      BY <2>3 DEF Give
    <3>2. intent[p].amount = payments[p].amount
      BY DEF Books, Money
    <3> QED
      BY <2>1, <2>3, <3>1, <3>2
  <2>4. CASE PaymentOf(id) # p
    BY <2>1, <2>2, <2>4
  <2> QED
    BY <2>3, <2>4
<1> QED
  BY <1>1, <1>2 DEF Once

LEMMA OnceUpdates ==
  ASSUME Books, Once, NEW k \in DOMAIN given, NEW state \in RefundState, UpdateRefund(k, state),
         UNCHANGED <<payments, rows>>
  PROVE  Once'
<1>1. GivenUnique'
  BY UpdateFacts DEF Once, GivenUnique
<1>2. ASSUME NEW p \in Payment PROVE Returned(p)' <= payments'[p].amount
  <2>1. Returned(p)' <= Returned(p) /\ Returned(p) <= payments[p].amount
    BY UpdatedSums DEF Once
  <2>2. Returned(p) \in Nat /\ payments[p].amount \in Nat
    BY Rows, ReturnedNat DEF PaymentRow
  <2>3. Returned(p)' \in Nat
    <3>1. \A i \in RefundsOf(p)' : ReturnedOf(i)' \in Nat
      <4>1. \A i \in RefundsOf(p) : given[i].amount \in Nat /\ given'[i].amount = given[i].amount
        BY GivenNats, UpdateFacts
      <4>2. RefundsOf(p)' = RefundsOf(p)
        BY UpdateFacts
      <4> QED
        BY <4>1, <4>2 DEF ReturnedOf
    <3> DEFINE R == RefundsOf(p)'
               f == [i \in R |-> ReturnedOf(i)']
    <3>2. IsFiniteSet(R)
      BY GivenNats, UpdateFacts
    <3>3. Returned(p)' = SumFunctionOnSet(f, R)
      BY ReturnedIsNext
    <3>4. \A i \in R : f[i] \in Nat
      BY <3>1
    <3> HIDE DEF f, R
    <3> QED
      BY <3>2, <3>3, <3>4, SumOfNats
  <2> QED
    BY <2>1, <2>2, <2>3
<1> QED
  BY <1>1, <1>2 DEF Once

LEMMA OnceCalls ==
  ASSUME Books, Books', Once, NEW p \in Payment, NEW by \in Caller, NEW amount \in Int,
         CallProvider(by, p, amount), UNCHANGED payments
  PROVE  Once'
<1>1. CASE UNCHANGED provider
  BY <1>1, OnceRests DEF provider
<1>2. CASE \E state \in Starts, listed \in ListModes : Give(<<by, p>>, amount, state, listed)
  <2>1. <<by, p>> \in RefundId /\ amount \in 1..MaxAmount
    BY CallRowIs DEF RefundId
  <2> QED
    BY <1>2, <2>1, OnceGives
<1> QED
  BY <1>1, <1>2 DEF CallProvider

LEMMA InitOnce == Init => Once
<1> SUFFICES ASSUME Init PROVE Once
  OBVIOUS
<1>1. given = <<>>
  BY DEF Init, ProviderInit
<1>2. \A p : RefundsOf(p) = {}
  BY <1>1 DEF RefundsOf
<1>3. \A p : Returned(p) = 0
  BY <1>2, ReturnedIs, SumEmpty
<1>4. \A p \in Payment : payments[p].amount = 0
  BY DEF Init
<1> QED
  BY <1>1, <1>3, <1>4 DEF Once, GivenUnique

LEMMA StepOnce == Books /\ Books' /\ Inv /\ Once /\ [Next]_vars => Once'
<1> SUFFICES ASSUME Books, Books', Inv, Once, [Next]_vars PROVE Once'
  OBVIOUS
<1>1. CASE ProviderNext /\ UNCHANGED local
  <2>1. ASSUME NEW p \in Payment, Pay(p) \/ Decline(p) \/ PayAgain(p) \/ CancelIntent(p) PROVE Once'
    <3>1. UNCHANGED <<given, payments>>
      BY <1>1, <2>1 DEF Pay, Decline, PayAgain, CancelIntent, local
    <3> QED
      BY <3>1, OnceRests
  <2>2. ASSUME NEW id \in RefundId, NEW amount \in 1..MaxAmount, RefundOnBoard(id, amount)
        PROVE  Once'
    BY <1>1, <2>2, OnceGives DEF RefundOnBoard, local
  <2>3. ASSUME NEW k \in DOMAIN given, NEW state \in RefundState, UpdateRefund(k, state)
        PROVE  Once'
    BY <1>1, <2>3, OnceUpdates DEF local
  <2> QED
    BY <1>1, <2>1, <2>2, <2>3 DEF ProviderNext
<1>2. ASSUME NEW p \in Payment, NEW amount, StartOnline(p, amount) PROVE Once'
  <2>1. \A q \in Payment : payments[q].status # "none" => payments'[q].amount = payments[q].amount
    BY <1>2, Rows DEF StartOnline
  <2> QED
    BY <1>2, <2>1, OnceRests DEF StartOnline
<1>3. UNCHANGED <<given, payments>> => Once'
  BY OnceRests
<1>4. ASSUME NEW total \in Totals, Create(total) PROVE Once'
  <2>1. Attempt[1] \in Payment
    BY OrderAssumption
  <2> QED
    BY <1>2, <1>3, <1>4, <2>1 DEF Create
<1>5. CASE RetryOrderPayment
  <2>1. PICK n : n = order.attempts + 1
    OBVIOUS
  <2>2. n <= Len(Attempt) /\ StartOnline(Attempt[n], order.total)
    BY <1>5, <2>1 DEF RetryOrderPayment
  <2>3. order.attempts \in Nat
    BY DEF Inv, OrderShape
  <2>4. Attempt[n] \in Payment
    BY <2>1, <2>2, <2>3, OrderAssumption
  <2> QED
    BY <1>2, <2>2, <2>4
<1>6. ASSUME NEW p \in StaffPayment, NEW amount \in 1..MaxAmount, StaffPays(p, amount) PROVE Once'
  BY <1>2, <1>6 DEF StaffPays, StaffPayment
<1>7. CASE Webhook
  <2>1. ASSUME NEW p \in Payment, NEW status, Settle(p, status), UNCHANGED given PROVE Once'
    <3>1. \A q \in Payment : payments'[q].amount = payments[q].amount
      BY <2>1, Rows DEF Settle, PaymentRow
    <3> QED
      BY <2>1, <3>1, OnceRests
  <2>2. ASSUME NEW p \in Payment, NEW s, Absorb(p, s), UNCHANGED given PROVE Once'
    BY <2>2, AbsorbKeeps, OnceRests
  <2>3. ASSUME NEW p \in Payment, Succeeded(p) \/ PaymentFailed(p) \/ IntentCanceled(p) PROVE Once'
    BY <2>1, <2>3 DEF Succeeded, PaymentFailed, IntentCanceled
  <2>4. ASSUME NEW p \in Payment, NEW e \in events, ChargeRefunded(p, e) PROVE Once'
    BY <2>2, <2>4 DEF ChargeRefunded
  <2>5. ASSUME NEW p \in Payment, NEW e \in events, RefundUpdated(p, e) PROVE Once'
    BY <2>2, <2>5 DEF RefundUpdated
  <2> QED
    BY <1>7, <2>3, <2>4, <2>5 DEF Webhook
<1>8. ASSUME NEW by \in Desk, NEW p \in Payment, NEW amount \in 1..MaxAmount,
             RefundRequest(by, p, amount)
      PROVE  Once'
  <2>1. by \in Caller /\ amount \in Int
    BY DEF Desk
  <2> QED
    BY <1>8, <2>1, OnceCalls DEF RefundRequest
<1>9. ASSUME NEW p \in Payment, RunOrphan(p) PROVE Once'
  <2>1. CASE StartOrphan(p)
    <3>1. payments[p].amount \in Int /\ "orphan" \in Caller
      BY Rows, OrderAssumption DEF PaymentRow
    <3> QED
      BY <2>1, <3>1, OnceCalls DEF StartOrphan
  <2>2. CASE OrphanEndsAtOnce(p)
    BY <1>3, <2>2 DEF OrphanEndsAtOnce, provider
  <2> QED
    BY <1>9, <2>1, <2>2 DEF RunOrphan
<1>10. ASSUME NEW p \in Payment, CommitRefund(p) PROVE Once'
  <2>1. PICK new \in PaymentRow : /\ new.amount = payments[p].amount
                                  /\ payments' = [payments EXCEPT ![p] = new]
    BY <1>10, CommitFacts
  <2>2. \A q \in Payment : payments'[q].amount = payments[q].amount
    BY <2>1, Rows
  <2>3. UNCHANGED given
    BY <1>10 DEF CommitRefund, provider
  <2> QED
    BY <2>2, <2>3, OnceRests
<1>11. ASSUME NEW p \in Payment, RollbackRefund(p) PROVE Once'
  BY <1>3, <1>11 DEF RollbackRefund, provider
<1>12. CASE TimePasses \/ ExpireOrder \/ ProcessOrder \/ ShipOrder \/ DeliverOrder
  BY <1>3, <1>12 DEF TimePasses, ExpireOrder, ProcessOrder, ShipOrder, DeliverOrder, Move, provider
<1>13. CASE CancelOrder
  <2>1. CASE order.paidBy # NoPayment /\ CallProvider("cancel", order.paidBy, ToRefund)
    <3>1. order.paidBy \in Payment /\ "cancel" \in Caller
      BY <2>1, OrderAssumption DEF Inv, OrderShape
    <3>2. ToRefund \in Int
      BY Rows DEF ToRefund, OrderRow
    <3> QED
      BY <1>13, <2>1, <3>1, <3>2, OnceCalls DEF CancelOrder
  <2>2. CASE UNCHANGED provider
    BY <1>3, <1>13, <2>2 DEF CancelOrder, provider
  <2> QED
    BY <1>13, <2>1, <2>2 DEF CancelOrder
<1>14. CASE UNCHANGED vars
  BY <1>3, <1>14 DEF vars
<1> QED
  BY <1>1, <1>4, <1>5, <1>6, <1>7, <1>8, <1>9, <1>10, <1>11, <1>12, <1>13, <1>14 DEF Next

-----------------------------------------------------------------------------
(* Behind every row, report and call there is a refund of the provider.     *)

(* A refund that is known to have failed did fail.                          *)
Backed(id, state) ==
  \E i \in DOMAIN given : given[i].id = id /\ (state = "failed" => given[i].state = "failed")

(* An event tells a refund's amount as it is.                               *)
Told(s) ==
  \E i \in DOMAIN given : /\ given[i].id = s.id /\ given[i].amount = s.amount
                          /\ s.state = "failed" => given[i].state = "failed"

(* A row takes no more than its refund came to.                             *)
Sized(id, amount) == \E i \in DOMAIN given : given[i].id = id /\ amount <= given[i].amount

RowsBacked(rs) == \A r \in rs : Backed(r.id, r.status) /\ Sized(r.id, r.amount)
EventsBacked == \A e \in events : \A s \in SnapshotsOf(e) : Told(s)
CallsBacked == \A p \in Payment : calling[p] # NoCall => Made(<<calling[p].by, p>>, calling[p].amount)

Backing == RowsBacked(rows) /\ EventsBacked /\ CallsBacked

LEMMA ToldBacks == \A s : Told(s) => Backed(s.id, s.state)
BY DEF Told, Backed

LEMMA ToldSizes == ASSUME NEW s \in Snapshot, Told(s) PROVE Sized(s.id, s.amount)
<1>1. s.amount \in Nat
  BY ProviderAssumption DEF Snapshot
<1> QED
  BY <1>1 DEF Told, Sized

LEMMA SizedLess ==
  ASSUME Books, NEW id, NEW a \in Int, NEW b \in Int, b <= a, Sized(id, a) PROVE Sized(id, b)
<1>1. PICK i \in DOMAIN given : given[i].id = id /\ a <= given[i].amount
  BY DEF Sized
<1>2. given[i].amount \in Int
  <2>1. given[i] \in Given
    BY Rows
  <2> QED
    BY <2>1, ProviderAssumption DEF Given
<1>3. b <= given[i].amount
  BY <1>1, <1>2
<1> QED
  BY <1>1, <1>3 DEF Sized

LEMMA SizedKept ==
  ASSUME GivenKept, NEW id, NEW amount, Sized(id, amount) PROVE Sized(id, amount)'
BY DEF Sized, GivenKept

LEMMA BackedKept ==
  ASSUME GivenKept, NEW id, NEW state, Backed(id, state) PROVE Backed(id, state)'
BY DEF Backed, GivenKept

LEMMA ToldKept == ASSUME GivenKept, NEW s, Told(s) PROVE Told(s)'
BY DEF Told, GivenKept

LEMMA MadeKept == ASSUME GivenKept, NEW id, NEW amount, Made(id, amount) PROVE Made(id, amount)'
BY DEF Made, GivenKept

(* The rows and the calls that do not change are backed as before.          *)
LEMMA RowsKept == ASSUME RowsBacked(rows), GivenKept, UNCHANGED rows PROVE RowsBacked(rows)'
<1>1. ASSUME NEW r \in rows PROVE Backed(r.id, r.status)' /\ Sized(r.id, r.amount)'
  <2>1. PICK id : id = r.id
    OBVIOUS
  <2>2. PICK state : state = r.status
    OBVIOUS
  <2>3. PICK amount : amount = r.amount
    OBVIOUS
  <2>4. Backed(id, state) /\ Sized(id, amount)
    BY <2>1, <2>2, <2>3 DEF RowsBacked
  <2>5. Backed(id, state)' /\ Sized(id, amount)'
    BY <2>4, BackedKept, SizedKept
  <2> QED
    BY <2>1, <2>2, <2>3, <2>5 DEF Backed, Sized
<1> QED
  BY <1>1 DEF RowsBacked, Backed, Sized

LEMMA CallKept ==
  ASSUME CallsBacked, GivenKept, NEW p \in Payment, calling[p] # NoCall, calling'[p] = calling[p]
  PROVE  Made(<<calling[p].by, p>>, calling[p].amount)'
<1>1. PICK c : c = calling[p]
  OBVIOUS
<1>2. PICK id : id = <<c.by, p>>
  OBVIOUS
<1>3. PICK amount : amount = c.amount
  OBVIOUS
<1>4. Made(id, amount)
  BY <1>1, <1>2, <1>3 DEF CallsBacked
<1>5. Made(id, amount)'
  BY <1>4, MadeKept
<1> QED
  BY <1>1, <1>2, <1>3, <1>5 DEF Made

LEMMA BackingRests ==
  ASSUME Books, Backing, GivenKept, EventsBacked', UNCHANGED rows,
         \A p \in Payment : calling'[p] = calling[p] \/ calling'[p] = NoCall
  PROVE  Backing'
<1>1. RowsBacked(rows)'
  BY RowsKept DEF Backing
<1>2. CallsBacked'
  <2>1. ASSUME NEW p \in Payment, calling'[p] # NoCall
        PROVE  Made(<<calling[p].by, p>>, calling[p].amount)'
    BY <2>1, CallKept DEF Backing
  <2> QED
    BY <2>1 DEF CallsBacked, Made
<1> QED
  BY <1>1, <1>2 DEF Backing

LEMMA EventsRest == ASSUME Backing, UNCHANGED <<given, events>> PROVE EventsBacked' /\ GivenKept
BY DEF Backing, EventsBacked, Told, GivenKept, SnapshotsOf

LEMMA EventsGrow ==
  ASSUME Backing, GivenKept, NEW e, events' = events \cup {e}, \A s \in SnapshotsOf(e) : Told(s)'
  PROVE  EventsBacked'
<1>1. ASSUME NEW d \in events' PROVE \A s \in SnapshotsOf(d) : Told(s)'
  <2>1. CASE d = e
    BY <2>1
  <2>2. CASE d \in events
    BY <2>2, ToldKept DEF Backing, EventsBacked
  <2> QED
    BY <2>1, <2>2
<1> QED
  BY <1>1 DEF EventsBacked, SnapshotsOf

(* The refunds an event lists are those of the provider.                    *)
LEMMA ListedIs ==
  ASSUME NEW gs \in Seq(Given), NEW p
  PROVE  \A n \in DOMAIN Listed(gs, p) : \E i \in DOMAIN gs : Listed(gs, p)[n] = SnapshotOf(gs[i])
<1> DEFINE T == {SnapshotOf(gs[i]) : i \in DOMAIN gs}
<1>1. ASSUME NEW l \in Seq(T), NEW n \in 1..Len(gs), PaymentOf(gs[n].id) = p
      PROVE  <<SnapshotOf(gs[n])>> \o l \in Seq(T)
  <2>1. SnapshotOf(gs[n]) \in T
    OBVIOUS
  <2> HIDE DEF T
  <2> QED
    BY <2>1
<1> HIDE DEF T
<1>2. <<>> \in Seq(T) /\ Len(gs) \in Nat
  OBVIOUS
<1>3. Listed(gs, p) \in Seq(T)
  BY <1>1, <1>2, ListedInduction
<1>4. \A n \in DOMAIN Listed(gs, p) : Listed(gs, p)[n] \in T
  BY <1>3
<1> QED
  BY <1>4 DEF T

LEMMA GiveTells ==
  ASSUME Books, Backing, NEW id \in RefundId, NEW amount \in 1..MaxAmount, NEW state \in Starts,
         NEW listed, Give(id, amount, state, listed)
  PROVE  EventsBacked'
<1>1. PICK p : p = PaymentOf(id)
  OBVIOUS
<1>2. PICK refunded : refunded = Returned(p) + amount
  OBVIOUS
<1>3. PICK g : g = [id |-> id, amount |-> amount, state |-> state, first |-> state]
  OBVIOUS
<1>4. g \in Given
  BY <1>3, ProviderAssumption DEF Given, RefundState
<1>5. PICK gs : gs = Append(given, g)
  OBVIOUS
<1>6. gs \in Seq(Given) /\ given' = gs
  BY <1>3, <1>4, <1>5, Rows DEF Give
<1>7. PICK e : e = ChargeEvent(gs, p, refunded, listed)
  OBVIOUS
<1>8. events' = events \cup {e}
  BY <1>1, <1>2, <1>3, <1>5, <1>7 DEF Give, Report
<1>9. GivenKept
  BY GiveKeeps
<1>10. \A s \in SnapshotsOf(e) : \E i \in DOMAIN gs : s = SnapshotOf(gs[i])
  <2>1. e.type = "charge.refunded" /\ e.list = IF listed THEN Listed(gs, p) ELSE <<>>
    BY <1>7 DEF ChargeEvent
  <2>2. SnapshotsOf(e) = {e.list[n] : n \in DOMAIN e.list}
    BY <2>1 DEF SnapshotsOf
  <2>3. CASE listed
    BY <1>6, <2>1, <2>2, <2>3, ListedIs
  <2>4. CASE ~listed
    BY <2>1, <2>2, <2>4
  <2> QED
    BY <2>3, <2>4
<1>11. \A s \in SnapshotsOf(e) : Told(s)'
  <2> TAKE s \in SnapshotsOf(e)
  <2>1. PICK i \in DOMAIN gs : s = SnapshotOf(gs[i])
    BY <1>10
  <2>2. s.id = gs[i].id /\ s.amount = gs[i].amount /\ s.state = gs[i].state
    BY <2>1 DEF SnapshotOf
  <2> QED
    BY <1>6, <2>2 DEF Told
<1> QED
  BY <1>8, <1>9, <1>11, EventsGrow

LEMMA UpdateTells ==
  ASSUME Books, Backing, NEW k \in DOMAIN given, NEW state \in RefundState, UpdateRefund(k, state)
  PROVE  EventsBacked'
<1>1. PICK g \in Given : g = given[k]
  BY Rows
<1>2. PICK s : s = [SnapshotOf(g) EXCEPT !.state = state]
  OBVIOUS
<1>3. s.id = g.id /\ s.amount = g.amount /\ s.state = state
  BY <1>2 DEF SnapshotOf
<1>4. PICK e : e = [type |-> "refund.updated", payment |-> PaymentOf(g.id), refund |-> s]
  OBVIOUS
<1>5. events' = events \cup {e}
  BY <1>1, <1>2, <1>4 DEF UpdateRefund, Report
<1>6. /\ DOMAIN given' = DOMAIN given /\ given'[k].state = state /\ given[k].state # "failed"
      /\ \A i \in DOMAIN given : /\ given'[i].id = given[i].id
                                 /\ given'[i].amount = given[i].amount
                                 /\ i # k => given'[i] = given[i]
  BY UpdateFacts
<1>7. Told(s)'
  BY <1>1, <1>3, <1>6 DEF Told
<1>8. SnapshotsOf(e) = {s}
  BY <1>4 DEF SnapshotsOf
<1>9. GivenKept
  BY <1>6 DEF GivenKept
<1> QED
  BY <1>5, <1>7, <1>8, <1>9, EventsGrow

LEMMA ProviderBacks == ASSUME Books, Backing, ProviderNext, UNCHANGED local PROVE Backing'
<1>1. UNCHANGED <<rows, calling>>
  BY DEF local
<1>2. GivenKept
  BY ProviderKeepsGiven
<1>3. ASSUME NEW type \in {"succeeded", "payment_failed", "canceled"}, NEW p,
             Report([type |-> type, payment |-> p])
      PROVE  EventsBacked'
  <2>1. PICK e : e = [type |-> type, payment |-> p]
    OBVIOUS
  <2>2. events' = events \cup {e} /\ SnapshotsOf(e) = {}
    BY <1>3, <2>1 DEF Report, SnapshotsOf
  <2> QED
    BY <1>2, <2>2, EventsGrow
<1>4. EventsBacked'
  <2>1. ASSUME NEW p \in Payment, Pay(p) \/ Decline(p) \/ PayAgain(p) \/ CancelIntent(p)
        PROVE  EventsBacked'
    BY <1>3, <2>1 DEF Pay, Decline, PayAgain, CancelIntent
  <2>2. ASSUME NEW id \in RefundId, NEW amount \in 1..MaxAmount, RefundOnBoard(id, amount)
        PROVE  EventsBacked'
    BY <2>2, GiveTells DEF RefundOnBoard
  <2>3. ASSUME NEW k \in DOMAIN given, NEW state \in RefundState, UpdateRefund(k, state)
        PROVE  EventsBacked'
    BY <2>3, UpdateTells
  <2> QED
    BY <2>1, <2>2, <2>3 DEF ProviderNext
<1> QED
  BY <1>1, <1>2, <1>4, BackingRests

LEMMA CallBacks ==
  ASSUME Books, Backing, NEW p \in Payment, NEW by \in Caller, NEW amount \in Int,
         CallProvider(by, p, amount), UNCHANGED rows
  PROVE  Backing'
<1>1. PICK c \in CallRow : c.by = by /\ c.amount = amount /\ calling' = [calling EXCEPT ![p] = c]
  BY CallMade
<1>2. GivenKept /\ Made(<<by, p>>, amount)'
  BY CallKeeps DEF Made
<1>3. EventsBacked'
  <2>1. CASE UNCHANGED provider
    BY <2>1, EventsRest DEF provider
  <2>2. CASE \E state \in Starts, listed \in ListModes : Give(<<by, p>>, amount, state, listed)
    <3>1. <<by, p>> \in RefundId /\ amount \in 1..MaxAmount
      BY CallRowIs DEF RefundId
    <3> QED
      BY <2>2, <3>1, GiveTells
  <2> QED
    BY <2>1, <2>2 DEF CallProvider
<1>4. RowsBacked(rows)'
  BY <1>2, RowsKept DEF Backing
<1>5. CallsBacked'
  <2>1. ASSUME NEW q \in Payment, calling'[q] # NoCall
        PROVE  Made(<<calling[q].by, q>>, calling[q].amount)'
    <3>1. CASE q = p
      <4>1. calling'[q].by = by /\ calling'[q].amount = amount
        BY <1>1, <3>1, Rows
      <4> QED
        BY <1>2, <3>1, <4>1 DEF Made
    <3>2. CASE q # p
      <4>1. calling'[q] = calling[q]
        BY <1>1, <3>2, Rows
      <4> QED
        BY <1>2, <2>1, <4>1, CallKept DEF Backing
    <3> QED
      BY <3>1, <3>2
  <2> QED
    BY <2>1 DEF CallsBacked, Made
<1> QED
  BY <1>3, <1>4, <1>5 DEF Backing

(* A refund that is reported backs the row it makes or changes.             *)
LEMMA ApplyBacks ==
  ASSUME Books, NEW amount \in 0..MaxAmount, NEW s \in Sofar(amount), NEW re \in Snapshot,
         RowsBacked(s.rows), Told(re)
  PROVE  RowsBacked(ApplyProviderRefund(amount, s, re).rows)
<1>1. PICK t : t = ApplyProviderRefund(amount, s, re)
  OBVIOUS
<1>2. t = s \/ NewRow(amount, s, re, t) \/ NewState(amount, s, re, t)
  BY <1>1, ApplyCases
<1>5. Backed(re.id, re.state) /\ Sized(re.id, re.amount)
  BY ToldBacks, ToldSizes
<1>3. CASE NewRow(amount, s, re, t)
  <2>1. PICK paid : paid = Fewer(re.amount, amount - s.refunded)
    OBVIOUS
  <2>2. PICK row : row = [id |-> re.id, amount |-> paid, status |-> re.state, api |-> FALSE]
    OBVIOUS
  <2>3. t.rows = s.rows \cup {row} /\ row.id = re.id /\ row.status = re.state /\ row.amount = paid
    BY <1>3, <2>1, <2>2 DEF NewRow
  <2>4. re.amount \in Int /\ paid \in Int /\ paid <= re.amount
    BY <2>1, ProviderAssumption DEF Fewer, Snapshot, Sofar
  <2>5. Sized(row.id, row.amount)
    BY <1>5, <2>3, <2>4, SizedLess
  <2>6. RowsBacked(t.rows)
    BY <1>5, <2>3, <2>5 DEF RowsBacked
  <2> QED
    BY <1>1, <2>6
<1>4. CASE NewState(amount, s, re, t)
  <2>1. PICK r \in s.rows : /\ r.id = re.id
                            /\ t.rows = (s.rows \ {r}) \cup {[r EXCEPT !.status = re.state]}
    BY <1>4 DEF NewState
  <2>2. r \in RefundRow
    BY DEF Sofar
  <2>3. PICK n : n = [r EXCEPT !.status = re.state]
    OBVIOUS
  <2>4. /\ n.id = re.id /\ n.status = re.state /\ n.amount = r.amount
        /\ t.rows = (s.rows \ {r}) \cup {n}
    BY <2>1, <2>2, <2>3 DEF RefundRow
  <2>5. RowsBacked(t.rows)
    BY <1>5, <2>1, <2>4 DEF RowsBacked
  <2> QED
    BY <1>1, <2>5
<1> QED
  BY <1>1, <1>2, <1>3, <1>4

LEMMA PendingBacks ==
  ASSUME NEW p, NEW rs \in SUBSET RefundRow, RowsBacked(rs) PROVE RowsBacked(PendingSucceed(p, rs))
<1> SUFFICES ASSUME NEW r \in PendingSucceed(p, rs)
             PROVE  Backed(r.id, r.status) /\ Sized(r.id, r.amount)
  BY DEF RowsBacked
<1>1. PICK q \in rs : r = IF q.status = "pending" /\ PaymentOf(q.id) = p
                          THEN [q EXCEPT !.status = "succeeded"] ELSE q
  BY DEF PendingSucceed
<1>2. Backed(q.id, q.status) /\ Sized(q.id, q.amount) /\ q \in RefundRow
  BY DEF RowsBacked
<1>3. r.id = q.id /\ r.amount = q.amount /\ (r.status = q.status \/ r.status = "succeeded")
  BY <1>1, <1>2 DEF RefundRow
<1> QED
  BY <1>2, <1>3 DEF Backed

LEMMA ApplyAllBacks ==
  ASSUME Books, Backing, NEW p \in Payment, NEW e \in events, e.type = "charge.refunded",
         e.payment = p
  PROVE  RowsBacked(ApplyAll(payments[p].amount, Before(p), e.list).rows)
<1>1. PICK amount \in 0..MaxAmount : amount = payments[p].amount
  BY BeforeFacts
<1> DEFINE G == {t \in Sofar(amount) : RowsBacked(t.rows)}
<1>2. Before(p) \in G
  BY <1>1, BeforeFacts DEF Backing
<1>3. ASSUME NEW t \in G, NEW n \in 1..Len(e.list)
      PROVE  ApplyProviderRefund(amount, t, e.list[n]) \in G
  <2>1. PICK b \in Sofar(amount) : b = t /\ RowsBacked(b.rows)
    OBVIOUS
  <2>2. PICK re \in Snapshot : re = e.list[n]
    BY EventCharge
  <2>3. Told(re)
    <3>1. re \in SnapshotsOf(e)
      <4>1. n \in DOMAIN e.list
        BY EventCharge
      <4> QED
        BY <2>2, <4>1 DEF SnapshotsOf
    <3> QED
      BY <3>1 DEF Backing, EventsBacked
  <2>4. PICK u : u = ApplyProviderRefund(amount, b, re)
    OBVIOUS
  <2>5. u \in Sofar(amount) /\ RowsBacked(u.rows)
    BY <2>1, <2>3, <2>4, ApplyCases, ApplyBacks
  <2> QED
    BY <2>1, <2>2, <2>4, <2>5
<1>4. Len(e.list) \in Nat
  BY EventCharge
<1>5. ApplyAll(amount, Before(p), e.list) \in G
  <2> HIDE DEF G
  <2> QED
    BY <1>2, <1>3, <1>4, ApplyAllInduction
<1> QED
  BY <1>1, <1>5

LEMMA AbsorbBacks ==
  ASSUME Books, Backing, UNCHANGED <<given, events, calling>>, RowsBacked(rows')
  PROVE  Backing'
<1>1. EventsBacked'
  BY EventsRest
<1>2. CallsBacked'
  BY DEF Backing, CallsBacked, Made
<1>3. RowsBacked(rows)'
  BY DEF RowsBacked, Backed, Sized
<1> QED
  BY <1>1, <1>2, <1>3 DEF Backing

LEMMA ChargeBacks ==
  ASSUME Books, Backing, NEW p \in Payment, NEW e \in events, ChargeRefunded(p, e)
  PROVE  Backing'
<1>1. e.type = "charge.refunded" /\ e.payment = p
  BY DEF ChargeRefunded
<1>2. PICK s : s = ApplyAll(payments[p].amount, Before(p), e.list)
  OBVIOUS
<1>3. s \in Sofar(payments[p].amount) /\ RowsBacked(s.rows)
  BY <1>1, <1>2, ApplyAllFacts, ApplyAllBacks
<1>4. rows' = IF e.list = <<>> THEN PendingSucceed(p, s.rows) ELSE s.rows
  BY <1>2 DEF ChargeRefunded, Absorb
<1>5. RowsBacked(rows')
  <2>1. s.rows \in SUBSET RefundRow
    BY <1>3 DEF Sofar
  <2> QED
    BY <1>3, <1>4, <2>1, PendingBacks
<1> QED
  BY <1>5, AbsorbBacks DEF ChargeRefunded

LEMMA UpdatedBacks ==
  ASSUME Books, Backing, NEW p \in Payment, NEW e \in events, RefundUpdated(p, e)
  PROVE  Backing'
<1>1. e.type = "refund.updated" /\ e.payment = p
  BY DEF RefundUpdated
<1>2. PICK b \in Sofar(payments[p].amount) : b = Before(p) /\ b.rows = rows
  BY BeforeFacts
<1>3. PICK re \in Snapshot : re = e.refund
  BY <1>1, EventRefund
<1>4. Told(re)
  <2>1. re \in SnapshotsOf(e)
    BY <1>1, <1>3 DEF SnapshotsOf
  <2> QED
    BY <2>1 DEF Backing, EventsBacked
<1>5. PICK amount \in 0..MaxAmount : amount = payments[p].amount
  BY BeforeFacts
<1>6. RowsBacked(ApplyProviderRefund(amount, b, re).rows)
  BY <1>2, <1>4, <1>5, ApplyBacks DEF Backing
<1>7. rows' = ApplyProviderRefund(amount, b, re).rows
  BY <1>2, <1>3, <1>5 DEF RefundUpdated, Absorb
<1> QED
  BY <1>6, <1>7, AbsorbBacks DEF RefundUpdated

LEMMA CommitBacks ==
  ASSUME Books, Counted, Backing, NEW p \in Payment, CommitRefund(p) PROVE Backing'
<1>1. PICK row \in RefundRow : /\ row.id = <<calling[p].by, p>> /\ row.status = calling[p].status
                               /\ row.amount = calling[p].amount /\ rows' = rows \cup {row}
  BY CommitFacts
<1>2. calling[p] # NoCall /\ calling' = [calling EXCEPT ![p] = NoCall] /\ UNCHANGED provider
  BY DEF CommitRefund, Free
<1>3. Backed(row.id, row.status) /\ Sized(row.id, row.amount)
  <2>1. PICK i \in DOMAIN given : given[i].id = row.id /\ given[i].amount = row.amount
    BY <1>1, <1>2 DEF Backing, CallsBacked, Made
  <2>2. row.amount \in Nat
    BY ProviderAssumption DEF RefundRow
  <2> QED
    BY <1>1, <1>2, <2>1, <2>2 DEF Backed, Sized, Counted, Answered
<1>4. RowsBacked(rows)'
  BY <1>1, <1>2, <1>3 DEF Backing, RowsBacked, Backed, Sized, provider
<1>5. CallsBacked'
  <2>1. ASSUME NEW q \in Payment, calling'[q] # NoCall
        PROVE  Made(<<calling[q].by, q>>, calling[q].amount)'
    <3>1. calling'[q] = calling[q] /\ GivenKept
      BY <1>2, <2>1, Rows DEF provider, GivenKept
    <3> QED
      BY <2>1, <3>1, CallKept DEF Backing
  <2> QED
    BY <2>1 DEF CallsBacked, Made
<1>6. EventsBacked'
  BY <1>2, EventsRest DEF provider
<1> QED
  BY <1>4, <1>5, <1>6 DEF Backing

LEMMA InitBacking == Init => Backing
BY DEF Init, ProviderInit, Backing, RowsBacked, EventsBacked, CallsBacked

LEMMA StepBacking == Books /\ Inv /\ Counted /\ Backing /\ [Next]_vars => Backing'
<1> SUFFICES ASSUME Books, Inv, Counted, Backing, [Next]_vars PROVE Backing'
  OBVIOUS
<1>1. ASSUME UNCHANGED <<given, events, rows>>,
             \A p \in Payment : calling'[p] = calling[p] \/ calling'[p] = NoCall
      PROVE  Backing'
  BY <1>1, EventsRest, BackingRests
<1>2. CASE ProviderNext /\ UNCHANGED local
  BY <1>2, ProviderBacks
<1>3. ASSUME NEW total \in Totals, Create(total) PROVE Backing'
  BY <1>1, <1>3 DEF Create, StartOnline
<1>4. CASE RetryOrderPayment
  BY <1>1, <1>4 DEF RetryOrderPayment, StartOnline
<1>5. ASSUME NEW p \in StaffPayment, NEW amount \in 1..MaxAmount, StaffPays(p, amount) PROVE Backing'
  BY <1>1, <1>5 DEF StaffPays, StartOnline
<1>6. CASE Webhook
  <2>1. ASSUME NEW p \in Payment, Succeeded(p) \/ PaymentFailed(p) \/ IntentCanceled(p) PROVE Backing'
    BY <1>1, <2>1 DEF Succeeded, PaymentFailed, IntentCanceled
  <2> QED
    BY <1>6, <2>1, ChargeBacks, UpdatedBacks DEF Webhook
<1>7. ASSUME NEW by \in Desk, NEW p \in Payment, NEW amount \in 1..MaxAmount,
             RefundRequest(by, p, amount)
      PROVE  Backing'
  <2>1. by \in Caller /\ amount \in Int
    BY DEF Desk
  <2> QED
    BY <1>7, <2>1, CallBacks DEF RefundRequest
<1>8. ASSUME NEW p \in Payment, RunOrphan(p) PROVE Backing'
  <2>1. CASE StartOrphan(p)
    <3>1. payments[p].amount \in Int /\ "orphan" \in Caller
      BY Rows, OrderAssumption DEF PaymentRow
    <3> QED
      BY <2>1, <3>1, CallBacks DEF StartOrphan
  <2>2. CASE OrphanEndsAtOnce(p)
    BY <1>1, <2>2 DEF OrphanEndsAtOnce, provider
  <2> QED
    BY <1>8, <2>1, <2>2 DEF RunOrphan
<1>9. ASSUME NEW p \in Payment, CommitRefund(p) PROVE Backing'
  BY <1>9, CommitBacks
<1>10. ASSUME NEW p \in Payment, RollbackRefund(p) PROVE Backing'
  <2>1. \A q \in Payment : calling'[q] = calling[q] \/ calling'[q] = NoCall
    BY <1>10, Rows DEF RollbackRefund
  <2> QED
    BY <1>1, <1>10, <2>1 DEF RollbackRefund, provider
<1>11. CASE TimePasses \/ ExpireOrder \/ ProcessOrder \/ ShipOrder \/ DeliverOrder
  BY <1>1, <1>11 DEF TimePasses, ExpireOrder, ProcessOrder, ShipOrder, DeliverOrder, Move, provider
<1>12. CASE CancelOrder
  <2>1. CASE order.paidBy # NoPayment /\ CallProvider("cancel", order.paidBy, ToRefund)
    <3>1. order.paidBy \in Payment /\ "cancel" \in Caller
      BY <2>1, OrderAssumption DEF Inv, OrderShape
    <3>2. ToRefund \in Int
      BY Rows DEF ToRefund, OrderRow
    <3> QED
      BY <1>12, <2>1, <3>1, <3>2, CallBacks DEF CancelOrder
  <2>2. CASE UNCHANGED <<provider, calling>>
    BY <1>1, <1>12, <2>2 DEF CancelOrder, provider
  <2> QED
    BY <1>12, <2>1, <2>2 DEF CancelOrder
<1>13. CASE UNCHANGED vars
  BY <1>1, <1>13 DEF vars
<1> QED
  BY <1>2, <1>3, <1>4, <1>5, <1>6, <1>7, <1>8, <1>9, <1>10, <1>11, <1>12, <1>13 DEF Next

-----------------------------------------------------------------------------
(* Of a payment none of whose refunds failed, and none was made up from the *)
(* amount of a charge, the books agree: what the payment says was refunded  *)
(* is what its rows come to, and what the order says.                       *)

Clean(p) == diffs[p] = {} /\ \A i \in RefundsOf(p) : given[i].state # "failed"

PaysAsSeen(p) == Clean(p) => payments[p].refunded = Seen(p, rows)

OrderAsPaid(p) ==
  Clean(p) /\ order.paidBy = p =>
    /\ order.refunded = payments[p].refunded
    /\ order.status = "cancelled" => order.refunded >= order.total

CancelAsks(p) == calling[p].by = "cancel" => calling[p].amount = order.total - order.refunded

NothingPaid ==
  order.status \in {"none", "pending"} => order.paidBy = NoPayment /\ order.refunded = 0

Agrees ==
  /\ \A p \in Payment : PaysAsSeen(p) /\ OrderAsPaid(p) /\ CancelAsks(p)
  /\ NothingPaid

LEMMA CleanBefore ==
  ASSUME GivenKept, NEW p, diffs[p] \subseteq diffs'[p], Clean(p)' PROVE Clean(p)
<1>1. diffs'[p] = {}
  BY DEF Clean
<1>2. ASSUME NEW i \in RefundsOf(p) PROVE given[i].state # "failed"
  <2>1. i \in DOMAIN given' /\ PaymentOf(given'[i].id) = p
    BY <1>2 DEF RefundsOf, GivenKept
  <2>2. given'[i].state # "failed"
    BY <2>1 DEF Clean, RefundsOf
  <2>3. i \in DOMAIN given
    BY DEF RefundsOf
  <2> QED
    BY <2>2, <2>3 DEF GivenKept
<1> QED
  BY <1>1, <1>2 DEF Clean

(* A report about a payment whose books agree leaves them so.               *)
LEMMA ApplyClean ==
  ASSUME Books, Once, NEW p \in Payment, Clean(p), NEW amount \in 0..MaxAmount,
         amount = payments[p].amount, NEW s \in Sofar(amount), RowsBacked(s.rows),
         s.refunded = Seen(p, s.rows), NEW re \in Snapshot, PaymentOf(re.id) = p, Told(re)
  PROVE  LET t == ApplyProviderRefund(amount, s, re)
         IN  /\ t.refunded = Seen(p, t.rows) /\ t.refunded >= s.refunded
             /\ (t.told = s.told /\ t.refunded = s.refunded) \/ t.told = t.refunded
<1>1. PICK t : t = ApplyProviderRefund(amount, s, re)
  OBVIOUS
<1>2. t \in Sofar(amount) /\ (t = s \/ NewRow(amount, s, re, t) \/ NewState(amount, s, re, t))
  BY <1>1, ApplyCases
<1>3. PICK k \in DOMAIN given : /\ given[k].id = re.id /\ given[k].amount = re.amount
                                /\ re.state = "failed" => given[k].state = "failed"
  BY DEF Told
<1>4. k \in RefundsOf(p) /\ re.state # "failed"
  <2>1. k \in RefundsOf(p)
    BY <1>3 DEF RefundsOf
  <2> QED
    BY <1>3, <2>1 DEF Clean
<1>5. GivenUnique /\ Returned(p) <= amount /\ \A i \in RefundsOf(p) : given[i].state # "failed"
  BY DEF Once, Clean
<1>6. Returned(p) \in Nat /\ Seen(p, s.rows) \in Nat /\ amount \in Nat /\ re.amount \in Nat
  <2>1. re.amount \in Nat /\ amount \in Nat
    BY ProviderAssumption DEF Snapshot
  <2> QED
    BY <2>1, Rows, ReturnedNat, SeenNat
<1>7. CASE NewRow(amount, s, re, t)
  <2>1. PICK row : row = [id |-> re.id, amount |-> Fewer(re.amount, amount - s.refunded),
                          status |-> re.state, api |-> FALSE]
    OBVIOUS
  <2>2. /\ \A r \in s.rows : r.id # re.id
        /\ t.rows = s.rows \cup {row} /\ row.id = re.id /\ t.told = t.refunded
        /\ t.refunded = s.refunded + Fewer(re.amount, amount - s.refunded)
    BY <1>7, <2>1 DEF NewRow
  <2>3. ~Has(s.rows, given[k].id)
    BY <1>3, <2>2 DEF Has
  <2>4. \A id : Has(t.rows, id) <=> Has(s.rows, id) \/ id = given[k].id
    BY <1>3, <2>2 DEF Has
  <2>5. Seen(p, t.rows) = Seen(p, s.rows) + given[k].amount
    BY <1>4, <1>5, <2>3, <2>4, SeenAdds
  <2>6. Seen(p, s.rows) + given[k].amount <= Returned(p)
    BY <1>4, <1>5, <2>3, SeenRoom
  <2>7. s.refunded + re.amount <= amount
    BY <1>3, <1>5, <1>6, <2>6
  <2>8. t.refunded = s.refunded + re.amount
    BY <1>6, <2>2, <2>7 DEF Fewer
  <2>9. t.refunded = Seen(p, t.rows) /\ t.refunded >= s.refunded
    BY <1>3, <1>6, <2>5, <2>8
  <2> QED
    BY <1>1, <2>2, <2>9
<1>8. CASE NewState(amount, s, re, t)
  <2>1. PICK r \in s.rows :
          /\ r.id = re.id /\ t.rows = (s.rows \ {r}) \cup {[r EXCEPT !.status = re.state]}
          /\ t.told = s.told
          /\ \/ re.state = "failed" \/ r.status = "failed"
             \/ t.refunded = s.refunded
    BY <1>8 DEF NewState
  <2>2. r.status # "failed"
    <3> SUFFICES ASSUME r.status = "failed" PROVE FALSE
      OBVIOUS
    <3>1. PICK i \in DOMAIN given : given[i].id = re.id /\ given[i].state = "failed"
      BY <2>1 DEF RowsBacked, Backed
    <3>2. i \in RefundsOf(p)
      BY <3>1 DEF RefundsOf
    <3> QED
      BY <1>5, <3>1, <3>2
  <2>3. t.refunded = s.refunded
    BY <1>4, <2>1, <2>2
  <2>4. r \in RefundRow
    BY DEF Sofar
  <2>5. PICK n : n = [r EXCEPT !.status = re.state]
    OBVIOUS
  <2>6. n.id = r.id /\ t.rows = (s.rows \ {r}) \cup {n}
    BY <2>1, <2>4, <2>5 DEF RefundRow
  <2>7. \A id : Has(t.rows, id) <=> Has(s.rows, id)
    BY <2>6 DEF Has
  <2>8. Seen(p, t.rows) = Seen(p, s.rows)
    BY <2>7, SeenSame
  <2> QED
    BY <1>1, <1>6, <2>1, <2>3, <2>8
<1>9. CASE t = s
  BY <1>1, <1>6, <1>9
<1> QED
  BY <1>2, <1>7, <1>8, <1>9

(* What reports make of a payment whose books agree.                        *)
Agreeing(p, s) ==
  /\ s.refunded = Seen(p, s.rows) /\ s.refunded >= payments[p].refunded
  /\ (s.told = Untold /\ s.refunded = payments[p].refunded) \/ s.told = s.refunded

LEMMA BeforeAgrees ==
  ASSUME Books, Agrees, NEW p \in Payment, Clean(p) PROVE Agreeing(p, Before(p))
<1>1. payments[p].refunded \in Nat
  BY SumsNat
<1> QED
  BY <1>1, BeforeFacts DEF Agreeing, Agrees, PaysAsSeen

LEMMA ApplyAgrees ==
  ASSUME Books, Once, NEW p \in Payment, Clean(p), NEW amount \in 0..MaxAmount,
         amount = payments[p].amount, NEW s \in Sofar(amount), RowsBacked(s.rows),
         Agreeing(p, s), NEW re \in Snapshot, PaymentOf(re.id) = p, Told(re)
  PROVE  Agreeing(p, ApplyProviderRefund(amount, s, re))
<1>1. PICK t : t = ApplyProviderRefund(amount, s, re)
  OBVIOUS
<1>2. /\ t.refunded = Seen(p, t.rows) /\ t.refunded >= s.refunded
      /\ (t.told = s.told /\ t.refunded = s.refunded) \/ t.told = t.refunded
  BY <1>1, ApplyClean DEF Agreeing
<1>3. s.refunded \in Nat /\ t.refunded \in Nat /\ payments[p].refunded \in Nat
  <2>1. t \in Sofar(amount) /\ amount \in Nat
    BY <1>1, ApplyCases, ProviderAssumption
  <2> QED
    BY <2>1, SumsNat DEF Sofar
<1>4. t.refunded >= payments[p].refunded
  BY <1>2, <1>3 DEF Agreeing
<1>5. (t.told = Untold /\ t.refunded = payments[p].refunded) \/ t.told = t.refunded
  BY <1>2 DEF Agreeing
<1> QED
  BY <1>1, <1>2, <1>4, <1>5 DEF Agreeing

LEMMA ApplyAllAgrees ==
  ASSUME Books, Once, Backing, Agrees, NEW p \in Payment, Clean(p), NEW e \in events,
         e.type = "charge.refunded", e.payment = p
  PROVE  Agreeing(p, ApplyAll(payments[p].amount, Before(p), e.list))
<1>1. PICK amount \in 0..MaxAmount : amount = payments[p].amount
  BY BeforeFacts
<1> DEFINE G == {t \in Sofar(amount) : RowsBacked(t.rows) /\ Agreeing(p, t)}
<1>2. Before(p) \in G
  BY <1>1, BeforeFacts, BeforeAgrees DEF Backing
<1>3. ASSUME NEW t \in G, NEW n \in 1..Len(e.list)
      PROVE  ApplyProviderRefund(amount, t, e.list[n]) \in G
  <2>1. PICK b \in Sofar(amount) : b = t /\ RowsBacked(b.rows) /\ Agreeing(p, b)
    OBVIOUS
  <2>2. PICK re \in Snapshot : re = e.list[n] /\ PaymentOf(re.id) = p
    BY EventCharge
  <2>3. Told(re)
    <3>1. n \in DOMAIN e.list
      BY EventCharge
    <3>2. re \in SnapshotsOf(e)
      BY <2>2, <3>1 DEF SnapshotsOf
    <3> QED
      BY <3>2 DEF Backing, EventsBacked
  <2>4. PICK u : u = ApplyProviderRefund(amount, b, re)
    OBVIOUS
  <2>5. u \in Sofar(amount)
    BY <2>4, ApplyCases
  <2>6. RowsBacked(u.rows)
    BY <2>1, <2>3, <2>4, ApplyBacks
  <2>7. Agreeing(p, u)
    BY <1>1, <2>1, <2>2, <2>3, <2>4, ApplyAgrees
  <2> QED
    BY <2>1, <2>2, <2>4, <2>5, <2>6, <2>7
<1>4. Len(e.list) \in Nat
  BY EventCharge
<1>5. ApplyAll(amount, Before(p), e.list) \in G
  <2> HIDE DEF G
  <2> QED
    BY <1>2, <1>3, <1>4, ApplyAllInduction
<1> QED
  BY <1>1, <1>5

(* What the rows come to changes only with the rows and the refunds made.   *)
LEMMA SeenRests ==
  ASSUME UNCHANGED given, NEW p PROVE \A rs : rs = rows' => Seen(p, rows)' = Seen(p, rs)
BY DEF Seen, SeenOf, RefundsOf

(* A step that records no refund.                                           *)
LEMMA PaysRest ==
  ASSUME Agrees, GivenKept, NEW p \in Payment, UNCHANGED diffs,
         Seen(p, rows)' = Seen(p, rows), payments'[p].refunded = payments[p].refunded
  PROVE  PaysAsSeen(p)'
<1> SUFFICES ASSUME Clean(p)' PROVE payments'[p].refunded = Seen(p, rows)'
  BY DEF PaysAsSeen
<1>1. Clean(p)
  BY CleanBefore
<1> QED
  BY <1>1 DEF Agrees, PaysAsSeen

(* A step that leaves the order paid as it was, and cancels nothing paid.   *)
LEMMA OrderRests ==
  ASSUME Agrees, GivenKept, NEW p \in Payment, UNCHANGED diffs,
         payments'[p].refunded = payments[p].refunded,
         order'.paidBy = p => /\ order.paidBy = p /\ order'.refunded = order.refunded
                              /\ order'.total = order.total
                              /\ order'.status = "cancelled" => order.status = "cancelled"
  PROVE  OrderAsPaid(p)'
<1> SUFFICES ASSUME Clean(p)', order'.paidBy = p
             PROVE  /\ order'.refunded = payments'[p].refunded
                    /\ order'.status = "cancelled" => order'.refunded >= order'.total
  BY DEF OrderAsPaid
<1>1. Clean(p)
  BY CleanBefore
<1> QED
  BY <1>1 DEF Agrees, OrderAsPaid

LEMMA AgreesRests ==
  ASSUME Books, Agrees, GivenKept, UNCHANGED diffs,
         \A p \in Payment : /\ Seen(p, rows)' = Seen(p, rows)
                            /\ payments'[p].refunded = payments[p].refunded
                            /\ calling'[p].by = "cancel" => calling'[p] = calling[p],
         order'.paidBy = order.paidBy, order'.refunded = order.refunded, order'.total = order.total,
         order'.status = "cancelled" => order.status = "cancelled" \/ order.paidBy = NoPayment,
         order'.status \in {"none", "pending"} => order.status \in {"none", "pending"}
  PROVE  Agrees'
<1>1. ASSUME NEW p \in Payment PROVE PaysAsSeen(p)' /\ OrderAsPaid(p)' /\ CancelAsks(p)'
  <2>1. PaysAsSeen(p)'
    BY PaysRest
  <2>2. order'.paidBy = p => order.paidBy # NoPayment
    BY OrderAssumption
  <2>3. OrderAsPaid(p)'
    BY <2>2, OrderRests
  <2>4. CancelAsks(p)'
    BY DEF Agrees, CancelAsks
  <2> QED
    BY <2>1, <2>3, <2>4
<1>2. NothingPaid'
  BY DEF Agrees, NothingPaid
<1> QED
  BY <1>1, <1>2 DEF Agrees

LEMMA Unseen ==
  ASSUME UNCHANGED <<given, rows>> PROVE GivenKept /\ \A p \in Payment : Seen(p, rows)' = Seen(p, rows)
BY DEF GivenKept, Seen, SeenOf, RefundsOf

(* A refund the provider makes is one no row knows of yet.                  *)
LEMMA GiveUnseen ==
  ASSUME Books, Backing, NEW id, NEW amount \in 1..MaxAmount, NEW state, NEW listed,
         Give(id, amount, state, listed), UNCHANGED rows
  PROVE  GivenKept /\ \A p \in Payment : Seen(p, rows)' = Seen(p, rows)
<1>1. ~Has(rows, id)
  BY DEF Has, Backing, RowsBacked, Backed, Give
<1> QED
  BY <1>1, GiveKeeps, SeenGives

LEMMA ProviderAgrees ==
  ASSUME Books, Backing, Agrees, ProviderNext, UNCHANGED local PROVE Agrees'
<1>1. UNCHANGED <<order, payments, rows, diffs, calling>> /\ GivenKept
  BY ProviderKeepsGiven DEF local
<1>2. \A p \in Payment : Seen(p, rows)' = Seen(p, rows)
  <2>1. ASSUME NEW q \in Payment, Pay(q) \/ Decline(q) \/ PayAgain(q) \/ CancelIntent(q)
        PROVE  \A p \in Payment : Seen(p, rows)' = Seen(p, rows)
    BY <1>1, <2>1, Unseen DEF Pay, Decline, PayAgain, CancelIntent
  <2>2. ASSUME NEW id \in RefundId, NEW amount \in 1..MaxAmount, RefundOnBoard(id, amount)
        PROVE  \A p \in Payment : Seen(p, rows)' = Seen(p, rows)
    BY <1>1, <2>2, GiveUnseen DEF RefundOnBoard
  <2>3. ASSUME NEW k \in DOMAIN given, NEW state \in RefundState, UpdateRefund(k, state)
        PROVE  \A p \in Payment : Seen(p, rows)' = Seen(p, rows)
    BY <1>1, <2>3, UpdatedSums
  <2> QED
    BY <2>1, <2>2, <2>3 DEF ProviderNext
<1> QED
  BY <1>1, <1>2, AgreesRests

LEMMA CallAgrees ==
  ASSUME Books, Backing, Agrees, NEW p \in Payment, NEW by \in Caller, NEW amount \in Int,
         CallProvider(by, p, amount), by = "cancel" => amount = order.total - order.refunded,
         UNCHANGED <<order, payments, rows, diffs>>
  PROVE  Agrees'
<1>1. PICK c \in CallRow : c.by = by /\ c.amount = amount /\ calling' = [calling EXCEPT ![p] = c]
  BY CallMade
<1>2. GivenKept /\ \A q \in Payment : Seen(q, rows)' = Seen(q, rows)
  <2>1. CASE UNCHANGED provider
    BY <2>1, Unseen DEF provider
  <2>2. CASE \E state \in Starts, listed \in ListModes : Give(<<by, p>>, amount, state, listed)
    <3>1. amount \in 1..MaxAmount
      BY CallRowIs
    <3> QED
      BY <2>2, <3>1, GiveUnseen
  <2> QED
    BY <2>1, <2>2 DEF CallProvider
<1>3. ASSUME NEW q \in Payment PROVE PaysAsSeen(q)' /\ OrderAsPaid(q)' /\ CancelAsks(q)'
  <2>1. PaysAsSeen(q)' /\ OrderAsPaid(q)'
    BY <1>2, PaysRest, OrderRests
  <2>2. CASE q = p
    <3>1. calling'[q] = c
      BY <1>1, <2>2, Rows
    <3> QED
      BY <1>1, <2>1, <3>1 DEF CancelAsks
  <2>3. CASE q # p
    <3>1. calling'[q] = calling[q]
      BY <1>1, <2>3, Rows
    <3> QED
      BY <2>1, <3>1 DEF Agrees, CancelAsks
  <2> QED
    BY <2>2, <2>3
<1>4. NothingPaid'
  BY DEF Agrees, NothingPaid
<1> QED
  BY <1>3, <1>4 DEF Agrees

(* A payment that starts, of an order that nothing has been paid of.        *)
LEMMA StartAgrees ==
  ASSUME Books, Inv, Agrees, NEW p \in Payment, NEW amount, StartOnline(p, amount),
         order.status \in {"none", "pending"},
         order'.paidBy = order.paidBy, order'.refunded = order.refunded,
         UNCHANGED <<rows, diffs, calling>>
  PROVE  Agrees'
<1>1. GivenKept /\ \A q \in Payment : Seen(q, rows)' = Seen(q, rows)
  BY Unseen DEF StartOnline
<1>2. order'.paidBy = NoPayment /\ order'.refunded = 0
  BY DEF Agrees, NothingPaid
<1>3. \A q \in Payment : payments'[q].refunded = payments[q].refunded
  <2>1. payments'[p].refunded = 0 /\ \A q \in Payment : q # p => payments'[q] = payments[q]
    BY Rows DEF StartOnline
  <2>2. payments[p].refunded = 0
    BY DEF StartOnline, Books, Money, Unpaid
  <2> QED
    BY <2>1, <2>2
<1>4. ASSUME NEW q \in Payment PROVE PaysAsSeen(q)' /\ OrderAsPaid(q)' /\ CancelAsks(q)'
  <2>1. PaysAsSeen(q)'
    BY <1>1, <1>3, PaysRest
  <2>2. OrderAsPaid(q)'
    BY <1>2, OrderAssumption DEF OrderAsPaid
  <2>3. calling[q].by # "cancel"
    BY DEF Inv, CancelHolds
  <2> QED
    BY <2>1, <2>2, <2>3 DEF CancelAsks
<1>5. NothingPaid'
  BY <1>2 DEF NothingPaid
<1> QED
  BY <1>4, <1>5 DEF Agrees

(* A payment settles; the order is paid by it if it waited for one.         *)
LEMMA SettleAgrees ==
  ASSUME Books, Inv, Agrees, NEW p \in Payment, NEW status, Settle(p, status),
         UNCHANGED <<given, rows, diffs, calling>>,
         order'.refunded = order.refunded, order'.total = order.total,
         order'.status \in {"none", "pending"} => order.status \in {"none", "pending"},
         order'.status = "cancelled" => order.status = "cancelled",
         \/ order'.paidBy = order.paidBy
         \/ order.status = "pending" /\ order'.status = "paid" /\ order'.paidBy = p
  PROVE  Agrees'
<1>1. GivenKept /\ \A q \in Payment : Seen(q, rows)' = Seen(q, rows)
  BY Unseen
<1>2. \A q \in Payment : payments'[q].refunded = payments[q].refunded
  BY Rows DEF Settle, PaymentRow
<1>3. CASE order'.paidBy = order.paidBy
  BY <1>1, <1>2, <1>3, AgreesRests
<1>4. CASE order.status = "pending" /\ order'.status = "paid" /\ order'.paidBy = p
  <2>1. order.refunded = 0 /\ payments[p].refunded = 0
    <3>1. payments[p].status \in Unpaid
      BY Rows DEF Settle, PaymentRow, Active, Final, Unpaid
    <3> QED
      BY <1>4, <3>1 DEF Agrees, NothingPaid, Books, Money
  <2>2. ASSUME NEW q \in Payment PROVE PaysAsSeen(q)' /\ OrderAsPaid(q)' /\ CancelAsks(q)'
    <3>1. PaysAsSeen(q)'
      BY <1>1, <1>2, PaysRest
    <3>2. OrderAsPaid(q)'
      BY <1>2, <1>4, <2>1 DEF OrderAsPaid
    <3>3. CancelAsks(q)'
      BY DEF Agrees, CancelAsks
    <3> QED
      BY <3>1, <3>2, <3>3
  <2>3. NothingPaid'
    BY <1>4 DEF NothingPaid
  <2> QED
    BY <2>2, <2>3 DEF Agrees
<1> QED
  BY <1>3, <1>4

(* What a webhook writes about p concerns no other payment.                 *)
LEMMA OthersSeen ==
  ASSUME Books, NEW p \in Payment, NEW rs, Grown(p, rows, rs), NEW q \in Payment, q # p
  PROVE  Seen(q, rs) = Seen(q, rows)
<1>1. ASSUME NEW i \in RefundsOf(q) PROVE Has(rs, given[i].id) <=> Has(rows, given[i].id)
  <2>1. PaymentOf(given[i].id) = q
    BY DEF RefundsOf
  <2> QED
    BY <2>1 DEF Has, Grown
<1> QED
  BY <1>1, SeenSame

LEMMA AbsorbAgrees ==
  ASSUME Books, Inv, Agrees, NEW p \in Payment, Free(p), NEW s, Absorb(p, s),
         UNCHANGED <<given, calling>>, \A q \in Payment : diffs[q] \subseteq diffs'[q],
         Grown(p, rows, s.rows), Clean(p)' => Agreeing(p, s), s.refunded \in Nat
  PROVE  Agrees'
<1>1. GivenKept
  BY DEF GivenKept
<1>2. rows' = s.rows /\ \A q \in Payment : Seen(q, rows)' = Seen(q, s.rows)
  BY SeenRests DEF Absorb
<1>3. /\ payments'[p].refunded = s.refunded
      /\ \A q \in Payment : q # p => payments'[q] = payments[q]
  <2>1. PICK status : payments' = [payments EXCEPT ![p].refunded = s.refunded, ![p].status = status]
    BY DEF Absorb
  <2> QED
    BY <2>1, Rows DEF PaymentRow
<1>4. /\ order' = order \/ order.paidBy = p
      /\ order'.paidBy = order.paidBy /\ order'.total = order.total /\ order'.status = order.status
      /\ order.paidBy = p => order'.refunded = IF s.told # Untold THEN s.told ELSE order.refunded
  BY Rows DEF Absorb, OrderRow
<1>5. ASSUME NEW q \in Payment PROVE PaysAsSeen(q)' /\ OrderAsPaid(q)' /\ CancelAsks(q)'
  <2>1. PaysAsSeen(q)'
    <3> SUFFICES ASSUME Clean(q)' PROVE payments'[q].refunded = Seen(q, rows)'
      BY DEF PaysAsSeen
    <3>1. CASE q = p
      BY <1>2, <1>3, <3>1 DEF Agreeing
    <3>2. CASE q # p
      BY <1>1, <1>2, <1>3, <3>2, CleanBefore, OthersSeen DEF Agrees, PaysAsSeen
    <3> QED
      BY <3>1, <3>2
  <2>2. OrderAsPaid(q)'
    <3> SUFFICES ASSUME Clean(q)', order'.paidBy = q
                 PROVE  /\ order'.refunded = payments'[q].refunded
                        /\ order'.status = "cancelled" => order'.refunded >= order'.total
      BY DEF OrderAsPaid
    <3>1. /\ order.refunded = payments[q].refunded
          /\ order.status = "cancelled" => order.refunded >= order.total
      BY <1>1, <1>4, CleanBefore DEF Agrees, OrderAsPaid
    <3>2. CASE q = p
      <4>1. Agreeing(p, s)
        BY <3>2
      <4>2. order'.refunded = s.refunded /\ s.refunded >= order.refunded
        <5>1. s.refunded # Untold
          BY DEF Untold
        <5> QED
          BY <1>4, <3>1, <3>2, <4>1, <5>1 DEF Agreeing
      <4>3. order.refunded \in Nat /\ order.total \in Nat /\ order'.refunded \in Nat
        <5>1. order.refunded \in Nat /\ order.total \in Nat
          BY Rows DEF OrderRow
        <5> QED
          BY <4>2, <5>1
      <4> QED
        BY <1>3, <1>4, <3>1, <3>2, <4>2, <4>3
    <3>3. CASE q # p
      BY <1>3, <1>4, <3>1, <3>3
    <3> QED
      BY <3>2, <3>3
  <2>3. CancelAsks(q)'
    <3> SUFFICES ASSUME calling[q].by = "cancel" PROVE order' = order
      BY DEF Agrees, CancelAsks
    <3>1. order.paidBy = q /\ q # p
      BY DEF Inv, CancelHolds, Free, NoCall
    <3> QED
      BY <1>4, <3>1
  <2> QED
    BY <2>1, <2>2, <2>3
<1>6. NothingPaid'
  BY <1>4, OrderAssumption DEF Agrees, NothingPaid
<1> QED
  BY <1>5, <1>6 DEF Agrees

LEMMA UpdatedAgrees ==
  ASSUME Books, Inv, Once, Backing, Agrees, NEW p \in Payment, NEW e \in events, RefundUpdated(p, e)
  PROVE  Agrees'
<1>1. e.type = "refund.updated" /\ e.payment = p /\ Free(p) /\ UNCHANGED <<given, diffs, calling>>
  BY DEF RefundUpdated
<1>2. PICK b : b = Before(p)
  OBVIOUS
<1>3. PICK re \in Snapshot : re = e.refund /\ PaymentOf(re.id) = p
  BY <1>1, EventRefund
<1>4. PICK amount \in 0..MaxAmount : amount = payments[p].amount
  BY BeforeFacts
<1>5. PICK s : s = ApplyProviderRefund(amount, b, re)
  OBVIOUS
<1>6. Absorb(p, s) /\ Grown(p, rows, s.rows)
  <2>1. Absorb(p, s)
    BY <1>2, <1>3, <1>4, <1>5 DEF RefundUpdated
  <2> QED
    BY <2>1, UpdatedGrows DEF Absorb
<1>7. b \in Sofar(amount) /\ b.rows = rows
  BY <1>2, <1>4, BeforeFacts
<1>8. s.refunded \in Nat
  BY <1>4, <1>5, <1>7, ApplyCases, ProviderAssumption DEF Sofar
<1>9. Clean(p)' => Agreeing(p, s)
  <2> SUFFICES ASSUME Clean(p)' PROVE Agreeing(p, s)
    OBVIOUS
  <2>1. Clean(p)
    BY <1>1, CleanBefore DEF GivenKept
  <2>2. Told(re)
    BY <1>1, <1>3 DEF Backing, EventsBacked, SnapshotsOf
  <2>3. RowsBacked(b.rows) /\ Agreeing(p, b)
    BY <1>2, <1>7, <2>1, BeforeAgrees DEF Backing
  <2> QED
    BY <1>3, <1>4, <1>5, <1>7, <2>1, <2>2, <2>3, ApplyAgrees
<1> QED
  BY <1>1, <1>6, <1>8, <1>9, AbsorbAgrees

LEMMA ChargeAgrees ==
  ASSUME Books, Inv, Once, Backing, Agrees, NEW p \in Payment, NEW e \in events, ChargeRefunded(p, e)
  PROVE  Agrees'
<1>1. e.type = "charge.refunded" /\ e.payment = p /\ Free(p) /\ UNCHANGED <<given, calling>>
  BY DEF ChargeRefunded
<1>2. PICK amount \in 0..MaxAmount : amount = payments[p].amount
  BY BeforeFacts
<1>3. PICK s : s = ApplyAll(amount, Before(p), e.list)
  OBVIOUS
<1>4. s \in Sofar(amount) /\ Grown(p, rows, s.rows)
  BY <1>1, <1>2, <1>3, ApplyAllFacts
<1>5. s.rows \in SUBSET RefundRow /\ s.refunded \in Nat
  BY <1>4, ProviderAssumption DEF Sofar
<1>6. PICK rs : rs = IF e.list = <<>> THEN PendingSucceed(p, s.rows) ELSE s.rows
  OBVIOUS
<1>7. PICK diff : diff = Fewer(e.refunded, amount) - s.refunded
  OBVIOUS
<1>8. PICK more \in BOOLEAN : more = (diff > 0 /\ \A d \in diffs[p] : d.at # e.refunded)
  OBVIOUS
<1>9. PICK t : t = [rows |-> rs, refunded |-> s.refunded + (IF more THEN diff ELSE 0),
                    touched |-> s.touched \/ more,
                    told |-> IF more THEN s.refunded + diff ELSE s.told]
  OBVIOUS
<1>10. /\ Absorb(p, t)
       /\ diffs' = IF more THEN [diffs EXCEPT ![p] = @ \cup {[at |-> e.refunded, amount |-> diff]}]
                   ELSE diffs
  BY <1>2, <1>3, <1>6, <1>7, <1>8, <1>9 DEF ChargeRefunded
<1>11. /\ t.rows = rs /\ t.refunded = s.refunded + (IF more THEN diff ELSE 0)
       /\ t.told = IF more THEN s.refunded + diff ELSE s.told
  BY <1>9
<1>12. \A q \in Payment : diffs[q] \subseteq diffs'[q]
  BY <1>10, Rows
<1>13. Grown(p, rows, t.rows)
  BY <1>10, ChargeGrows DEF Absorb
<1>14. t.refunded \in Nat
  <2>1. CASE more
    <3>1. diff > 0
      BY <1>8, <2>1, Zenon
    <3>2. e.refunded \in Nat /\ amount \in Nat
      BY <1>1, EventCharge, ProviderAssumption
    <3>3. diff \in Int
      BY <1>5, <1>7, <3>2 DEF Fewer
    <3> QED
      BY <1>5, <1>11, <2>1, <3>1, <3>3
  <2>2. CASE ~more
    BY <1>5, <1>11, <2>2
  <2> QED
    BY <2>1, <2>2
<1>15. Clean(p)' => Agreeing(p, t)
  <2> SUFFICES ASSUME Clean(p)' PROVE Agreeing(p, t)
    OBVIOUS
  <2>1. Clean(p)
    BY <1>1, <1>12, CleanBefore DEF GivenKept
  <2>2. ~more
    <3> SUFFICES ASSUME more PROVE FALSE
      OBVIOUS
    <3>1. PICK d : d = [at |-> e.refunded, amount |-> diff]
      OBVIOUS
    <3>2. d \in diffs'[p]
      BY <1>10, <3>1, Rows
    <3> QED
      BY <3>2 DEF Clean
  <2>3. Agreeing(p, s)
    BY <1>1, <1>2, <1>3, <2>1, ApplyAllAgrees
  <2>4. t.refunded = s.refunded /\ t.told = s.told
    BY <1>5, <1>11, <2>2
  <2>5. Seen(p, rs) = Seen(p, s.rows)
    <3>1. \A id : Has(rs, id) <=> Has(s.rows, id)
      <4>1. \A r \in s.rows : [r EXCEPT !.status = "succeeded"].id = r.id
        BY <1>5 DEF RefundRow
      <4> QED
        BY <1>6, <4>1 DEF Has, PendingSucceed
    <3> QED
      BY <3>1, SeenSame
  <2> QED
    BY <1>11, <2>3, <2>4, <2>5 DEF Agreeing
<1> QED
  BY <1>1, <1>10, <1>12, <1>13, <1>14, <1>15, AbsorbAgrees

(* A refund of ours is recorded.                                            *)
LEMMA CommitAgrees ==
  ASSUME Books, Inv, Once, Backing, Agrees, NEW p \in Payment, CommitRefund(p)
  PROVE  Agrees'
<1>1. PICK row \in RefundRow :
        /\ row.id = <<calling[p].by, p>> /\ rows' = rows \cup {row}
        /\ \A r \in rows : r.id # row.id
  BY CommitFacts
<1>2. /\ payments'[p].refunded = payments[p].refunded + calling[p].amount
      /\ \A q \in Payment : q # p => payments'[q] = payments[q]
  BY CommitFacts, Rows
<1>3. calling[p] # NoCall /\ calling' = [calling EXCEPT ![p] = NoCall] /\ UNCHANGED <<given, diffs>>
  BY DEF CommitRefund, Free, provider
<1>4. GivenKept /\ PaymentOf(row.id) = p
  BY <1>1, <1>3 DEF GivenKept, PaymentOf
<1>5. /\ calling[p].amount \in Nat /\ calling[p].amount > 0 /\ payments[p].refunded \in Nat
      /\ order.total \in Nat /\ order.refunded \in Nat
  BY CommitFacts, Rows DEF CallRow, OrderRow
<1>6. PICK rs : rs = rows \cup {row}
  OBVIOUS
<1>7. \A q \in Payment : Seen(q, rows)' = Seen(q, rs)
  BY <1>1, <1>3, <1>6, SeenRests
<1>8. Seen(p, rs) = Seen(p, rows) + calling[p].amount
  <2>1. PICK k \in DOMAIN given : given[k].id = row.id /\ given[k].amount = calling[p].amount
    BY <1>1, <1>3 DEF Backing, CallsBacked, Made
  <2>2. k \in RefundsOf(p)
    BY <1>4, <2>1 DEF RefundsOf
  <2>3. ~Has(rows, given[k].id) /\ \A id : Has(rs, id) <=> Has(rows, id) \/ id = given[k].id
    BY <1>1, <1>6, <2>1 DEF Has
  <2>4. Seen(p, rs) = Seen(p, rows) + given[k].amount
    BY <2>2, <2>3, SeenAdds DEF Once
  <2> QED
    BY <2>1, <2>4
<1>9. ASSUME NEW q \in Payment, q # p PROVE Seen(q, rs) = Seen(q, rows)
  <2>1. \A i \in RefundsOf(q) : Has(rs, given[i].id) <=> Has(rows, given[i].id)
    BY <1>4, <1>6, <1>9 DEF Has, RefundsOf
  <2> QED
    BY <2>1, SeenSame
<1>10. /\ order'.total = order.total /\ order'.paidBy = order.paidBy
       /\ calling[p].by = "cancel" => /\ order'.refunded = order.total
                                      /\ order'.status = "cancelled"
       /\ calling[p].by # "cancel" =>
            /\ order'.status = order.status
            /\ order'.refunded = IF order.paidBy = p THEN payments[p].refunded + calling[p].amount
                                 ELSE order.refunded
  BY Rows DEF CommitRefund, Cancelled, OrderRow
<1>11. calling[p].by = "cancel" => /\ order.paidBy = p
                                   /\ calling[p].amount = order.total - order.refunded
  BY DEF Inv, CancelHolds, Agrees, CancelAsks
<1>12. ASSUME NEW q \in Payment PROVE PaysAsSeen(q)' /\ OrderAsPaid(q)' /\ CancelAsks(q)'
  <2>1. PaysAsSeen(q)'
    <3> SUFFICES ASSUME Clean(q)' PROVE payments'[q].refunded = Seen(q, rows)'
      BY DEF PaysAsSeen
    <3>1. payments[q].refunded = Seen(q, rows)
      BY <1>3, <1>4, CleanBefore DEF Agrees, PaysAsSeen
    <3>2. CASE q = p
      BY <1>2, <1>7, <1>8, <3>1, <3>2
    <3>3. CASE q # p
      BY <1>2, <1>7, <1>9, <3>1, <3>3
    <3> QED
      BY <3>2, <3>3
  <2>2. OrderAsPaid(q)'
    <3> SUFFICES ASSUME Clean(q)', order'.paidBy = q
                 PROVE  /\ order'.refunded = payments'[q].refunded
                        /\ order'.status = "cancelled" => order'.refunded >= order'.total
      BY DEF OrderAsPaid
    <3>1. /\ order.refunded = payments[q].refunded
          /\ order.status = "cancelled" => order.refunded >= order.total
      BY <1>3, <1>4, <1>10, CleanBefore DEF Agrees, OrderAsPaid
    <3>2. CASE calling[p].by = "cancel"
      <4>1. q = p /\ order'.refunded = order.total
        BY <1>10, <1>11, <3>2
      <4>2. calling[p].amount = order.total - payments[p].refunded
        BY <1>11, <3>1, <3>2, <4>1
      <4>3. payments'[p].refunded = order.total
        BY <1>2, <1>5, <4>2
      <4>4. order.total >= order.total
        BY <1>5
      <4> QED
        BY <1>10, <4>1, <4>3, <4>4
    <3>3. CASE calling[p].by # "cancel"
      <4>1. CASE q = p
        <5>1. order.paidBy = p /\ order'.status = order.status /\ order'.total = order.total
          BY <1>10, <3>3, <4>1
        <5>2. order'.refunded = payments[p].refunded + calling[p].amount
          BY <1>10, <3>3, <5>1
        <5>3. order.status = "cancelled" => payments[p].refunded >= order.total
          BY <3>1, <4>1
        <5>4. order.status = "cancelled" => payments[p].refunded + calling[p].amount >= order.total
          BY <1>5, <5>3
        <5> QED
          BY <1>2, <4>1, <5>1, <5>2, <5>4
      <4>2. CASE q # p
        BY <1>2, <1>10, <3>1, <3>3, <4>2
      <4> QED
        BY <4>1, <4>2
    <3> QED
      BY <3>2, <3>3
  <2>3. CancelAsks(q)'
    <3> SUFFICES ASSUME calling'[q].by = "cancel"
                 PROVE  calling'[q].amount = order'.total - order'.refunded
      BY DEF CancelAsks
    <3>1. q # p /\ calling'[q] = calling[q]
      BY <1>3, Rows DEF NoCall
    <3>2. order.paidBy = q
      BY <3>1 DEF Inv, CancelHolds
    <3>3. order'.refunded = order.refunded
      BY <1>10, <1>11, <3>1, <3>2
    <3> QED
      BY <1>10, <3>1, <3>3 DEF Agrees, CancelAsks
  <2> QED
    BY <2>1, <2>2, <2>3
<1>13. NothingPaid'
  BY <1>10, OrderAssumption DEF Agrees, NothingPaid
<1> QED
  BY <1>12, <1>13 DEF Agrees

(* An order is cancelled of which nothing is left to refund.                *)
LEMMA CancelledAgrees ==
  ASSUME Books, Inv, Agrees, order' = Cancelled(order.refunded),
         OrderFree, UNCHANGED <<given, payments, rows, diffs, calling>>,
         order.paidBy = NoPayment \/ order.refunded >= order.total
  PROVE  Agrees'
<1>1. GivenKept /\ \A q \in Payment : Seen(q, rows)' = Seen(q, rows)
  BY Unseen
<1>2. /\ order'.status = "cancelled" /\ order'.refunded = order.refunded
      /\ order'.total = order.total /\ order'.paidBy = order.paidBy
  BY Rows DEF Cancelled, OrderRow
<1>3. ASSUME NEW q \in Payment PROVE PaysAsSeen(q)' /\ OrderAsPaid(q)' /\ CancelAsks(q)'
  <2>1. PaysAsSeen(q)'
    BY <1>1, PaysRest
  <2>2. OrderAsPaid(q)'
    <3> SUFFICES ASSUME Clean(q)', order'.paidBy = q
                 PROVE  order'.refunded = payments'[q].refunded /\ order'.refunded >= order'.total
      BY DEF OrderAsPaid
    <3>1. order.refunded = payments[q].refunded
      BY <1>1, <1>2, CleanBefore DEF Agrees, OrderAsPaid
    <3> QED
      BY <1>2, <3>1, OrderAssumption
  <2>3. CancelAsks(q)'
    BY <1>2 DEF Agrees, CancelAsks
  <2> QED
    BY <2>1, <2>2, <2>3
<1>4. NothingPaid'
  BY <1>2 DEF NothingPaid
<1> QED
  BY <1>3, <1>4 DEF Agrees

LEMMA InitAgrees == Init => Agrees
<1> SUFFICES ASSUME Init PROVE Agrees
  OBVIOUS
<1>1. given = <<>>
  BY DEF Init, ProviderInit
<1>2. \A p : RefundsOf(p) = {}
  BY <1>1 DEF RefundsOf
<1>3. \A p : Seen(p, rows) = 0
  BY <1>2, SumEmpty DEF Seen
<1> QED
  BY <1>3, OrderAssumption DEF Init, Agrees, PaysAsSeen, OrderAsPaid, CancelAsks, NothingPaid, NoCall

LEMMA StepAgrees ==
  Books /\ Inv /\ Once /\ Backing /\ Agrees /\ [Next]_vars => Agrees'
<1> SUFFICES ASSUME Books, Inv, Once, Backing, Agrees, [Next]_vars PROVE Agrees'
  OBVIOUS
<1>1. CASE ProviderNext /\ UNCHANGED local
  BY <1>1, ProviderAgrees
<1>2. ASSUME UNCHANGED <<given, payments, rows, diffs>>,
             \A p \in Payment : calling'[p] = calling[p] \/ calling'[p] = NoCall,
             order'.paidBy = order.paidBy, order'.refunded = order.refunded,
             order'.total = order.total,
             order'.status = "cancelled" => order.status = "cancelled" \/ order.paidBy = NoPayment,
             order'.status \in {"none", "pending"} => order.status \in {"none", "pending"}
      PROVE  Agrees'
  <2>1. \A p \in Payment : calling'[p].by = "cancel" => calling'[p] = calling[p]
    BY <1>2 DEF NoCall
  <2>2. GivenKept /\ \A q \in Payment : Seen(q, rows)' = Seen(q, rows)
    BY <1>2, Unseen
  <2> QED
    BY <1>2, <2>1, <2>2, AgreesRests
<1>3. ASSUME NEW total \in Totals, Create(total) PROVE Agrees'
  <2>1. CASE StartOnline(Attempt[1], total)
    <3>1. Attempt[1] \in Payment /\ order'.paidBy = order.paidBy /\ order'.refunded = order.refunded
      <4>1. Attempt[1] \in Payment
        BY OrderAssumption
      <4>2. order' = [order EXCEPT !.status = "pending", !.total = total, !.attempts = 1,
                                   !.stock = "reserved"]
            \/ order' = [order EXCEPT !.status = "paid", !.stock = "reserved"]
        BY <1>3 DEF Create
      <4>3. order'.paidBy = order.paidBy /\ order'.refunded = order.refunded
        BY <4>2, Rows DEF OrderRow
      <4> QED
        BY <4>1, <4>3
    <3> QED
      BY <1>3, <2>1, <3>1, StartAgrees DEF Create
  <2>2. CASE order' = [order EXCEPT !.status = "paid", !.stock = "reserved"]
             /\ UNCHANGED <<payments, intent, given, events, expiry>>
    <3>1. /\ order'.paidBy = order.paidBy /\ order'.refunded = order.refunded
          /\ order'.total = order.total /\ order'.status = "paid"
      BY <2>2, Rows DEF OrderRow
    <3>2. UNCHANGED <<rows, diffs, calling>>
      BY <1>3 DEF Create
    <3> QED
      BY <1>2, <2>2, <3>1, <3>2
  <2> QED
    BY <1>3, <2>1, <2>2 DEF Create
<1>4. CASE RetryOrderPayment
  <2>1. PICK n : n = order.attempts + 1
    OBVIOUS
  <2>2. /\ n <= Len(Attempt) /\ StartOnline(Attempt[n], order.total) /\ order.status = "pending"
        /\ order' = [order EXCEPT !.attempts = n, !.failed = FALSE]
        /\ UNCHANGED <<rows, diffs, calling>>
    BY <1>4, <2>1 DEF RetryOrderPayment
  <2>3. order.attempts \in Nat
    BY DEF Inv, OrderShape
  <2>4. Attempt[n] \in Payment /\ order'.paidBy = order.paidBy /\ order'.refunded = order.refunded
    BY <2>1, <2>2, <2>3, OrderAssumption, Rows DEF OrderRow
  <2> QED
    BY <2>2, <2>4, StartAgrees
<1>5. ASSUME NEW p \in StaffPayment, NEW amount \in 1..MaxAmount, StaffPays(p, amount) PROVE Agrees'
  <2>1. p \in Payment
    BY DEF StaffPayment
  <2> QED
    BY <1>5, <2>1, StartAgrees DEF StaffPays
<1>6. ASSUME NEW p \in Payment, Succeeded(p) PROVE Agrees'
  <2>1. CASE order.status = "pending" /\ order' = [order EXCEPT !.status = "paid", !.paidBy = p,
                                                                 !.failed = FALSE]
    <3>1. /\ order'.refunded = order.refunded /\ order'.total = order.total
          /\ order'.status = "paid" /\ order'.paidBy = p
      BY <2>1, Rows DEF OrderRow
    <3> QED
      BY <1>6, <2>1, <3>1, SettleAgrees DEF Succeeded
  <2>2. CASE UNCHANGED order
    BY <1>6, <2>2, SettleAgrees DEF Succeeded
  <2> QED
    BY <1>6, <2>1, <2>2 DEF Succeeded, OnPaymentSucceeded
<1>7. ASSUME NEW p \in Payment, PaymentFailed(p) PROVE Agrees'
  <2>1. /\ order'.refunded = order.refunded /\ order'.total = order.total
        /\ order'.status = order.status /\ order'.paidBy = order.paidBy
    BY <1>7, Rows DEF PaymentFailed, OrderRow
  <2> QED
    BY <1>7, <2>1, SettleAgrees DEF PaymentFailed
<1>8. ASSUME NEW p \in Payment, IntentCanceled(p) PROVE Agrees'
  BY <1>8, SettleAgrees DEF IntentCanceled
<1>9. ASSUME NEW by \in Desk, NEW p \in Payment, NEW amount \in 1..MaxAmount,
             RefundRequest(by, p, amount)
      PROVE  Agrees'
  <2>1. by \in Caller /\ amount \in Int /\ by # "cancel"
    BY DEF Desk
  <2> QED
    BY <1>9, <2>1, CallAgrees DEF RefundRequest
<1>10. ASSUME NEW p \in Payment, RunOrphan(p) PROVE Agrees'
  <2>1. CASE StartOrphan(p)
    <3>1. payments[p].amount \in Int /\ "orphan" \in Caller
      BY Rows, OrderAssumption DEF PaymentRow
    <3> QED
      BY <2>1, <3>1, CallAgrees DEF StartOrphan
  <2>2. CASE OrphanEndsAtOnce(p)
    BY <1>2, <2>2 DEF OrphanEndsAtOnce, provider
  <2> QED
    BY <1>10, <2>1, <2>2 DEF RunOrphan
<1>11. ASSUME NEW p \in Payment, RollbackRefund(p) PROVE Agrees'
  <2>1. \A q \in Payment : calling'[q] = calling[q] \/ calling'[q] = NoCall
    BY <1>11, Rows DEF RollbackRefund
  <2> QED
    BY <1>2, <1>11, <2>1 DEF RollbackRefund, provider
<1>12. CASE TimePasses
  BY <1>2, <1>12 DEF TimePasses, provider
<1>13. ASSUME NEW from, NEW to \in {"processing", "shipped", "delivered"}, Move(from, to)
       PROVE  Agrees'
  <2>1. /\ order'.refunded = order.refunded /\ order'.total = order.total
        /\ order'.status = to /\ order'.paidBy = order.paidBy
    BY <1>13, Rows DEF Move, OrderRow
  <2> QED
    BY <1>2, <1>13, <2>1 DEF Move, provider
<1>14. CASE ExpireOrder
  <2>1. UNCHANGED <<given, payments, rows, diffs, calling>> /\ OrderFree
    BY <1>14 DEF ExpireOrder, provider
  <2>2. CASE order.status = "pending"
    <3>1. order' = Cancelled(order.refunded) /\ order.paidBy = NoPayment
      BY <1>14, <2>2 DEF ExpireOrder, Agrees, NothingPaid
    <3> QED
      BY <2>1, <3>1, CancelledAgrees
  <2>3. CASE order.status # "pending"
    BY <1>2, <1>14, <2>1, <2>3 DEF ExpireOrder
  <2> QED
    BY <2>2, <2>3
<1>15. CASE CancelOrder
  <2>1. CASE order.paidBy # NoPayment /\ CallProvider("cancel", order.paidBy, ToRefund)
             /\ UNCHANGED order
    <3>1. order.paidBy \in Payment /\ "cancel" \in Caller
      BY <2>1, OrderAssumption DEF Inv, OrderShape
    <3>2. ToRefund \in Int
      BY Rows DEF ToRefund, OrderRow
    <3> QED
      BY <1>15, <2>1, <3>1, <3>2, CallAgrees DEF CancelOrder, ToRefund
  <2>2. CASE /\ order.status = "pending" \/ order.paidBy = NoPayment \/ ToRefund <= 0
             /\ order' = Cancelled(order.refunded) /\ UNCHANGED <<provider, calling>>
    <3>1. order.paidBy = NoPayment \/ order.refunded >= order.total
      BY <2>2, Rows DEF ToRefund, OrderRow, Agrees, NothingPaid
    <3> QED
      BY <1>15, <2>2, <3>1, CancelledAgrees DEF CancelOrder, provider
  <2> QED
    BY <1>15, <2>1, <2>2 DEF CancelOrder
<1>16. CASE UNCHANGED vars
  BY <1>2, <1>16 DEF vars
<1> QED
  BY <1>1, <1>3, <1>4, <1>5, <1>6, <1>7, <1>8, <1>9, <1>10, <1>11, <1>12, <1>13, <1>14, <1>15,
     <1>16, UpdatedAgrees, ChargeAgrees, CommitAgrees
     DEF Next, Webhook, ProcessOrder, ShipOrder, DeliverOrder

LEMMA AgreesRepaid == Books /\ Once /\ Agrees => CancelledIsRepaid
<1> SUFFICES ASSUME Books, Once, Agrees, NEW p \in Payment, order.status = "cancelled",
                    order.paidBy = p, Clean(p)
             PROVE  Returned(p) = order.total
  BY DEF CancelledIsRepaid, Repaid, Clean
<1>1. order.total <= order.refunded /\ order.refunded = Seen(p, rows)
  BY Rows DEF Agrees, PaysAsSeen, OrderAsPaid, OrderRow
<1>2. Seen(p, rows) <= Returned(p)
  BY SeenReturned DEF Clean
<1>3. Returned(p) <= payments[p].amount /\ payments[p].amount <= order.total
  BY DEF Once, Books, Money
<1>4. /\ order.total \in Nat /\ payments[p].amount \in Nat
      /\ Returned(p) \in Nat /\ Seen(p, rows) \in Nat
  BY Rows, ReturnedNat, SeenNat DEF OrderRow, PaymentRow
<1> QED
  BY <1>1, <1>2, <1>3, <1>4

(* When a paid order is cancelled, its payer has the whole total back,      *)
(* whoever made the refunds, in whatever order they were reported and       *)
(* whichever transactions were rolled back after they had called the        *)
(* provider (commerce/orders.ts: cancelOrder; payments/api.ts).             *)
THEOREM CancelledOrderRepaid == Spec => []CancelledIsRepaid
<1>1. Init => Once /\ Counted /\ Backing /\ Agrees
  BY InitOnce, InitCounted, InitBacking, InitAgrees
<1> QED
  BY <1>1, StepOnce, StepCounted, StepBacking, StepAgrees, AgreesRepaid, BooksAlways, InvAlways,
     PTL DEF Spec

-----------------------------------------------------------------------------
(* Each row stands for one refund of the provider.                          *)

LEMMA RecordedOnce ==
  ASSUME Books, Once, Backing, NEW p \in Payment PROVE RowSum(p, rows) <= RecordedOf(p)
<1> DEFINE f == [r \in rows |-> Counts(p, r)]
           R == {r \in rows : PaymentOf(r.id) = p /\ r.status # "failed"}
           m == [r \in R |-> CHOOSE i \in DOMAIN given : given[i].id = r.id]
           g == [r \in R |-> given[m[r]].amount]
           I == {m[r] : r \in R}
           h == [i \in RefundsOf(p) |-> Recording(i)]
           k == [i \in RefundsOf(p) |-> IF i \in I THEN h[i] ELSE 0]
           l == [r \in rows |-> IF r \in R THEN f[r] ELSE 0]
<1>1. IsFiniteSet(rows) /\ rows \in SUBSET RefundRow
  BY SumsNat
<1>2. IsFiniteSet(RefundsOf(p)) /\ \A i \in RefundsOf(p) : given[i] \in Given
  BY Rows, GivenFinite
<1>3. IsFiniteSet(R) /\ R \in SUBSET rows
  BY <1>1, FS_Subset
<1>4. \A r \in rows : f[r] \in Nat /\ (r \notin R => f[r] = 0)
  BY <1>1, CountsNat DEF Counts
<1>5. ASSUME NEW r \in R
      PROVE  /\ m[r] \in RefundsOf(p) /\ given[m[r]].id = r.id
             /\ r.amount <= given[m[r]].amount
  <2>1. PICK i \in DOMAIN given : given[i].id = r.id /\ r.amount <= given[i].amount
    BY DEF Backing, RowsBacked, Sized
  <2>2. m[r] = CHOOSE j \in DOMAIN given : given[j].id = r.id
    OBVIOUS
  <2>3. m[r] \in DOMAIN given /\ given[m[r]].id = r.id
    BY <2>1, <2>2
  <2>4. m[r] = i
    BY <2>1, <2>3 DEF Once, GivenUnique
  <2> QED
    BY <2>1, <2>3, <2>4 DEF RefundsOf
<1>6. \A r, q \in R : m[r] = m[q] => r = q
  <2> SUFFICES ASSUME NEW r \in R, NEW q \in R, m[r] = m[q] PROVE r = q
    OBVIOUS
  <2>1. given[m[r]].id = r.id /\ given[m[q]].id = q.id
    BY <1>5
  <2>2. r.id = q.id
    BY <2>1
  <2> QED
    BY <2>2 DEF Books, RowsKnown, OneRowEach
<1>7. \A r \in R : /\ f[r] \in Int /\ g[r] \in Int /\ f[r] <= g[r]
                   /\ h[m[r]] = g[r]
  <2> TAKE r \in R
  <2>1. m[r] \in RefundsOf(p) /\ given[m[r]].id = r.id /\ r.amount <= given[m[r]].amount
    BY <1>5
  <2>2. f[r] = r.amount /\ f[r] \in Nat /\ g[r] = given[m[r]].amount
    BY <1>4 DEF Counts
  <2>3. given[m[r]].amount \in Nat
    BY <1>2, <2>1, ProviderAssumption DEF Given
  <2>4. PICK n \in RefundsOf(p) : n = m[r]
    BY <2>1
  <2>5. h[n] = Recording(n)
    OBVIOUS
  <2>6. Recording(n) = given[n].amount
    <3>1. r \in rows /\ r.id = given[n].id /\ r.status # "failed"
      BY <2>1, <2>4
    <3> QED
      BY <3>1 DEF Recording
  <2>7. h[m[r]] = given[m[r]].amount
    BY <2>4, <2>5, <2>6
  <2> HIDE DEF f, g, h, m
  <2> QED
    BY <2>1, <2>2, <2>3, <2>7
<1>8. I \in SUBSET RefundsOf(p) /\ \A i \in I : \E r \in R : i = m[r]
  <2>1. \A r \in R : m[r] \in RefundsOf(p)
    BY <1>5
  <2> HIDE DEF m, R
  <2> QED
    BY <2>1
<1>9. \A i \in RefundsOf(p) : h[i] \in Nat /\ (i \notin I => h[i] = 0)
  <2> TAKE i \in RefundsOf(p)
  <2>1. given[i].amount \in Nat
    BY <1>2, ProviderAssumption DEF Given
  <2>2. h[i] = Recording(i)
    OBVIOUS
  <2>3. ASSUME h[i] # 0 PROVE i \in I
    <3>1. PICK r \in rows : r.id = given[i].id /\ r.status # "failed"
      BY <2>2, <2>3 DEF Recording
    <3>2. r \in R
      BY <3>1 DEF RefundsOf
    <3>3. m[r] \in DOMAIN given /\ i \in DOMAIN given /\ given[m[r]].id = given[i].id
      BY <1>5, <3>1, <3>2 DEF RefundsOf
    <3>4. m[r] = i
      BY <3>3 DEF Once, GivenUnique
    <3> QED
      BY <3>2, <3>4
  <2> QED
    BY <2>1, <2>2, <2>3 DEF Recording
<1>10. \A i \in RefundsOf(p) : k[i] = h[i]
  BY <1>9
<1>11. \A r \in rows : l[r] = f[r]
  BY <1>4
<1>12. RowSum(p, rows) = SumFunctionOnSet(f, rows) /\ RecordedOf(p) = SumFunctionOnSet(h, RefundsOf(p))
  BY DEF RowSum, RecordedOf
<1>13. SumFunctionOnSet(f, R) = SumFunctionOnSet(l, rows)
  <2>1. \A r \in rows : f[r] \in Int
    BY <1>4
  <2> HIDE DEF f, R
  <2> QED
    BY <1>1, <1>3, <2>1, SumFilter
<1>14. SumFunctionOnSet(h, I) = SumFunctionOnSet(k, RefundsOf(p))
  <2>1. \A i \in RefundsOf(p) : h[i] \in Int
    BY <1>9
  <2> HIDE DEF h, I
  <2> QED
    BY <1>2, <1>8, <2>1, SumFilter
<1> HIDE DEF f, R, m, g, h, k, l
<1>15. SumFunctionOnSet(l, rows) = SumFunctionOnSet(f, rows)
  BY <1>1, <1>11, SumSame
<1>16. SumFunctionOnSet(k, RefundsOf(p)) = SumFunctionOnSet(h, RefundsOf(p))
  BY <1>2, <1>10, SumSame
<1>17. SumFunctionOnSet(h, {m[r] : r \in R}) = SumFunctionOnSet(g, R)
  BY <1>3, <1>6, <1>7, SumImage
<1>18. SumFunctionOnSet(f, R) <= SumFunctionOnSet(g, R)
  BY <1>3, <1>7, SumMonotone
<1> QED
  BY <1>12, <1>13, <1>14, <1>15, <1>16, <1>17, <1>18

LEMMA CountedIsOnce == Books /\ Once /\ Counted /\ Backing => CountedOnce
<1> SUFFICES ASSUME Books, Once, Counted, Backing, NEW p \in Payment, diffs[p] = {}
             PROVE  payments[p].refunded <= RecordedOf(p)
  BY DEF CountedOnce
<1>1. DiffSum(diffs[p]) = 0
  <2>1. [d \in {} |-> d.amount] = [d \in diffs[p] |-> d.amount]
    OBVIOUS
  <2> QED
    BY <2>1, SumEmpty DEF DiffSum
<1>2. payments[p].refunded <= RowSum(p, rows) + 0
  BY <1>1 DEF Counted, Covered
<1>3. RowSum(p, rows) <= RecordedOf(p)
  BY RecordedOnce
<1>4. RowSum(p, rows) \in Nat /\ payments[p].refunded \in Nat
  BY SumsNat
<1>5. RecordedOf(p) \in Nat
  <2> DEFINE h == [i \in RefundsOf(p) |-> Recording(i)]
  <2>1. IsFiniteSet(RefundsOf(p)) /\ \A i \in RefundsOf(p) : given[i].amount \in Nat
    BY Rows, GivenFinite, ProviderAssumption DEF Given
  <2>2. \A i \in RefundsOf(p) : h[i] \in Nat
    BY <2>1 DEF Recording
  <2>3. RecordedOf(p) = SumFunctionOnSet(h, RefundsOf(p))
    BY DEF RecordedOf
  <2> HIDE DEF h
  <2> QED
    BY <2>1, <2>2, <2>3, SumOfNats
<1> QED
  BY <1>2, <1>3, <1>4, <1>5

(* No refund of the provider is counted twice, however often and in         *)
(* whatever order it is reported, and whether its own transaction, the      *)
(* retry of one that was rolled back or a webhook records it first, unless  *)
(* the payment was counted from a charge without its list (webhook.ts:      *)
(* applyProviderRefund; payments/api.ts: refundPayment).                    *)
THEOREM RefundsCountedOnce == Spec => []CountedOnce
<1>1. Init => Once /\ Counted /\ Backing
  BY InitOnce, InitCounted, InitBacking
<1> QED
  BY <1>1, StepOnce, StepCounted, StepBacking, CountedIsOnce, BooksAlways, InvAlways, PTL DEF Spec
=============================================================================
