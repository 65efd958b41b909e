------------------------------ MODULE EcOrder ------------------------------
(***************************************************************************)
(* One EC order, its online payments and their refunds:                    *)
(* modules/commerce/orders.ts, modules/payments/api.ts and                 *)
(* modules/payments/webhook.ts.  Orders share only stock, and payments     *)
(* belong to one order, so one order shows what they do to each other.     *)
(*                                                                         *)
(* Every request, job and webhook is one transaction that locks the rows   *)
(* it reads before it decides (FOR UPDATE); it is one action here, except  *)
(* that refundPayment() calls the provider in the middle of one: between   *)
(* the call and the commit the locks are held, and the transaction may be  *)
(* rolled back with the money already given back.  emit() runs the order's *)
(* handlers inside the payment's transaction.                              *)
(***************************************************************************)
EXTENDS PaymentProvider

CONSTANTS
  Attempt,   \* the key `order:<id>:<n>` of the n-th payment the customer starts;
             \* its length bounds the attempts
  NoPayment, \* no paid_payment_id
  Totals,    \* bound: what an order may cost
  MaxTries   \* max_attempts of a job

(* The other payments are started by staff (POST /payments), the other      *)
(* refunds by staff (POST /payments/:id/refund).                            *)
StaffPayment == Payment \ Range(Attempt)
Desk == Caller \ {"orphan", "cancel"}

ASSUME OrderAssumption ==
  /\ Attempt \in Seq(Payment)
  /\ IsInjective(Attempt)
  /\ Attempt # <<>>
  /\ NoPayment \notin Payment
  /\ {"orphan", "cancel"} \subseteq Caller
  /\ Totals \subseteq 0..MaxAmount
  /\ MaxTries \in Nat \ {0}
  /\ IsFiniteSet(Payment)

VARIABLES
  order,     \* the row of "orders" and the stock reserved for it
  payments,  \* rows of "payments"
  rows,      \* rows of "refunds" that name a provider refund
  diffs,     \* rows of "refunds" made from the refunded amount of a charge
  calling,   \* per payment: the refund in the middle of its transaction
  orphan,    \* the jobs commerce.refund_orphan_payment
  expiry,    \* the job commerce.expire_order
  due        \* has expires_at passed?

local == <<order, payments, rows, diffs, calling, orphan, expiry, due>>
vars == <<intent, given, events, order, payments, rows, diffs, calling, orphan, expiry, due>>

Active == {"requires_action", "succeeded", "partially_refunded", "refunded"}
Final == {"succeeded", "failed", "cancelled", "refunded", "partially_refunded"}
Recorded == {"succeeded", "partially_refunded", "refunded"}

NoCall == [by |-> "nobody"]
Untold == -1

OrderStatus == {"none", "pending", "paid", "processing", "shipped", "delivered", "cancelled"}

TypeOK ==
  /\ ProviderTypeOK
  /\ order \in [status: OrderStatus, total: 0..MaxAmount, attempts: 0..Len(Attempt),
                failed: BOOLEAN, paidBy: Payment \cup {NoPayment},
                refunded: 0..MaxAmount, stock: {"shelf", "reserved"}]
  /\ payments \in [Payment -> [status: {"none"} \cup Active \cup Final,
                               amount: 0..MaxAmount, refunded: 0..MaxAmount,
                               settled: BOOLEAN]] \* succeeded_at is set
  /\ rows \subseteq [id: RefundId, amount: 1..MaxAmount, status: RefundState, api: BOOLEAN]
  /\ diffs \in [Payment -> SUBSET [at: 1..MaxAmount, amount: 1..MaxAmount]]
  /\ calling \in [Payment -> [by: Caller, amount: 1..MaxAmount, status: RefundState]
                             \cup {NoCall}]
  /\ orphan \in [Payment -> [state: {"none", "queued", "running", "done", "dead"},
                             tries: 0..MaxTries]]
  /\ expiry \in {"none", "queued", "cancelled", "done"}
  /\ due \in BOOLEAN

Init ==
  /\ ProviderInit
  /\ order = [status |-> "none", total |-> 0, attempts |-> 0, failed |-> FALSE,
              paidBy |-> NoPayment, refunded |-> 0, stock |-> "shelf"]
  /\ payments = [p \in Payment |-> [status |-> "none", amount |-> 0, refunded |-> 0,
                              settled |-> FALSE]]
  /\ rows = {}
  /\ diffs = [p \in Payment |-> {}]
  /\ calling = [p \in Payment |-> NoCall]
  /\ orphan = [p \in Payment |-> [state |-> "none", tries |-> 0]]
  /\ expiry = "none"
  /\ due = FALSE

(* Locks held across a provider call: the payment's row, and for            *)
(* cancelOrder() the order's row too.                                       *)
Free(p) == calling[p] = NoCall
OrderFree == \A p \in Payment : calling[p] = NoCall \/ calling[p].by # "cancel"

-----------------------------------------------------------------------------
(* Starting a payment.                                                      *)

(* Mutant: only captured payments hold the balance.                         *)
HeldIfRecorded(p) ==
  IF payments[p].status \in Recorded THEN payments[p].amount - payments[p].refunded ELSE 0

HeldBy(p) == IF payments[p].status \in Active THEN payments[p].amount - payments[p].refunded ELSE 0

Outstanding == order.total - SumFunctionOnSet([p \in Payment |-> HeldBy(p)], Payment)

(* A payment already started with its key is answered again: nothing        *)
(* changes, so only new ones are steps.                                     *)
StartOnline(p, amount) ==
  /\ payments[p].status = "none"
  /\ payments' = [payments EXCEPT ![p] =
                    [status |-> "requires_action", amount |-> amount, refunded |-> 0,
                     settled |-> FALSE]]
  /\ intent' = [intent EXCEPT ![p].state = "open", ![p].amount = amount]
  /\ UNCHANGED <<given, events>>

Create(total) ==
  /\ order.status = "none"
  /\ \/ /\ total > 0
        /\ order' = [order EXCEPT !.status = "pending", !.total = total, !.attempts = 1,
                                  !.stock = "reserved"]
        /\ StartOnline(Attempt[1], total)
        /\ expiry' = "queued"
     \/ /\ total = 0
        /\ order' = [order EXCEPT !.status = "paid", !.stock = "reserved"]
        /\ UNCHANGED <<payments, intent, given, events, expiry>>
  /\ UNCHANGED <<rows, diffs, calling, orphan, due>>

RetryOrderPayment ==
  LET n == order.attempts + 1
  IN  /\ order.status = "pending" /\ ~due
      /\ order.failed
      /\ n <= Len(Attempt)
      /\ order.total <= Outstanding
      /\ order' = [order EXCEPT !.attempts = n, !.failed = FALSE]
      /\ StartOnline(Attempt[n], order.total)
      /\ UNCHANGED <<rows, diffs, calling, orphan, expiry, due>>

StaffPays(p, amount) ==
  /\ order.status = "pending"
  /\ amount <= Outstanding
  /\ StartOnline(p, amount)
  /\ UNCHANGED <<order, rows, diffs, calling, orphan, expiry, due>>

-----------------------------------------------------------------------------
(* Settling a payment.                                                      *)

CancelExpiry == expiry' = IF expiry = "queued" THEN "cancelled" ELSE expiry

Settle(p, status) ==
  /\ Free(p)
  /\ payments[p].status \notin Final \cup {"none"}
  /\ payments' = [payments EXCEPT ![p].status = status, ![p].settled = (status = "succeeded")]

(* Mutant: the money of a second payment is taken without a word.           *)
OnPaymentSucceededOnce(p) ==
  /\ OrderFree
  /\ \/ /\ order.status = "pending"
        /\ order' = [order EXCEPT !.status = "paid", !.paidBy = p, !.failed = FALSE]
        /\ CancelExpiry
     \/ order.status # "pending" /\ UNCHANGED <<order, expiry>>
  /\ UNCHANGED orphan

OnPaymentSucceeded(p) ==
  /\ OrderFree
  /\ \/ /\ order.status = "pending"
        /\ order' = [order EXCEPT !.status = "paid", !.paidBy = p, !.failed = FALSE]
        /\ CancelExpiry
        /\ UNCHANGED orphan
     \/ /\ order.status # "pending"
        /\ orphan' = IF order.paidBy # p THEN [orphan EXCEPT ![p].state = "queued"] ELSE orphan
        /\ UNCHANGED <<order, expiry>>

Succeeded(p) ==
  /\ [type |-> "succeeded", payment |-> p] \in events
  /\ Settle(p, "succeeded")
  /\ OnPaymentSucceeded(p)
  /\ UNCHANGED <<intent, given, events, rows, diffs, calling, due>>

PaymentFailed(p) ==
  /\ [type |-> "payment_failed", payment |-> p] \in events
  /\ Settle(p, "failed")
  /\ OrderFree
  /\ order' = [order EXCEPT !.failed = @ \/ order.status = "pending"]
  /\ UNCHANGED <<intent, given, events, rows, diffs, calling, orphan, expiry, due>>

IntentCanceled(p) ==
  /\ [type |-> "canceled", payment |-> p] \in events
  /\ Settle(p, "cancelled")
  /\ UNCHANGED <<intent, given, events, order, rows, diffs, calling, orphan, expiry, due>>

-----------------------------------------------------------------------------
(* Refunds the provider tells of.  "s" is what one transaction has made of  *)
(* the payment so far; "told" is the amount its last payment.refunded event *)
(* gave to the order.                                                       *)

StatusOf(amount, refunded) ==
  IF refunded <= 0 THEN "succeeded"
  ELSE IF refunded >= amount THEN "refunded" ELSE "partially_refunded"

(* Mutant: not capped.                                                      *)
FirstOf(a, b) == a

Fewer(a, b) == IF a < b THEN a ELSE b

RowsOf(id) == {r \in rows : r.id = id}

(* Mutant: a refund that is reported again is counted again.                *)
CountEachReport(amount, s, re) ==
  LET paid == Fewer(re.amount, amount - s.refunded)
  IN  IF re.state = "failed" \/ paid <= 0 THEN s
      ELSE [rows |-> {r \in s.rows : r.id # re.id}
                     \cup {[id |-> re.id, amount |-> re.amount, status |-> re.state, api |-> FALSE]},
            refunded |-> s.refunded + paid, touched |-> TRUE, told |-> s.refunded + paid]

ApplyProviderRefund(amount, s, re) ==
  LET known == {r \in s.rows : r.id = re.id}
      paid == Fewer(re.amount, amount - s.refunded)
  IN  IF known = {}
      THEN IF re.state = "failed" \/ paid <= 0 THEN s
           ELSE [rows |-> s.rows \cup {[id |-> re.id, amount |-> paid,
                                        status |-> re.state, api |-> FALSE]},
                 refunded |-> s.refunded + paid, touched |-> TRUE, told |-> s.refunded + paid]
      ELSE LET r == CHOOSE r \in known : TRUE
               less == IF s.refunded > r.amount THEN s.refunded - r.amount ELSE 0
           IN  IF r.status = re.state THEN s
               ELSE [rows |-> (s.rows \ {r}) \cup {[r EXCEPT !.status = re.state]},
                     refunded |-> IF re.state = "failed" THEN less
                                  ELSE IF r.status = "failed"
                                  THEN Fewer(amount, s.refunded + r.amount)
                                  ELSE s.refunded,
                     touched |-> s.touched \/ "failed" \in {re.state, r.status},
                     told |-> s.told]

(* The refunds of a charge, one after the other.                            *)
ApplyAll(amount, s, list) ==
  LET after[n \in 0..Len(list)] ==
        IF n = 0 THEN s ELSE ApplyProviderRefund(amount, after[n - 1], list[n])
  IN  after[Len(list)]

Before(p) == [rows |-> rows, refunded |-> payments[p].refunded, touched |-> FALSE,
              told |-> Untold]

Absorb(p, s) ==
  /\ rows' = s.rows
  /\ payments' = [payments EXCEPT
       ![p].refunded = s.refunded,
       ![p].status = IF s.touched THEN StatusOf(payments[p].amount, s.refunded) ELSE @]
  /\ order' = IF s.told # Untold /\ order.paidBy = p
              THEN [order EXCEPT !.refunded = s.told] ELSE order

RefundUpdated(p, e) ==
  /\ e.type = "refund.updated" /\ e.payment = p
  /\ Free(p)
  /\ Absorb(p, ApplyProviderRefund(payments[p].amount, Before(p), e.refund))
  /\ UNCHANGED <<intent, given, events, diffs, calling, orphan, expiry, due>>

(* A charge without its list of refunds: the rows of our own refunds are    *)
(* taken for what has become of them.                                       *)
PendingSucceed(p, rs) ==
  {IF r.status = "pending" /\ PaymentOf(r.id) = p THEN [r EXCEPT !.status = "succeeded"] ELSE r :
     r \in rs}

ChargeRefunded(p, e) ==
  LET amount == payments[p].amount
      s == ApplyAll(amount, Before(p), e.list)
      diff == Fewer(e.refunded, amount) - s.refunded
      more == diff > 0 /\ \A d \in diffs[p] : d.at # e.refunded
  IN  /\ e.type = "charge.refunded" /\ e.payment = p
      /\ Free(p)
      /\ Absorb(p, [rows |-> IF e.list = <<>> THEN PendingSucceed(p, s.rows) ELSE s.rows,
                    refunded |-> s.refunded + (IF more THEN diff ELSE 0),
                    touched |-> s.touched \/ more,
                    told |-> IF more THEN s.refunded + diff ELSE s.told])
      /\ diffs' = IF more
                  THEN [diffs EXCEPT ![p] = @ \cup {[at |-> e.refunded, amount |-> diff]}]
                  ELSE diffs
      /\ UNCHANGED <<intent, given, events, calling, orphan, expiry, due>>

-----------------------------------------------------------------------------
(* refundPayment().                                                         *)

Replayed(id) == \E r \in rows : r.id = id /\ r.api

Refundable(p, amount) ==
  /\ payments[p].status \in {"succeeded", "partially_refunded"}
  /\ amount > 0
  /\ payments[p].refunded + amount <= payments[p].amount

(* The provider makes the refund, or answers again if it knows the key.     *)
CallProvider(by, p, amount) ==
  LET id == <<by, p>>
  IN  /\ Free(p) /\ ~Replayed(id) /\ Refundable(p, amount)
      /\ \/ \E i \in DOMAIN given :
              /\ given[i].id = id /\ given[i].amount = amount
              /\ calling' = [calling EXCEPT ![p] =
                               [by |-> by, amount |-> amount, status |-> given[i].first]]
              /\ UNCHANGED provider
         \/ \E state \in Starts, listed \in ListModes :
              /\ Give(id, amount, state, listed)
              /\ calling' = [calling EXCEPT ![p] =
                               [by |-> by, amount |-> amount, status |-> state]]
              /\ UNCHANGED intent

RefundRequest(by, p, amount) ==
  /\ by \in Desk
  /\ CallProvider(by, p, amount)
  /\ UNCHANGED <<order, payments, rows, diffs, orphan, expiry, due>>

Tried(job) == [job EXCEPT !.tries = @ + 1]

(* refundOrphanPayment(): the whole amount, whatever was refunded before.   *)
StartOrphan(p) ==
  /\ orphan[p].state = "queued"
  /\ CallProvider("orphan", p, payments[p].amount)
  /\ orphan' = [orphan EXCEPT ![p] = [Tried(@) EXCEPT !.state = "running"]]
  /\ UNCHANGED <<order, payments, rows, diffs, expiry, due>>

(* Mutant: an attempt that failed is not counted.                           *)
TryForever(job) == [job EXCEPT !.state = "queued", !.tries = 0]

AfterFailure(job) ==
  [job EXCEPT !.state = IF job.tries = MaxTries THEN "dead" ELSE "queued"]

(* Mutant: an error of the provider is swallowed.                           *)
OrphanEndsAnyway(p) ==
  /\ orphan[p].state = "queued" /\ Free(p)
  /\ orphan' = [orphan EXCEPT ![p].state = "done"]
  /\ UNCHANGED <<provider, order, payments, rows, diffs, calling, expiry, due>>

(* The job throws before anything is given back, or had been committed by   *)
(* an earlier run that was not marked as done.                              *)
OrphanEndsAtOnce(p) ==
  /\ orphan[p].state = "queued" /\ Free(p)
  /\ \/ /\ Replayed(<<"orphan", p>>)
        /\ orphan' = [orphan EXCEPT ![p].state = "done"]
     \/ /\ ~Replayed(<<"orphan", p>>)
        /\ orphan' = [orphan EXCEPT ![p] = AfterFailure(Tried(@))]
  /\ UNCHANGED <<provider, order, payments, rows, diffs, calling, expiry, due>>

RunOrphan(p) == StartOrphan(p) \/ OrphanEndsAtOnce(p)

Cancelled(refunded) ==
  [order EXCEPT !.status = "cancelled", !.refunded = refunded, !.stock = "shelf"]

(* The transaction that called the provider commits, unless a webhook has   *)
(* written the refund already: provider_refund_id is unique.                *)
CommitRefund(p) ==
  LET c == calling[p]
      refunded == payments[p].refunded + c.amount
  IN  /\ ~Free(p)
      /\ RowsOf(<<c.by, p>>) = {}
      /\ rows' = rows \cup {[id |-> <<c.by, p>>, amount |-> c.amount, status |-> c.status,
                             api |-> TRUE]}
      /\ payments' = [payments EXCEPT
           ![p].refunded = refunded, ![p].status = StatusOf(payments[p].amount, refunded)]
      /\ calling' = [calling EXCEPT ![p] = NoCall]
      /\ \/ /\ c.by = "cancel"
            /\ order' = Cancelled(order.total)
            /\ CancelExpiry
            /\ UNCHANGED orphan
         \/ /\ c.by # "cancel"
            /\ order' = IF order.paidBy = p THEN [order EXCEPT !.refunded = refunded] ELSE order
            /\ c.by = "orphan" => \E state \in {"done", "queued"} :
                                    orphan' = [orphan EXCEPT ![p].state = state]
            /\ c.by # "orphan" => UNCHANGED orphan
            /\ UNCHANGED expiry
      /\ UNCHANGED <<provider, diffs, due>>

(* The call timed out, the process died, or the commit was refused.         *)
RollbackRefund(p) ==
  /\ ~Free(p)
  /\ calling' = [calling EXCEPT ![p] = NoCall]
  /\ orphan' = IF calling[p].by = "orphan"
               THEN [orphan EXCEPT ![p] = AfterFailure(@)] ELSE orphan
  /\ UNCHANGED <<provider, order, payments, rows, diffs, expiry, due>>

-----------------------------------------------------------------------------
(* The order.                                                               *)

TimePasses ==
  /\ order.status = "pending" /\ ~due
  /\ due' = TRUE
  /\ UNCHANGED <<provider, order, payments, rows, diffs, calling, orphan, expiry>>

(* Mutant: a job that runs too early ends all the same.                     *)
ExpireOrderOnce ==
  /\ expiry = "queued"
  /\ OrderFree
  /\ expiry' = "done"
  /\ order' = IF order.status = "pending" /\ due THEN Cancelled(order.refunded) ELSE order
  /\ UNCHANGED <<provider, payments, rows, diffs, calling, orphan, due>>

(* Mutant: marking an order as paid leaves its job alone, and the job does  *)
(* not look at the order again.                                             *)
ExpireOrderUnseen ==
  /\ expiry \in {"queued", "cancelled"} /\ due
  /\ OrderFree
  /\ order.status # "cancelled"
  /\ expiry' = "done"
  /\ order' = Cancelled(order.refunded)
  /\ UNCHANGED <<provider, payments, rows, diffs, calling, orphan, due>>

(* expireOrder(); run before expires_at it only queues itself again.        *)
ExpireOrder ==
  /\ expiry = "queued" /\ due
  /\ OrderFree
  /\ expiry' = "done"
  /\ order' = IF order.status = "pending" THEN Cancelled(order.refunded) ELSE order
  /\ UNCHANGED <<provider, payments, rows, diffs, calling, orphan, due>>

Move(from, to) ==
  /\ order.status \in from
  /\ OrderFree
  /\ order' = [order EXCEPT !.status = to]
  /\ UNCHANGED <<provider, payments, rows, diffs, calling, orphan, expiry, due>>

ProcessOrder == Move({"paid"}, "processing")
ShipOrder == Move({"paid", "processing"}, "shipped")
DeliverOrder == Move({"shipped"}, "delivered")

ToRefund == order.total - order.refunded

(* Mutant: the order is cancelled though its refund was refused.            *)
CancelOrderAnyway ==
  /\ order.status \in {"pending", "paid", "processing"}
  /\ OrderFree
  /\ order' = Cancelled(order.total)
  /\ CancelExpiry
  /\ UNCHANGED <<provider, calling, payments, rows, diffs, orphan, due>>

(* cancelOrder(): what is left of the payment is refunded first.            *)
CancelOrder ==
  /\ order.status \in {"pending", "paid", "processing"}
  /\ OrderFree
  /\ \/ /\ order.status # "pending" /\ order.paidBy # NoPayment /\ ToRefund > 0
        /\ CallProvider("cancel", order.paidBy, ToRefund)
        /\ UNCHANGED <<order, expiry>>
     \/ /\ order.status = "pending" \/ order.paidBy = NoPayment \/ ToRefund <= 0
        /\ order' = Cancelled(order.refunded)
        /\ CancelExpiry
        /\ UNCHANGED <<provider, calling>>
  /\ UNCHANGED <<payments, rows, diffs, orphan, due>>

-----------------------------------------------------------------------------
Webhook ==
  \E p \in Payment :
    \/ Succeeded(p) \/ PaymentFailed(p) \/ IntentCanceled(p)
    \/ \E e \in events : ChargeRefunded(p, e) \/ RefundUpdated(p, e)

Next ==
  \/ ProviderNext /\ UNCHANGED local
  \/ \E total \in Totals : Create(total)
  \/ RetryOrderPayment
  \/ \E p \in StaffPayment, amount \in 1..MaxAmount : StaffPays(p, amount)
  \/ Webhook
  \/ \E by \in Desk, p \in Payment, amount \in 1..MaxAmount : RefundRequest(by, p, amount)
  \/ \E p \in Payment : RunOrphan(p) \/ CommitRefund(p) \/ RollbackRefund(p)
  \/ TimePasses \/ ExpireOrder
  \/ ProcessOrder \/ ShipOrder \/ DeliverOrder \/ CancelOrder

(* Time passes, webhooks and jobs are delivered until they are done, and a  *)
(* transaction that called the provider ends.  A job that waits for a row   *)
(* is next in its lock queue when the row is free, hence strong fairness.   *)
Fairness ==
  /\ WF_vars(TimePasses) /\ WF_vars(ExpireOrder)
  /\ \A p \in Payment :
       /\ SF_vars(Succeeded(p))
       /\ SF_vars(RunOrphan(p))
       /\ WF_vars(CommitRefund(p) \/ RollbackRefund(p))

Spec == Init /\ [][Next]_vars
FairSpec == Spec /\ Fairness

-----------------------------------------------------------------------------
(* Properties.                                                              *)

Claim(p) ==
  IF payments[p].status = "requires_action" \/ payments[p].settled THEN HeldBy(p) ELSE 0

(* The payments of an order together never hold more than it costs          *)
(* (outstandingBalance() under the order's row lock).  Payments the payer   *)
(* still has to make, or has made, count.                                   *)
HeldWithinTotal == SumFunctionOnSet([p \in Payment |-> Claim(p)], Payment) <= order.total

(* Money the order does not need, because it was cancelled or another       *)
(* payment came first, is refunded or a job will do it: onPaymentSucceeded. *)
Unneeded(p) == order.status # "pending" /\ order.paidBy # p

OrphanCovered ==
  \A p \in Payment : payments[p].settled /\ Unneeded(p) => orphan[p].state # "none"

(* The same of all money the provider captured: in the end a job returns it *)
(* or it has been returned.                                                 *)
DuplicateIsRefunded ==
  \A p \in Payment :
    Captured(p) /\ Unneeded(p) ~> orphan[p].state # "none" \/ Returned(p) = intent[p].amount

(* A refund job that is done has given the money back, once.                *)
OrphanGivenBack ==
  \A p \in Payment : orphan[p].state = "done" =>
    \E i \in DOMAIN given : given[i].id = <<"orphan", p>> /\ given[i].amount = payments[p].amount

(* A pending order always has the job that ends it and its reservation.     *)
PendingIsWatched == order.status = "pending" => expiry = "queued"

(* When a paid order has been cancelled the payer has the whole total back, *)
(* whoever made the refunds and whichever transactions were rolled back,    *)
(* unless a refund failed later or was recorded from a charge without list. *)
Repaid(p) == Returned(p) = order.total

CancelledIsRepaid ==
  \A p \in Payment :
    /\ order.status = "cancelled" /\ order.paidBy = p
    /\ diffs[p] = {} /\ \A i \in RefundsOf(p) : given[i].state # "failed"
    => Repaid(p)

(* At the moment an order is cancelled, the payment it was paid with is     *)
(* recorded as fully refunded.                                              *)
RepaidOnCancel ==
  [][order.status # "cancelled" /\ order'.status = "cancelled" /\ order.paidBy # NoPayment
     => payments'[order.paidBy].refunded = order.total]_vars

(* What has been recorded of the refunds of p: each one once, at its own    *)
(* amount, unless its row says that it failed.                              *)
Recording(i) ==
  IF \E r \in rows : r.id = given[i].id /\ r.status # "failed" THEN given[i].amount ELSE 0
RecordedOf(p) == SumFunctionOnSet([i \in RefundsOf(p) |-> Recording(i)], RefundsOf(p))

(* However often and in whatever order refunds are reported, and whichever  *)
(* of a report, a request and a retry of a request that was rolled back     *)
(* records one first, a payment's refunded_amount never exceeds the         *)
(* provider's refunds of it that have a row, each counted once              *)
(* (applyProviderRefund, refundPayment).  It may fall short, where          *)
(* applyProviderRefund cuts a refund that an old report brings back.        *)
(* Payments that were ever counted from the amount of a charge without its  *)
(* list (diffs) are exempt: see NeverOverReturned.                          *)
CountedOnce ==
  \A p \in Payment : diffs[p] = {} => payments[p].refunded <= RecordedOf(p)

(* The same of every payment: no more is recorded as refunded than the      *)
(* provider ever gave, refunds that failed since included.  The code does   *)
(* not keep this: the difference of a charge without its list is counted,   *)
(* and a refund in it is counted again when its own report, or the retry of *)
(* the request that made it and was rolled back, arrives after.             *)
NeverOverReturned ==
  \A p \in Payment :
    payments[p].refunded
      <= SumFunctionOnSet([i \in RefundsOf(p) |-> given[i].amount], RefundsOf(p))

(* The order keeps what OrderPromise says of it.                            *)
Order == INSTANCE OrderPromise WITH
  status <- order.status, total <- order.total, payer <- order.paidBy,
  returned <- order.refunded, stock <- order.stock
PromiseKept == Order!Promise

(* A pending order does not stay pending.                                   *)
PendingEnds == order.status = "pending" ~> order.status # "pending"

(* A refund job ends, done or dead.                                         *)
OrphanEnds ==
  \A p \in Payment : orphan[p].state = "queued" ~> orphan[p].state \in {"done", "dead"}
=============================================================================
