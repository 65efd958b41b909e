-------------------------- MODULE PaymentProvider --------------------------
(***************************************************************************)
(* The payment provider as payments/providers/stripe.ts and webhook.ts use *)
(* it: payment intents that a payer completes on his own, refunds made     *)
(* through the API or by hand in the provider's dashboard, and events that *)
(* tell of both.  It is not code of this repository.                       *)
(*                                                                         *)
(* An event is a snapshot and never leaves the set "events": the queue     *)
(* delivers each one at least once, in any order (a delivery is processed  *)
(* in one transaction and marked as processed in another, failed ones are  *)
(* retried later and the operations console can send one again).           *)
(***************************************************************************)
EXTENDS Integers, Sequences, FiniteSets, Functions

CONSTANTS
  Payment,    \* payments, named by their idempotency keys
  Board,      \* refunds made in the dashboard, at most one of each per payment
  Caller,     \* refunds made through the API: their idempotency keys
  MaxAmount,  \* bound: the largest amount
  MaxRefunds, \* bound: refunds ever made
  Starts,     \* what a refund may be when it is made: pending, succeeded
  ListModes   \* does a charge event carry the charge's refunds? {TRUE}: API
              \* versions before 2022-11-15, {FALSE}: later ones

ASSUME ProviderAssumption ==
  /\ MaxAmount \in Nat \ {0}
  /\ MaxRefunds \in Nat
  /\ Starts \in (SUBSET {"pending", "succeeded"}) \ {{}}
  /\ ListModes \in (SUBSET BOOLEAN) \ {{}}
  /\ Board \cap Caller = {}

VARIABLES
  intent,  \* the payment intents
  given,   \* the refunds, oldest first
  events   \* what was ever reported

provider == <<intent, given, events>>

-----------------------------------------------------------------------------
RefundId == (Caller \cup Board) \X Payment
PaymentOf(id) == id[2]

RefundState == {"pending", "succeeded", "failed"}

(* "first" is the answer to the call that made the refund; the provider     *)
(* repeats it when a call comes again with the same idempotency key.        *)
Given == [id: RefundId, amount: 1..MaxAmount, state: RefundState,
          first: Starts]

Snapshot == [id: RefundId, amount: 1..MaxAmount, state: RefundState]

Event == [type: {"succeeded", "payment_failed", "canceled"}, payment: Payment]
     \cup [type: {"charge.refunded"}, payment: Payment, refunded: 0..MaxAmount,
           list: Seq(Snapshot)]
     \cup [type: {"refund.updated"}, payment: Payment, refund: Snapshot]

ProviderTypeOK ==
  /\ intent \in [Payment -> [state: {"none", "open", "declined", "captured", "canceled"},
                             amount: 0..MaxAmount]]
  /\ given \in Seq(Given)
  /\ events \subseteq Event

ProviderInit ==
  /\ intent = [p \in Payment |-> [state |-> "none", amount |-> 0]]
  /\ given = <<>>
  /\ events = {}

Captured(p) == intent[p].state = "captured"

RefundsOf(p) == {i \in DOMAIN given : PaymentOf(given[i].id) = p}

(* What went back to the payer of p, pending refunds included.              *)
Returned(p) ==
  SumFunctionOnSet([i \in RefundsOf(p) |-> IF given[i].state = "failed" THEN 0
                                           ELSE given[i].amount], RefundsOf(p))

SnapshotOf(g) == [id |-> g.id, amount |-> g.amount, state |-> g.state]

(* The refunds of a charge as an event lists them: newest first.            *)
Listed(gs, p) ==
  LET upTo[n \in 0..Len(gs)] ==
        IF n = 0 THEN <<>>
        ELSE IF PaymentOf(gs[n].id) = p THEN <<SnapshotOf(gs[n])>> \o upTo[n - 1]
        ELSE upTo[n - 1]
  IN  upTo[Len(gs)]

ChargeEvent(gs, p, refunded, listed) ==
  [type |-> "charge.refunded", payment |-> p, refunded |-> refunded,
   list |-> IF listed THEN Listed(gs, p) ELSE <<>>]

-----------------------------------------------------------------------------
(* The payer.                                                               *)

Report(e) == events' = events \cup {e}

Pay(p) ==
  /\ intent[p].state = "open"
  /\ intent' = [intent EXCEPT ![p].state = "captured"]
  /\ Report([type |-> "succeeded", payment |-> p])
  /\ UNCHANGED given

Decline(p) ==
  /\ intent[p].state = "open"
  /\ intent' = [intent EXCEPT ![p].state = "declined"]
  /\ Report([type |-> "payment_failed", payment |-> p])
  /\ UNCHANGED given

(* A declined intent is back in requires_payment_method: the payer may give *)
(* another card with the same client secret.                                *)
PayAgain(p) ==
  /\ intent[p].state = "declined"
  /\ intent' = [intent EXCEPT ![p].state = "captured"]
  /\ Report([type |-> "succeeded", payment |-> p])
  /\ UNCHANGED given

CancelIntent(p) ==
  /\ intent[p].state \in {"open", "declined"}
  /\ intent' = [intent EXCEPT ![p].state = "canceled"]
  /\ Report([type |-> "canceled", payment |-> p])
  /\ UNCHANGED given

-----------------------------------------------------------------------------
(* Refunds.                                                                 *)

Give(id, amount, state, listed) ==
  LET p == PaymentOf(id)
      gs == Append(given, [id |-> id, amount |-> amount, state |-> state, first |-> state])
  IN  /\ Captured(p) /\ Len(given) < MaxRefunds
      /\ Returned(p) + amount <= intent[p].amount
      /\ \A i \in DOMAIN given : given[i].id # id
      /\ given' = gs
      /\ Report(ChargeEvent(gs, p, Returned(p) + amount, listed))

RefundOnBoard(id, amount) ==
  /\ id[1] \in Board
  /\ \E state \in Starts, listed \in ListModes : Give(id, amount, state, listed)
  /\ UNCHANGED intent

(* A pending refund succeeds or fails; one that succeeded may still fail.    *)
UpdateRefund(i, state) ==
  /\ i \in DOMAIN given
  /\ <<given[i].state, state>> \in
       {<<"pending", "succeeded">>, <<"pending", "failed">>, <<"succeeded", "failed">>}
  /\ given' = [given EXCEPT ![i].state = state]
  /\ Report([type |-> "refund.updated", payment |-> PaymentOf(given[i].id),
             refund |-> [SnapshotOf(given[i]) EXCEPT !.state = state]])
  /\ UNCHANGED intent

ProviderNext ==
  \/ \E p \in Payment : Pay(p) \/ Decline(p) \/ PayAgain(p) \/ CancelIntent(p)
  \/ \E id \in RefundId, amount \in 1..MaxAmount : RefundOnBoard(id, amount)
  \/ \E i \in DOMAIN given, state \in RefundState : UpdateRefund(i, state)
=============================================================================
