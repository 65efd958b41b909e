--------------------------- MODULE CheckoutProofs ---------------------------
(***************************************************************************)
(* Theorems about Checkout for any number of sales and sessions and any    *)
(* amounts: types, that a sale does not claim more money than its payments *)
(* hold, that points are not reversed twice, that the balance is what the  *)
(* ledger adds up to, and that cash is in the figures of one session.      *)
(***************************************************************************)
EXTENDS Checkout, FiniteSums, TLAPS

SaleRow == [status: {"none", "draft", "voided"} \cup Sold, total: Amount,
            session: Session \cup {NoSession}, sameDay: BOOLEAN, repaid: Amount,
            used: Amount, earned: Amount, gaveBack: Amount, tookBack: Amount,
            returned: BOOLEAN]
Op == [op: {"no", "complete", "void", "payout", "refund"}, open: BOOLEAN,
       session: Session \cup {NoSession}, parts: Parts]

(* What holds of one sale: its row s, its payments p, the amount u of its   *)
(* refunds that may still fail, and the operation b in flight.              *)
Typed(s, p, u, b) == s \in SaleRow /\ p \in [Method -> Slot] /\ u \in Nat /\ b \in Op

(* Refunds stay within their payment, and only settled money is refunded.   *)
PaymentsFit(p, u) ==
  /\ \A m \in Method : /\ p[m].ref <= p[m].amt
                       /\ p[m].st = "none" => p[m].amt = 0
                       /\ p[m].st = "pending" => p[m].ref = 0
  /\ u <= p["online"].ref

DraftFits(s, p) ==
  s.status \in {"none", "draft"} =>
    /\ p["point"].ref = 0
    /\ s.used = 0 /\ s.earned = 0 /\ s.gaveBack = 0 /\ s.tookBack = 0

Paid(p) == p["online"].amt + p["cash"].amt + p["point"].amt

SoldFits(s, p) ==
  s.status \in Sold =>
    /\ \A m \in Method : p[m].st # "pending"
    /\ s.total <= Paid(p) /\ s.total - s.repaid <= Paid(p) - Refunded(p)
    /\ s.used = p["point"].amt /\ s.used <= s.total /\ s.gaveBack = p["point"].ref
    /\ s.tookBack <= s.earned
    /\ s.status = "completed" => s.tookBack = 0 /\ s.gaveBack = 0
    /\ s.total = 0 => s.status = "completed"

VoidedFits(s) == s.status = "voided" => s.gaveBack = s.used /\ s.tookBack <= s.earned

BusyFits(s, p, b) ==
  /\ b.op = "complete" =>
       /\ s.status = "draft"
       /\ \A m \in Method : p[m].st # "pending"
       /\ s.total <= Paid(p) - Refunded(p) /\ p["point"].amt <= s.total
  /\ b.op \in {"void", "payout"} => s.status = "completed"
  /\ b.op = "refund" => /\ s.status \in {"completed", "partially_refunded"}
                        /\ b.parts["online"] + b.parts["cash"] + b.parts["point"] > 0

Good(s, p, u, b) ==
  /\ Typed(s, p, u, b) /\ PaymentsFit(p, u)
  /\ DraftFits(s, p) /\ SoldFits(s, p) /\ VoidedFits(s) /\ BusyFits(s, p, b)

Rows ==
  /\ sale \in [Sale -> SaleRow] /\ pay \in [Sale -> [Method -> Slot]]
  /\ unsure \in [Sale -> Nat] /\ busy \in [Sale -> Op]

Inv ==
  /\ Rows
  /\ balance \in Nat /\ expired \in Nat /\ expiry \in Nat
  /\ \A t \in Sale : Good(sale[t], pay[t], unsure[t], busy[t])

-----------------------------------------------------------------------------
LEMMA InitInv == Init => Inv
BY CheckoutAssumption
   DEF Init, Inv, Rows, Good, Typed, PaymentsFit, DraftFits, SoldFits, VoidedFits, BusyFits, SaleRow, Op,
       Sold, Method, Slot, Amount, Empty, Nothing, Idle, Parts, CheckoutAssumption

LEMMA SameRow ==
  ASSUME Rows, NEW t \in Sale
  PROVE  /\ sale = [sale EXCEPT ![t] = sale[t]] /\ pay = [pay EXCEPT ![t] = pay[t]]
         /\ unsure = [unsure EXCEPT ![t] = unsure[t]] /\ busy = [busy EXCEPT ![t] = busy[t]]
BY DEF Rows

(* A step that changes one sale alone.                                      *)
Becomes(t, s, p, u, b) ==
  /\ sale' = [sale EXCEPT ![t] = s] /\ pay' = [pay EXCEPT ![t] = p]
  /\ unsure' = [unsure EXCEPT ![t] = u] /\ busy' = [busy EXCEPT ![t] = b]

LEMMA OneSale ==
  ASSUME Inv, NEW t \in Sale, NEW s, NEW p, NEW u, NEW b,
         Becomes(t, s, p, u, b), Good(s, p, u, b), balance' \in Nat, UNCHANGED <<expired, expiry>>
  PROVE  Inv'
<1>1. \A x \in Sale \ {t} : Good(sale'[x], pay'[x], unsure'[x], busy'[x])
  BY DEF Inv, Rows, Becomes
<1>2. sale'[t] = s /\ pay'[t] = p /\ unsure'[t] = u /\ busy'[t] = b
  BY DEF Inv, Rows, Becomes
<1>3. /\ sale' \in [Sale -> SaleRow] /\ pay' \in [Sale -> [Method -> Slot]]
      /\ unsure' \in [Sale -> Nat] /\ busy' \in [Sale -> Op]
  BY DEF Inv, Rows, Becomes, Good, Typed
<1> QED
  BY <1>1, <1>2, <1>3 DEF Inv, Rows, Becomes

(* A step that leaves sales, payments and points alone.                     *)
LEMMA Quiet ==
  ASSUME Inv, UNCHANGED <<sale, pay, unsure, busy>>,
         balance' \in Nat, expired' \in Nat, expiry' \in Nat
  PROVE  Inv'
BY DEF Inv, Rows

-----------------------------------------------------------------------------
(* The draft.                                                               *)

LEMMA CreateInv ==
  ASSUME Inv, NEW t \in Sale, NEW n \in Nat, CreateTransaction(t, n) PROVE Inv'
<1> DEFINE s == [sale[t] EXCEPT !.status = "draft", !.total = n]
<1>1. sale' = [sale EXCEPT ![t] = s] /\ sale[t].status = "none"
  BY DEF CreateTransaction
<1>2. Good(s, pay[t], unsure[t], busy[t])
  BY <1>1 DEF Inv, Good, Typed, SaleRow, Sold, Amount, DraftFits, SoldFits, VoidedFits, BusyFits
<1>20. Becomes(t, s, pay[t], unsure[t], busy[t]) /\ balance' \in Nat /\ UNCHANGED <<expired, expiry>>
  BY <1>1, <1>2, SameRow DEF Becomes, CreateTransaction, points, Inv
<1> QED
  BY <1>2, <1>20, OneSale

LEMMA ReplaceInv ==
  ASSUME Inv, NEW t \in Sale, NEW n \in Nat, ReplaceItems(t, n) PROVE Inv'
<1> DEFINE s == [sale[t] EXCEPT !.total = n]
<1>1. sale' = [sale EXCEPT ![t] = s] /\ sale[t].status = "draft" /\ busy[t].op = "no"
  BY DEF ReplaceItems, Draft, Free
<1>2. Good(s, pay[t], unsure[t], busy[t])
  BY <1>1 DEF Inv, Good, Typed, SaleRow, Sold, Amount, DraftFits, SoldFits, VoidedFits, BusyFits
<1>20. Becomes(t, s, pay[t], unsure[t], busy[t]) /\ balance' \in Nat /\ UNCHANGED <<expired, expiry>>
  BY <1>1, <1>2, SameRow DEF Becomes, ReplaceItems, points, Inv
<1> QED
  BY <1>2, <1>20, OneSale

LEMMA DraftPays ==
  ASSUME Inv, NEW t \in Sale, NEW p, Draft(t), p \in [Method -> Slot],
         PaymentsFit(p, unsure[t]), p["point"].ref = 0,
         pay' = [pay EXCEPT ![t] = p], UNCHANGED <<sale, unsure, busy, balance, expired, expiry>>
  PROVE  Inv'
<1>1. sale[t].status = "draft" /\ busy[t].op = "no"
  BY DEF Draft, Free
<1>2. Good(sale[t], p, unsure[t], busy[t])
  BY <1>1 DEF Inv, Good, Typed, Sold, DraftFits, SoldFits, VoidedFits, BusyFits
<1>20. Becomes(t, sale[t], p, unsure[t], busy[t]) /\ balance' \in Nat /\ UNCHANGED <<expired, expiry>>
  BY <1>2, SameRow DEF Becomes, Inv
<1> QED
  BY <1>2, <1>20, OneSale

LEMMA AddInv ==
  ASSUME Inv, NEW t \in Sale, NEW m \in Method, NEW a \in Nat, AddPayment(t, m, a) PROVE Inv'
<1> DEFINE p == [pay[t] EXCEPT ![m] = [st |-> IF m = "online" THEN "pending" ELSE "taken",
                                       amt |-> a, ref |-> 0]]
<1>1. pay' = [pay EXCEPT ![t] = p] /\ Draft(t) /\ pay[t][m].st = "none"
  BY DEF AddPayment
<1>2. p \in [Method -> Slot]
  BY DEF Inv, Good, Typed, Slot, Amount
<1>3. pay[t][m].ref = 0
  BY <1>1 DEF Inv, Good, Typed, PaymentsFit, Slot, Amount
<1>4. PaymentsFit(p, unsure[t])
  BY <1>2, <1>3 DEF Inv, Good, Typed, PaymentsFit, Slot, Amount, Method
<1>5. p["point"].ref = 0
  BY <1>1 DEF Inv, Good, Typed, DraftFits, Draft, Method
<1> QED
  BY <1>1, <1>2, <1>4, <1>5, DraftPays DEF AddPayment, points

LEMMA RemoveInv ==
  ASSUME Inv, NEW t \in Sale, NEW m \in Method, RemovePayment(t, m) PROVE Inv'
<1> DEFINE p == [pay[t] EXCEPT ![m] = Empty]
<1>1. pay' = [pay EXCEPT ![t] = p] /\ Draft(t) /\ pay[t][m].ref = 0
  BY DEF RemovePayment, Cancellable
<1>2. p \in [Method -> Slot]
  BY DEF Inv, Good, Typed, Slot, Amount, Empty
<1>3. PaymentsFit(p, unsure[t])
  BY <1>1, <1>2 DEF Inv, Good, Typed, PaymentsFit, Slot, Amount, Method, Empty
<1>4. p["point"].ref = 0
  BY <1>1 DEF Inv, Good, Typed, DraftFits, Draft, Method, Empty
<1> QED
  BY <1>1, <1>2, <1>3, <1>4, DraftPays DEF RemovePayment, points

LEMMA SetPointInv ==
  ASSUME Inv, NEW t \in Sale, NEW u \in Nat, SetPointUse(t, u) PROVE Inv'
<1> DEFINE new == IF u = 0 THEN Empty ELSE [st |-> "taken", amt |-> u, ref |-> 0]
           p == [pay[t] EXCEPT !["point"] = new]
<1>1. pay' = [pay EXCEPT ![t] = p] /\ Draft(t)
  BY DEF SetPointUse
<1>2. new \in Slot /\ new.ref = 0 /\ new.st # "pending" /\ (new.st = "none" => new.amt = 0)
  BY DEF Slot, Amount, Empty
<1> HIDE DEF new
<1>3. p \in [Method -> Slot] /\ p["point"] = new
  BY <1>2 DEF Inv, Good, Typed, Method
<1>4. PaymentsFit(p, unsure[t])
  BY <1>2, <1>3 DEF Inv, Good, Typed, PaymentsFit, Slot, Amount, Method
<1> QED
  BY <1>1, <1>2, <1>3, <1>4, DraftPays DEF SetPointUse, points

LEMMA DiscardInv ==
  ASSUME Inv, NEW t \in Sale, DiscardDraft(t) PROVE Inv'
<1> DEFINE s == [sale[t] EXCEPT !.status = "voided"]
           p == [m \in Method |-> IF m = "online" /\ pay[t][m].st = "taken"
                                  THEN [pay[t][m] EXCEPT !.ref = pay[t][m].amt] ELSE Empty]
<1>1. sale' = [sale EXCEPT ![t] = s] /\ pay' = [pay EXCEPT ![t] = p] /\ Draft(t)
  BY DEF DiscardDraft
<1>2. sale[t].status = "draft" /\ busy[t].op = "no"
  BY <1>1 DEF Draft, Free
<1>3. pay[t]["online"] \in Slot /\ PaymentsFit(pay[t], unsure[t])
  BY DEF Inv, Good, Typed, Method
<1>4. p \in [Method -> Slot]
  BY <1>3 DEF Slot, Amount, Empty
<1>5. \A m \in Method : p[m].ref <= p[m].amt /\ p[m].st # "pending" /\ (p[m].st = "none" => p[m].amt = 0)
  BY <1>3 DEF Slot, Amount, Empty
<1>6. unsure[t] <= p["online"].ref
  BY <1>3 DEF Slot, Amount, Empty, PaymentsFit, Method, Inv, Good, Typed
<1> HIDE DEF p
<1>7. /\ s \in SaleRow /\ s.status = "voided" /\ s.gaveBack = sale[t].gaveBack /\ s.used = sale[t].used
      /\ s.tookBack = sale[t].tookBack /\ s.earned = sale[t].earned
  BY DEF Inv, Good, Typed, SaleRow
<1> HIDE DEF s
<1>8. PaymentsFit(p, unsure[t])
  BY <1>5, <1>6 DEF PaymentsFit
<1>9. Good(s, p, unsure[t], busy[t])
  BY <1>2, <1>4, <1>7, <1>8
     DEF Inv, Good, Typed, Sold, DraftFits, SoldFits, VoidedFits, BusyFits
<1>20. Becomes(t, s, p, unsure[t], busy[t]) /\ balance' \in Nat /\ UNCHANGED <<expired, expiry>>
  BY <1>1, <1>9, SameRow DEF Becomes, DiscardDraft, points, Inv, s
<1> QED
  BY <1>9, <1>20, OneSale

LEMMA SettleInv ==
  ASSUME Inv, NEW t \in Sale, NEW ok \in BOOLEAN, SettleOnline(t, ok) PROVE Inv'
<1> DEFINE new == IF ok THEN [pay[t]["online"] EXCEPT !.st = "taken"] ELSE Empty
           p == [pay[t] EXCEPT !["online"] = new]
<1>1. pay' = [pay EXCEPT ![t] = p] /\ pay[t]["online"].st = "pending"
  BY DEF SettleOnline
<1>2. pay[t]["online"] \in Slot /\ pay[t]["online"].ref = 0 /\ unsure[t] = 0
  BY <1>1 DEF Inv, Good, Typed, PaymentsFit, Method, Slot, Amount
<1>3. new \in Slot /\ new.ref = 0 /\ new.st # "pending" /\ (new.st = "none" => new.amt = 0)
  BY <1>2 DEF Slot, Amount, Empty
<1> HIDE DEF new
<1>4. p \in [Method -> Slot] /\ p["online"] = new /\ p["point"] = pay[t]["point"]
  BY <1>3 DEF Inv, Good, Typed, Method
<1>5. PaymentsFit(p, unsure[t])
  BY <1>2, <1>3, <1>4 DEF Inv, Good, Typed, PaymentsFit, Slot, Amount, Method
<1>6. sale[t].status \notin Sold /\ busy[t].op # "complete"
  BY <1>1 DEF Inv, Good, SoldFits, BusyFits, Method
<1>7. Good(sale[t], p, unsure[t], busy[t])
  BY <1>4, <1>5, <1>6 DEF Inv, Good, Typed, Sold, DraftFits, SoldFits, VoidedFits, BusyFits
<1>20. Becomes(t, sale[t], p, unsure[t], busy[t]) /\ balance' \in Nat /\ UNCHANGED <<expired, expiry>>
  BY <1>1, <1>7, SameRow DEF Becomes, SettleOnline, points, Inv
<1> QED
  BY <1>7, <1>20, OneSale

-----------------------------------------------------------------------------
(* Completion.                                                              *)

LEMMA OpenSessionFact == OpenSession \in Session \cup {NoSession}
BY DEF OpenSession

LEMMA BeginCompleteInv == ASSUME Inv, NEW t \in Sale, BeginComplete(t) PROVE Inv'
<1> DEFINE b == [Idle EXCEPT !.op = "complete", !.session = OpenSession]
<1>1. busy' = [busy EXCEPT ![t] = b] /\ sale[t].status = "draft"
  BY DEF BeginComplete, Draft
<1>2. b.op = "complete" /\ b \in Op
  BY OpenSessionFact DEF Idle, Op, Nothing, Parts, Amount
<1> HIDE DEF b
<1>3. pay[t] \in [Method -> Slot] /\ sale[t].total \in Nat
  BY DEF Inv, Good, Typed, SaleRow, Amount
<1>4. \A m \in Method : Taken(pay[t][m]) = pay[t][m].amt - pay[t][m].ref /\ pay[t][m].st # "pending"
  BY <1>3 DEF BeginComplete, Taken, Live, Inv, Good, PaymentsFit, Slot, Amount
<1>5. Paid(pay[t]) - Refunded(pay[t]) = sale[t].total
  BY <1>3, <1>4 DEF BeginComplete, Net, Paid, Refunded, Method, Slot, Amount
<1>6. pay[t]["point"].ref = 0 /\ \A m \in Method : pay[t][m].ref <= pay[t][m].amt
  BY <1>1 DEF Inv, Good, DraftFits, PaymentsFit
<1>7. pay[t]["point"].amt <= sale[t].total
  BY <1>3, <1>5, <1>6 DEF Paid, Refunded, Method, Slot, Amount
<1>8. Good(sale[t], pay[t], unsure[t], b)
  BY <1>1, <1>2, <1>3, <1>4, <1>5, <1>7 DEF Inv, Good, Typed, BusyFits
<1>20. Becomes(t, sale[t], pay[t], unsure[t], b) /\ balance' \in Nat /\ UNCHANGED <<expired, expiry>>
  BY <1>1, <1>8, SameRow DEF Becomes, BeginComplete, points, Inv
<1> QED
  BY <1>8, <1>20, OneSale

LEMMA CommitCompleteInv == ASSUME Inv, NEW t \in Sale, CommitComplete(t) PROVE Inv'
<1> DEFINE used == pay[t]["point"].amt
           earned == PointsFor(sale[t].total - used)
           s == [sale[t] EXCEPT !.status = "completed", !.session = busy[t].session,
                                !.used = used, !.earned = earned]
<1>1. /\ sale' = [sale EXCEPT ![t] = s] /\ busy' = [busy EXCEPT ![t] = Idle]
      /\ balance' = balance - used + earned /\ used <= balance /\ busy[t].op = "complete"
  BY DEF CommitComplete, PointsSuffice
<1>2. /\ sale[t] \in SaleRow /\ pay[t] \in [Method -> Slot] /\ busy[t] \in Op
      /\ sale[t].status = "draft" /\ used <= sale[t].total
      /\ sale[t].total <= Paid(pay[t]) - Refunded(pay[t])
      /\ \A m \in Method : pay[t][m].st # "pending"
  BY <1>1 DEF Inv, Good, Typed, BusyFits
<1>3. used \in Nat /\ earned \in Nat /\ (sale[t].total = 0 => earned = 0)
  BY <1>2, CheckoutAssumption DEF SaleRow, Method, Slot, Amount, PointsFor, CheckoutAssumption
<1>4. Refunded(pay[t]) \in Nat /\ Paid(pay[t]) \in Nat
  BY <1>2 DEF Refunded, Paid, Method, Slot, Amount
<1>5. /\ s \in SaleRow /\ s.status = "completed" /\ s.total = sale[t].total /\ s.repaid = sale[t].repaid
      /\ s.used = used /\ s.gaveBack = sale[t].gaveBack /\ s.tookBack = sale[t].tookBack /\ s.earned = earned
  BY <1>2, <1>3 DEF SaleRow, Sold, Op, Amount
<1> HIDE DEF s, earned
<1>6. sale[t].gaveBack = 0 /\ sale[t].tookBack = 0 /\ pay[t]["point"].ref = 0 /\ sale[t].repaid \in Nat
  BY <1>2 DEF Inv, Good, DraftFits, SaleRow, Amount
<1>7. SoldFits(s, pay[t])
  BY <1>2, <1>3, <1>4, <1>5, <1>6 DEF SoldFits, SaleRow, Amount
<1>8. Idle \in Op /\ Idle.op = "no"
  BY DEF Idle, Op, Nothing, Parts, Amount
<1>9. Good(s, pay[t], unsure[t], Idle)
  BY <1>5, <1>7, <1>8 DEF Inv, Good, Typed, DraftFits, VoidedFits, BusyFits
<1>10. balance' \in Nat
  BY <1>1, <1>3 DEF Inv
<1>11. UNCHANGED <<pay, unsure, expired, expiry>>
  BY DEF CommitComplete
<1>20. Becomes(t, s, pay[t], unsure[t], Idle) /\ balance' \in Nat /\ UNCHANGED <<expired, expiry>>
  BY <1>1, <1>10, <1>11, SameRow DEF Becomes, Inv
<1> QED
  BY <1>9, <1>20, OneSale

LEMMA AbortInv == ASSUME Inv, NEW t \in Sale, Abort(t) PROVE Inv'
<1>1. Idle \in Op /\ Idle.op = "no"
  BY DEF Idle, Op, Nothing, Parts, Amount
<1>2. Good(sale[t], pay[t], unsure[t], Idle)
  BY <1>1 DEF Inv, Good, Typed, BusyFits
<1>20. Becomes(t, sale[t], pay[t], unsure[t], Idle) /\ balance' \in Nat /\ UNCHANGED <<expired, expiry>>
  BY <1>2, SameRow DEF Becomes, Abort, points, Inv
<1> QED
  BY <1>2, <1>20, OneSale

-----------------------------------------------------------------------------
(* Refunds of a sold sale.                                                  *)

(* A share of the earned points is not more than all of them.               *)
LEMMA ShareBound ==
  ASSUME NEW e \in Nat, NEW n \in Nat \ {0}, NEW r \in 0..n
  PROVE  (e * r) \div n \in 0..e
<1> DEFINE q == (e * r) \div n
<1>1. e * r \in Nat /\ e * r <= e * n
  OBVIOUS
<1>2. q \in Int /\ q * n <= e * r /\ e * r < (q + 1) * n
  BY <1>1
<1> HIDE DEF q
<1>3. q <= e
  <2>1. SUFFICES ASSUME q >= e + 1 PROVE FALSE
    BY <1>2
  <2>2. q * n >= (e + 1) * n
    BY <2>1, <1>2
  <2> QED
    BY <2>2, <1>1, <1>2
<1>4. q >= 0
  <2>1. SUFFICES ASSUME q + 1 <= 0 PROVE FALSE
    BY <1>2
  <2>2. (q + 1) * n <= 0
    BY <2>1, <1>2
  <2> QED
    BY <2>2, <1>1, <1>2
<1> QED
  BY <1>2, <1>3, <1>4 DEF q

(* syncRefundState after more of the payments was refunded.                 *)
LEMMA SyncFacts ==
  ASSUME NEW t, NEW p, sale[t] \in SaleRow, sale[t].status \in Sold,
         pay[t] \in [Method -> Slot], p \in [Method -> Slot], balance \in Nat,
         SoldFits(sale[t], pay[t]), PaymentsFit(p, 0), Refunded(p) > 0,
         \A m \in Method : p[m].amt = pay[t][m].amt /\ p[m].st = pay[t][m].st
                           /\ pay[t][m].ref <= p[m].ref
  PROVE  /\ Synced(t, p) \in SaleRow /\ SoldFits(Synced(t, p), p)
         /\ Synced(t, p).status \in Sold
         /\ balance - TakeBack(t, p) + GiveBack(t, p) \in Nat
<1> DEFINE s == sale[t]
           r == RepaidOf(t, p)
           target == EarnTarget(t, r)
           take == TakeBack(t, p)
           give == GiveBack(t, p)
           status == IF r = 0 THEN "completed" ELSE IF r = s.total THEN "refunded" ELSE "partially_refunded"
           new == Synced(t, p)
<1>1. /\ s.total \in Nat /\ s.earned \in Nat /\ s.tookBack \in Nat /\ s.gaveBack \in Nat /\ s.used \in Nat
  BY DEF SaleRow, Amount
<1>2. Refunded(p) \in Nat /\ Paid(p) \in Nat /\ Refunded(p) <= Paid(p) /\ Paid(p) = Paid(pay[t])
  BY DEF Refunded, Paid, Method, Slot, Amount, PaymentsFit
<1>3. r \in 0..s.total /\ r <= Refunded(p) /\ (r = 0 => s.total = 0)
      /\ (r < s.total => r = Refunded(p))
  BY <1>1, <1>2 DEF RepaidOf, Lesser
<1>4. target \in 0..s.earned /\ (s.total = 0 => target = 0)
  <2> HIDE DEF r
  <2>1. CASE s.total = 0
    BY <1>1, <2>1 DEF EarnTarget
  <2>2. CASE s.total # 0
    <3>1. (s.earned * r) \div s.total \in 0..s.earned
      BY <1>1, <1>3, <2>2, ShareBound
    <3>2. target = (s.earned * r) \div s.total
      BY <2>2 DEF EarnTarget
    <3> QED
      BY <3>1, <3>2, <2>2
  <2> QED
    BY <2>1, <2>2
<1> HIDE DEF r, target
<1>5. take \in 0..balance /\ s.tookBack + take <= s.earned /\ (s.total = 0 => take = 0)
  BY <1>1, <1>4 DEF TakeBack, Lesser, Positive, SoldFits, target, r
<1>6. /\ p["point"].ref \in Nat /\ p["point"].ref <= p["point"].amt /\ s.gaveBack <= p["point"].ref
      /\ s.used = p["point"].amt /\ s.used <= s.total
  BY DEF SoldFits, PaymentsFit, Method, Slot, Amount
<1>7. give \in Nat /\ s.gaveBack + give = p["point"].ref
  BY <1>1, <1>6 DEF GiveBack, Positive
<1> HIDE DEF take, give
<1>8. new = [s EXCEPT !.repaid = r, !.status = status, !.tookBack = @ + take, !.gaveBack = @ + give]
  BY DEF Synced, take, give, r
<1> HIDE DEF new
<1>9. /\ new \in SaleRow /\ new.status = status /\ new.total = s.total /\ new.repaid = r
      /\ new.used = s.used /\ new.earned = s.earned
      /\ new.tookBack = s.tookBack + take /\ new.gaveBack = s.gaveBack + give
  <2>1. /\ status \in Sold /\ r \in Nat /\ s.tookBack + take \in Nat /\ s.gaveBack + give \in Nat
        /\ s \in SaleRow
    BY <1>1, <1>3, <1>5, <1>7 DEF Sold
  <2>2. new = [s EXCEPT !.repaid = r, !.status = status, !.tookBack = s.tookBack + take,
                        !.gaveBack = s.gaveBack + give]
    BY <1>8 DEF SaleRow
  <2> HIDE DEF status, s
  <2> QED
    BY <2>1, <2>2 DEF SaleRow, Amount
<1>10. \A m \in Method : p[m].st # "pending"
  BY DEF SoldFits
<1>11. s.total <= Paid(p) /\ s.total - r <= Paid(p) - Refunded(p)
  BY <1>1, <1>2, <1>3 DEF SoldFits
<1>12. status = "completed" => s.tookBack + take = 0 /\ s.gaveBack + give = 0
  BY <1>1, <1>3, <1>5, <1>6, <1>7 DEF SoldFits
<1>13. s.total = 0 => status = "completed"
  BY <1>3
<1>14. SoldFits(new, p)
  BY <1>1, <1>5, <1>6, <1>7, <1>9, <1>10, <1>11, <1>12, <1>13 DEF SoldFits
<1>15. balance - take + give \in Nat
  BY <1>5, <1>7
<1> QED
  BY <1>9, <1>14, <1>15 DEF Sold, new, take, give


(* The bound on what may still fail follows the online refunds.             *)
LEMMA RefundsFacts ==
  ASSUME NEW t \in Sale, NEW m \in Method, NEW a \in Nat, unsure \in [Sale -> Nat],
         Refunds(t, m, a)
  PROVE  \E u \in Nat : /\ unsure' = [unsure EXCEPT ![t] = u] /\ u <= unsure[t] + a
                        /\ m # "online" => u = unsure[t]
<1>1. CASE m = "online"
  <2>1. PICK pending \in {0, a} : unsure' = [unsure EXCEPT ![t] = @ + pending]
    BY <1>1 DEF Refunds
  <2>2. unsure' = [unsure EXCEPT ![t] = unsure[t] + pending]
    BY <2>1
  <2>3. unsure[t] + pending \in Nat /\ unsure[t] + pending <= unsure[t] + a
    BY <2>1
  <2> QED
    BY <1>1, <2>2, <2>3
<1>2. CASE m # "online"
  <2>1. unsure' = [unsure EXCEPT ![t] = unsure[t]]
    BY <1>2 DEF Refunds
  <2>2. unsure[t] \in Nat /\ unsure[t] <= unsure[t] + a
    OBVIOUS
  <2> QED
    BY <2>1, <2>2, <1>2
<1> QED
  BY <1>1, <1>2

LEMMA RefundPaymentInv ==
  ASSUME Inv, NEW t \in Sale, NEW m \in Method, NEW a \in Nat, m # "point",
         RefundPayment(t, m, a)
  PROVE  Inv'
<1> DEFINE p == [pay[t] EXCEPT ![m].ref = @ + a]
<1>1. /\ pay' = [pay EXCEPT ![t] = p] /\ busy[t].op = "no"
      /\ pay[t][m].st = "taken" /\ a > 0 /\ a <= Live(pay[t][m])
      /\ SyncRefundState(t, p) /\ Refunds(t, m, a) /\ UNCHANGED <<busy, expired, expiry>>
  BY DEF RefundPayment, Free
<1>2. /\ pay[t] \in [Method -> Slot] /\ sale[t] \in SaleRow /\ unsure[t] \in Nat /\ busy[t] \in Op
      /\ PaymentsFit(pay[t], unsure[t]) /\ Good(sale[t], pay[t], unsure[t], busy[t])
  BY DEF Inv, Good, Typed
<1>3. PICK u \in Nat : /\ unsure' = [unsure EXCEPT ![t] = u] /\ u <= unsure[t] + a
                       /\ m # "online" => u = unsure[t]
  BY <1>1, <1>2, RefundsFacts DEF Inv, Rows
<1>4. pay[t][m] \in Slot /\ pay[t][m].ref + a <= pay[t][m].amt
  BY <1>1, <1>2 DEF Slot, Amount, Live
<1>5. /\ p \in [Method -> Slot]
      /\ p[m].ref = pay[t][m].ref + a /\ p[m].amt = pay[t][m].amt /\ p[m].st = pay[t][m].st
      /\ \A x \in Method \ {m} : p[x] = pay[t][x]
  BY <1>2, <1>4 DEF Slot, Amount
<1> HIDE DEF p
<1>6. PaymentsFit(p, u) /\ PaymentsFit(p, 0)
  BY <1>1, <1>2, <1>3, <1>4, <1>5 DEF PaymentsFit, Method, Slot, Amount
<1>7. Refunded(p) > 0
  BY <1>1, <1>2, <1>5 DEF Refunded, Method, Slot, Amount
<1>8. /\ \A x \in Method : p[x].amt = pay[t][x].amt /\ p[x].st = pay[t][x].st /\ pay[t][x].ref <= p[x].ref
      /\ p["point"] = pay[t]["point"]
  BY <1>1, <1>2, <1>5 DEF Method, Slot, Amount
<1>9. CASE sale[t].status \in Sold
  <2>1. SoldFits(sale[t], pay[t]) /\ balance \in Nat
    BY <1>2 DEF Good, Inv
  <2>2. /\ Synced(t, p) \in SaleRow /\ SoldFits(Synced(t, p), p) /\ Synced(t, p).status \in Sold
        /\ balance - TakeBack(t, p) + GiveBack(t, p) \in Nat
    BY <1>2, <1>5, <1>6, <1>7, <1>8, <1>9, <2>1, SyncFacts
  <2>3. Good(Synced(t, p), p, u, busy[t])
    BY <1>1, <1>2, <1>3, <1>5, <1>6, <2>2 DEF Good, Typed, DraftFits, VoidedFits, BusyFits, Sold
  <2>20. Becomes(t, Synced(t, p), p, u, busy[t]) /\ balance' \in Nat /\ UNCHANGED <<expired, expiry>>
    BY <1>1, <1>3, <1>9, <2>2, <2>3, SameRow DEF Becomes, SyncRefundState, Inv
  <2> QED
    BY <2>3, <2>20, OneSale
<1>10. CASE sale[t].status \notin Sold
  <2>1. Good(sale[t], p, u, busy[t])
    BY <1>1, <1>2, <1>3, <1>5, <1>6, <1>8, <1>10 DEF Good, Typed, DraftFits, SoldFits, VoidedFits, BusyFits
  <2>20. Becomes(t, sale[t], p, u, busy[t]) /\ balance' \in Nat /\ UNCHANGED <<expired, expiry>>
    BY <1>1, <1>3, <1>10, <2>1, SameRow DEF Becomes, SyncRefundState, Inv
  <2> QED
    BY <2>1, <2>20, OneSale
<1> QED
  BY <1>9, <1>10

LEMMA RefundFailsInv == ASSUME Inv, NEW t \in Sale, RefundFails(t) PROVE Inv'
<1> DEFINE p == [pay[t] EXCEPT !["online"].ref = @ - unsure[t]]
<1>1. pay' = [pay EXCEPT ![t] = p] /\ unsure' = [unsure EXCEPT ![t] = 0]
  BY DEF RefundFails
<1>2. /\ pay[t] \in [Method -> Slot] /\ sale[t] \in SaleRow /\ unsure[t] \in Nat /\ busy[t] \in Op
      /\ PaymentsFit(pay[t], unsure[t]) /\ Good(sale[t], pay[t], unsure[t], busy[t])
  BY DEF Inv, Good, Typed
<1>3. pay[t]["online"] \in Slot /\ unsure[t] <= pay[t]["online"].ref
  BY <1>2 DEF PaymentsFit, Method
<1>4. /\ p \in [Method -> Slot]
      /\ p["online"].ref = pay[t]["online"].ref - unsure[t]
      /\ p["online"].amt = pay[t]["online"].amt /\ p["online"].st = pay[t]["online"].st
      /\ p["cash"] = pay[t]["cash"] /\ p["point"] = pay[t]["point"]
  BY <1>2, <1>3 DEF Slot, Amount, Method
<1> HIDE DEF p
<1>5. PaymentsFit(p, 0)
  BY <1>2, <1>3, <1>4 DEF PaymentsFit, Method, Slot, Amount
<1>6. Paid(p) = Paid(pay[t]) /\ Paid(p) - Refunded(p) = Paid(pay[t]) - Refunded(pay[t]) + unsure[t]
  BY <1>2, <1>4 DEF Paid, Refunded, Method, Slot, Amount
<1>7. Paid(p) \in Nat /\ Refunded(p) \in Nat /\ Refunded(pay[t]) \in Nat
  BY <1>2, <1>4 DEF Paid, Refunded, Method, Slot, Amount
<1>8. \A m \in Method : p[m].st = pay[t][m].st
  BY <1>4 DEF Method
<1>9. SoldFits(sale[t], p) /\ DraftFits(sale[t], p) /\ BusyFits(sale[t], p, busy[t])
  BY <1>2, <1>4, <1>6, <1>7, <1>8 DEF Good, SoldFits, DraftFits, BusyFits, SaleRow, Amount
<1>10. Good(sale[t], p, 0, busy[t])
  BY <1>2, <1>4, <1>5, <1>9 DEF Good, Typed
<1>20. Becomes(t, sale[t], p, 0, busy[t]) /\ balance' \in Nat /\ UNCHANGED <<expired, expiry>>
  BY <1>1, <1>10, SameRow DEF Becomes, RefundFails, points, Inv
<1> QED
  BY <1>10, <1>20, OneSale


LEMMA BeginRefundInv == ASSUME Inv, NEW t \in Sale, NEW a \in Nat, BeginRefund(t, a) PROVE Inv'
<1> DEFINE parts == RefundParts(t, a)
           s == IF parts["cash"] > 0 THEN OpenSession ELSE NoSession
           b == [op |-> "refund", open |-> FALSE, session |-> s, parts |-> parts]
<1>1. busy' = [busy EXCEPT ![t] = b] /\ sale[t].status \in {"completed", "partially_refunded"} /\ a > 0
  BY DEF BeginRefund
<1>2. pay[t] \in [Method -> Slot] /\ PaymentsFit(pay[t], unsure[t])
  BY DEF Inv, Good, Typed
<1>3. \A m \in Method : Live(pay[t][m]) \in Nat
  BY <1>2 DEF Live, PaymentsFit, Slot, Amount
<1>4. parts \in Parts /\ parts["online"] + parts["cash"] + parts["point"] > 0
  BY <1>1, <1>3 DEF RefundParts, Parts, Method, Amount, Lesser
<1>5. s \in Session \cup {NoSession}
  BY OpenSessionFact
<1> HIDE DEF parts, s
<1>6. b \in Op /\ b.op = "refund" /\ b.parts = parts
  BY <1>4, <1>5 DEF Op
<1> HIDE DEF b
<1>7. Good(sale[t], pay[t], unsure[t], b)
  BY <1>1, <1>4, <1>6 DEF Inv, Good, Typed, BusyFits
<1>20. Becomes(t, sale[t], pay[t], unsure[t], b) /\ balance' \in Nat /\ UNCHANGED <<expired, expiry>>
  BY <1>1, SameRow DEF Becomes, BeginRefund, points, Inv
<1> QED
  BY <1>7, <1>20, OneSale

LEMMA CommitRefundInv ==
  ASSUME Inv, NEW t \in Sale, NEW restock \in BOOLEAN, CommitRefund(t, restock) PROVE Inv'
<1> DEFINE b == busy[t]
           p == [m \in Method |-> [pay[t][m] EXCEPT !.ref = @ + b.parts[m]]]
           s == [Synced(t, p) EXCEPT !.returned = @ \/ restock]
<1>1. /\ sale' = [sale EXCEPT ![t] = s] /\ pay' = [pay EXCEPT ![t] = p]
      /\ busy' = [busy EXCEPT ![t] = Idle] /\ UNCHANGED <<expired, expiry>>
      /\ balance' = balance - TakeBack(t, p) + GiveBack(t, p)
      /\ Refunds(t, "online", b.parts["online"])
      /\ b.op = "refund" /\ \A m \in Method : b.parts[m] <= Live(pay[t][m])
  BY DEF CommitRefund
<1>2. /\ pay[t] \in [Method -> Slot] /\ sale[t] \in SaleRow /\ unsure[t] \in Nat /\ b \in Op
      /\ PaymentsFit(pay[t], unsure[t]) /\ Good(sale[t], pay[t], unsure[t], busy[t])
      /\ sale[t].status \in {"completed", "partially_refunded"} /\ SoldFits(sale[t], pay[t])
      /\ balance \in Nat /\ b.parts["online"] + b.parts["cash"] + b.parts["point"] > 0
  BY <1>1 DEF Inv, Good, Typed, BusyFits
<1>3. \A m \in Method : b.parts[m] \in Nat /\ pay[t][m] \in Slot
  BY <1>2 DEF Op, Parts, Amount
<1>4. /\ p \in [Method -> Slot]
      /\ \A m \in Method : /\ p[m].ref = pay[t][m].ref + b.parts[m]
                           /\ p[m].amt = pay[t][m].amt /\ p[m].st = pay[t][m].st
  BY <1>3 DEF Slot, Amount
<1>5. PICK u \in Nat : unsure' = [unsure EXCEPT ![t] = u] /\ u <= unsure[t] + b.parts["online"]
  BY <1>1, <1>3, RefundsFacts DEF Inv, Rows, Method
<1> HIDE DEF p
<1>6. \A m \in Method : p[m].ref <= p[m].amt /\ pay[t][m].ref <= p[m].ref
  BY <1>1, <1>3, <1>4 DEF Live, Slot, Amount
<1>7. PaymentsFit(p, u) /\ PaymentsFit(p, 0)
  BY <1>2, <1>3, <1>4, <1>5, <1>6 DEF PaymentsFit, Method, Slot, Amount, SoldFits, Sold
<1>8. Refunded(p) > 0
  BY <1>2, <1>3, <1>4 DEF Refunded, Method, Slot, Amount
<1>9. /\ Synced(t, p) \in SaleRow /\ SoldFits(Synced(t, p), p) /\ Synced(t, p).status \in Sold
      /\ balance - TakeBack(t, p) + GiveBack(t, p) \in Nat
  BY <1>2, <1>4, <1>6, <1>7, <1>8, SyncFacts DEF Sold
<1>10. /\ s \in SaleRow /\ SoldFits(s, p) /\ s.status \in Sold
  <2> DEFINE y == Synced(t, p)
  <2>1. s = [y EXCEPT !.returned = y.returned \/ restock] /\ y \in SaleRow
    BY <1>9
  <2> HIDE DEF y, s
  <2>2. /\ s \in SaleRow /\ s.status = y.status /\ s.total = y.total /\ s.repaid = y.repaid
        /\ s.used = y.used /\ s.earned = y.earned /\ s.gaveBack = y.gaveBack /\ s.tookBack = y.tookBack
    BY <2>1 DEF SaleRow
  <2>3. SoldFits(y, p) /\ y.status \in Sold
    BY <1>9 DEF y
  <2> QED
    BY <2>2, <2>3 DEF SoldFits
<1> HIDE DEF s
<1>11. Idle \in Op /\ Idle.op = "no"
  BY DEF Idle, Op, Nothing, Parts, Amount
<1>12. Good(s, p, u, Idle)
  BY <1>4, <1>7, <1>10, <1>11 DEF Good, Typed, DraftFits, VoidedFits, BusyFits, Sold
<1>20. Becomes(t, s, p, u, Idle) /\ balance' \in Nat /\ UNCHANGED <<expired, expiry>>
  BY <1>1, <1>5, <1>9 DEF Becomes
<1> QED
  BY <1>12, <1>20, OneSale

-----------------------------------------------------------------------------
(* Voiding.                                                                 *)

LEMMA BeginVoidInv == ASSUME Inv, NEW t \in Sale, BeginVoid(t) PROVE Inv'
<1> DEFINE b == [Idle EXCEPT !.op = "void", !.open = OriginalOpen(t),
                             !.parts["online"] = Live(pay[t]["online"])]
<1>1. busy' = [busy EXCEPT ![t] = b] /\ sale[t].status = "completed"
  BY DEF BeginVoid
<1>2. Live(pay[t]["online"]) \in Nat
  BY DEF Inv, Good, Typed, Live, PaymentsFit, Slot, Amount, Method
<1>3. OriginalOpen(t) \in BOOLEAN
  BY DEF OriginalOpen
<1>4. b \in Op /\ b.op = "void"
  BY <1>2, <1>3 DEF Idle, Op, Nothing, Parts, Amount, Method
<1> HIDE DEF b
<1>5. Good(sale[t], pay[t], unsure[t], b)
  BY <1>1, <1>4 DEF Inv, Good, Typed, BusyFits
<1>20. Becomes(t, sale[t], pay[t], unsure[t], b) /\ balance' \in Nat /\ UNCHANGED <<expired, expiry>>
  BY <1>1, SameRow DEF Becomes, BeginVoid, points, Inv
<1> QED
  BY <1>5, <1>20, OneSale

LEMMA FindDrawerInv == ASSUME Inv, NEW t \in Sale, FindDrawer(t) PROVE Inv'
<1> DEFINE b == [busy[t] EXCEPT !.op = "payout", !.session = OpenSession]
<1>1. busy[t] \in Op /\ busy \in [Sale -> Op] /\ busy[t].op = "void"
  BY DEF Inv, Rows, FindDrawer
<1>2. busy' = [busy EXCEPT ![t] = b]
  BY <1>1 DEF FindDrawer
<1>3. b \in Op /\ b.op = "payout"
  BY <1>1, OpenSessionFact DEF Op
<1> HIDE DEF b
<1>4. Good(sale[t], pay[t], unsure[t], b)
  BY <1>1, <1>3 DEF Inv, Good, Typed, BusyFits
<1>20. Becomes(t, sale[t], pay[t], unsure[t], b) /\ balance' \in Nat /\ UNCHANGED <<expired, expiry>>
  BY <1>2, SameRow DEF Becomes, FindDrawer, points, Inv
<1> QED
  BY <1>4, <1>20, OneSale

LEMMA CommitVoidInv == ASSUME Inv, NEW t \in Sale, CommitVoid(t) PROVE Inv'
<1> DEFINE repay == busy[t].parts["online"]
           take == VoidTakes(t)
           s == [sale[t] EXCEPT !.status = "voided", !.gaveBack = @ + sale[t].used,
                                !.tookBack = @ + take]
           p == [pay[t] EXCEPT !["online"].ref = @ + repay, !["cash"] = Empty, !["point"] = Empty]
<1>1. /\ sale' = [sale EXCEPT ![t] = s] /\ pay' = [pay EXCEPT ![t] = p]
      /\ busy' = [busy EXCEPT ![t] = Idle] /\ UNCHANGED <<expired, expiry>>
      /\ balance' = balance + sale[t].used - take
      /\ Refunds(t, "online", repay)
      /\ busy[t].op \in {"void", "payout"} /\ repay <= Live(pay[t]["online"])
  <2>1. sale' = [sale EXCEPT ![t] = s]
    BY DEF CommitVoid
  <2>2. pay' = [pay EXCEPT ![t] = p]
    BY DEF CommitVoid
  <2>3. balance' = balance + sale[t].used - take
    BY DEF CommitVoid
  <2> QED
    BY <2>1, <2>2, <2>3 DEF CommitVoid
<1>2. /\ pay[t] \in [Method -> Slot] /\ sale[t] \in SaleRow /\ unsure[t] \in Nat /\ busy[t] \in Op
      /\ PaymentsFit(pay[t], unsure[t]) /\ sale[t].status = "completed" /\ SoldFits(sale[t], pay[t])
      /\ balance \in Nat
  BY <1>1 DEF Inv, Good, Typed, BusyFits
<1>3. repay \in Nat /\ pay[t]["online"] \in Slot
  BY <1>2 DEF Op, Parts, Amount, Method
<1>4. /\ p \in [Method -> Slot] /\ p["cash"] = Empty /\ p["point"] = Empty
      /\ p["online"].ref = pay[t]["online"].ref + repay
      /\ p["online"].amt = pay[t]["online"].amt /\ p["online"].st = pay[t]["online"].st
  BY <1>2, <1>3 DEF Slot, Amount, Method, Empty
<1>5. PICK u \in Nat : unsure' = [unsure EXCEPT ![t] = u] /\ u <= unsure[t] + repay
  BY <1>1, <1>3, RefundsFacts DEF Inv, Rows, Method
<1> HIDE DEF p
<1>6. p["online"].ref <= p["online"].amt /\ p["online"].st # "pending"
  BY <1>1, <1>2, <1>3, <1>4 DEF Live, Slot, Amount, SoldFits, Sold, Method
<1>7. PaymentsFit(p, u)
  BY <1>2, <1>3, <1>4, <1>5, <1>6 DEF PaymentsFit, Method, Slot, Amount, Empty
<1>8. /\ sale[t].used \in Nat /\ sale[t].earned \in Nat
      /\ sale[t].gaveBack = 0 /\ sale[t].tookBack = 0
  BY <1>2 DEF SaleRow, Amount, SoldFits, Sold
<1>9. take \in 0..sale[t].earned /\ take <= balance + sale[t].used
  BY <1>2, <1>8 DEF VoidTakes, Lesser
<1> HIDE DEF take
<1>10. /\ s \in SaleRow /\ s.status = "voided" /\ s.gaveBack = s.used /\ s.tookBack <= s.earned
  <2>1. s = [sale[t] EXCEPT !.status = "voided", !.gaveBack = sale[t].used, !.tookBack = take]
    <3>1. sale[t].gaveBack + sale[t].used = sale[t].used /\ sale[t].tookBack + take = take
      BY <1>8, <1>9
    <3> QED
      BY <3>1
  <2>2. take \in Nat /\ take <= sale[t].earned
    BY <1>8, <1>9
  <2> HIDE DEF s
  <2> QED
    BY <1>2, <1>8, <2>1, <2>2 DEF SaleRow, Amount
<1> HIDE DEF s
<1>11. Idle \in Op /\ Idle.op = "no"
  BY DEF Idle, Op, Nothing, Parts, Amount
<1>12. Good(s, p, u, Idle)
  BY <1>4, <1>7, <1>10, <1>11 DEF Good, Typed, DraftFits, SoldFits, VoidedFits, BusyFits, Sold
<1>13. balance' \in Nat
  BY <1>1, <1>2, <1>8, <1>9
<1>20. Becomes(t, s, p, u, Idle) /\ balance' \in Nat /\ UNCHANGED <<expired, expiry>>
  BY <1>1, <1>5, <1>13 DEF Becomes
<1> QED
  BY <1>12, <1>20, OneSale

-----------------------------------------------------------------------------
(* The day, the expiry job and the theorems.                                *)

LEMMA NextDayInv == ASSUME Inv, NextDay PROVE Inv'
<1>1. \A t \in Sale : sale'[t] = sale[t] \/ sale'[t] = [sale[t] EXCEPT !.sameDay = FALSE]
  BY DEF NextDay
<1>2. \A t \in Sale : sale'[t] \in SaleRow
  <2> TAKE t \in Sale
  <2>1. sale[t] \in SaleRow
    BY DEF Inv, Good, Typed
  <2>2. [sale[t] EXCEPT !.sameDay = FALSE] \in SaleRow
    BY <2>1 DEF SaleRow
  <2> QED
    BY <1>1, <2>1, <2>2
<1>3. sale' \in [Sale -> SaleRow]
  BY <1>2 DEF NextDay
<1>4. \A t \in Sale : Good(sale'[t], pay[t], unsure[t], busy[t])
  <2> TAKE t \in Sale
  <2>1. Good(sale[t], pay[t], unsure[t], busy[t]) /\ sale'[t] \in SaleRow
    BY <1>2 DEF Inv
  <2>2. /\ sale'[t].status = sale[t].status /\ sale'[t].total = sale[t].total
        /\ sale'[t].repaid = sale[t].repaid /\ sale'[t].used = sale[t].used
        /\ sale'[t].earned = sale[t].earned /\ sale'[t].gaveBack = sale[t].gaveBack
        /\ sale'[t].tookBack = sale[t].tookBack
    BY <1>1, <2>1 DEF Good, Typed, SaleRow
  <2> QED
    BY <2>1, <2>2 DEF Good, Typed, DraftFits, SoldFits, VoidedFits, BusyFits
<1> QED
  BY <1>3, <1>4 DEF NextDay, points, Inv, Rows

LEMMA ExpireApplyInv == ASSUME Inv, ExpireApply PROVE Inv'
<1>1. Clamped \in 0..balance
  BY DEF Inv, Clamped, Lesser
<1>2. balance' \in Nat /\ expired' \in Nat /\ expiry' \in Nat
  BY <1>1 DEF ExpireApply, Inv
<1> QED
  BY <1>2, Quiet DEF ExpireApply, money

LEMMA ExpireReadInv == ASSUME Inv, ExpireRead PROVE Inv'
<1>1. expiry' \in Nat
  BY CheckoutAssumption DEF ExpireRead, CheckoutAssumption
<1> QED
  BY <1>1, Quiet DEF ExpireRead, money, Inv


LEMMA NextInv == Inv /\ [Next]_vars => Inv'
<1> SUFFICES ASSUME Inv, [Next]_vars PROVE Inv'
  OBVIOUS
<1>1. CASE UNCHANGED vars
  BY <1>1, Quiet DEF vars, Inv
<1>2. ASSUME NEW t \in Sale, NEW n \in 0..Price[t],
             \/ CreateTransaction(t, n) \/ ReplaceItems(t, n) \/ SetPointUse(t, n) \/ BeginRefund(t, n)
             \/ \E m \in Method : AddPayment(t, m, n)
             \/ RefundOnline(t, n) \/ \E q \in Request : RefundCash(q, t, n)
      PROVE  Inv'
  <2>1. n \in Nat
    BY CheckoutAssumption DEF CheckoutAssumption
  <2>2. CASE RefundOnline(t, n) \/ \E q \in Request : RefundCash(q, t, n)
    <3>1. "online" \in Method /\ "cash" \in Method
      BY DEF Method
    <3> QED BY <2>1, <2>2, <3>1, RefundPaymentInv DEF RefundOnline, RefundCash
  <2> QED
    BY <1>2, <2>1, <2>2, CreateInv, ReplaceInv, SetPointInv, BeginRefundInv, AddInv
<1>3. ASSUME NEW t \in Sale,
             \/ \E ok \in BOOLEAN : SettleOnline(t, ok) \/ CommitRefund(t, ok)
             \/ \E m \in Method : RemovePayment(t, m)
             \/ DiscardDraft(t) \/ BeginComplete(t) \/ CommitComplete(t) \/ Abort(t)
             \/ BeginVoid(t) \/ FindDrawer(t) \/ CommitVoid(t) \/ RefundFails(t)
             \/ \E q \in Request : AskRefund(q, t)
      PROVE  Inv'
  <2>1. CASE \E q \in Request : AskRefund(q, t)
    BY <2>1, Quiet DEF AskRefund, money, points, Inv
  <2> QED
    BY <1>3, <2>1, SettleInv, CommitRefundInv, RemoveInv, DiscardInv, BeginCompleteInv,
       CommitCompleteInv, AbortInv, BeginVoidInv, FindDrawerInv, CommitVoidInv, RefundFailsInv
<1>4. ASSUME NEW s \in Session, OpenRegister(s) \/ CloseRegister(s) \/ AddCashMovement(s, 1)
      PROVE  Inv'
  BY <1>4, Quiet DEF OpenRegister, CloseRegister, AddCashMovement, money, points, Inv
<1>5. CASE PointsAge \/ ExpireRead \/ ExpireApply \/ NextDay
  <2>1. CASE PointsAge
    BY <2>1, Quiet DEF PointsAge, money, Inv
  <2> QED
    BY <1>5, <2>1, ExpireReadInv, ExpireApplyInv, NextDayInv
<1>6. CASE \E q \in Request : RefuseRefund(q)
  BY <1>6, Quiet DEF RefuseRefund, money, points, Inv
<1> QED
  BY <1>1, <1>2, <1>3, <1>4, <1>5, <1>6 DEF Next

LEMMA Invariance == Spec => []Inv
<1> QED
  BY InitInv, NextInv, PTL DEF Spec

(* However refunds are made, by the till, by /payments, by the provider's   *)
(* dashboard or by a void, and whichever of them fail later, a sold sale    *)
(* claims at most the money its payments hold (syncRefundState).            *)
THEOREM NeverOverstated == Spec => []SaleNotOverstated
<1>1. Inv => SaleNotOverstated
  <2> SUFFICES ASSUME Inv, NEW t \in Sale, sale[t].status \in Sold
               PROVE  sale[t].total - sale[t].repaid <= Net(t)
    BY DEF SaleNotOverstated
  <2>1. pay[t] \in [Method -> Slot] /\ PaymentsFit(pay[t], unsure[t]) /\ SoldFits(sale[t], pay[t])
    BY DEF Inv, Good, Typed
  <2>2. \A m \in Method : Taken(pay[t][m]) = pay[t][m].amt - pay[t][m].ref
    BY <2>1 DEF Taken, Live, SoldFits, PaymentsFit, Slot, Amount
  <2>3. Net(t) = Paid(pay[t]) - Refunded(pay[t])
    BY <2>1, <2>2 DEF Net, Paid, Refunded, Method, Slot, Amount
  <2> QED
    BY <2>1, <2>3 DEF SoldFits
<1> QED
  BY <1>1, Invariance, PTL

(* However often the reversals are derived anew, no sale returns more points*)
(* than it redeemed or takes back more than it earned, and a voided one has *)
(* returned them all.                                                       *)
THEOREM ReversedOnce == Spec => []PointsReversedOnce
<1>1. Inv => PointsReversedOnce
  <2> SUFFICES ASSUME Inv, NEW t \in Sale
               PROVE  /\ sale[t].gaveBack <= sale[t].used /\ sale[t].tookBack <= sale[t].earned
                      /\ sale[t].status = "voided" => sale[t].gaveBack = sale[t].used
    BY DEF PointsReversedOnce
  <2>1. /\ pay[t] \in [Method -> Slot] /\ sale[t] \in SaleRow /\ PaymentsFit(pay[t], unsure[t])
        /\ DraftFits(sale[t], pay[t]) /\ SoldFits(sale[t], pay[t]) /\ VoidedFits(sale[t])
    BY DEF Inv, Good, Typed
  <2>2. CASE sale[t].status \in Sold
    BY <2>1, <2>2 DEF SoldFits, PaymentsFit, Method, Sold
  <2>3. CASE sale[t].status = "voided"
    BY <2>1, <2>3 DEF VoidedFits, SaleRow, Amount
  <2>4. CASE sale[t].status \in {"none", "draft"}
    BY <2>1, <2>4 DEF DraftFits
  <2> QED
    BY <2>1, <2>2, <2>3, <2>4 DEF SaleRow
<1> QED
  BY <1>1, Invariance, PTL

-----------------------------------------------------------------------------
(* Types of the rest of the state.                                          *)

RegRow == [status: {"none", "open", "closed"}, rows: Figure, booked: Figure]
AskRow == [sale: Line, session: Session \cup {NoSession}]
Counters == [refunds: Nat, early: Nat, failures: Nat, expiries: Nat, moves: Nat]

Till == reg \in [Session -> RegRow] /\ ask \in [Request -> AskRow] /\ astray \subseteq Sale

Rest == aged \in BOOLEAN /\ Till /\ stock \in Int /\ bounds \in Counters

LEMMA InvTypes == Inv /\ Rest => TypeOK
<1> SUFFICES ASSUME Inv, Rest PROVE TypeOK
  OBVIOUS
<1>1. /\ sale \in [Sale -> SaleRow] /\ pay \in [Sale -> [Method -> Slot]]
      /\ unsure \in [Sale -> Amount] /\ busy \in [Sale -> Op] /\ reg \in [Session -> RegRow]
      /\ ask \in [Request -> AskRow] /\ astray \subseteq Sale
      /\ balance \in Nat /\ expired \in Nat /\ expiry \in Nat
  BY DEF Inv, Rest, Till, Rows, Amount
<1> QED BY Zenon, <1>1 DEF Rest, TypeOK, SaleRow, Op, RegRow, AskRow, Counters

LEMMA InitRest == Init => Rest
<1> SUFFICES ASSUME Init PROVE Rest
  OBVIOUS
<1>1. reg \in [Session -> RegRow]
  <2>1. [status |-> "none", rows |-> NoCash, booked |-> NoCash] \in RegRow
    BY DEF RegRow, NoCash, Figure
  <2> QED BY <2>1 DEF Init
<1>2. bounds \in Counters
  BY DEF Init, Counters
<1>3. ask \in [Request -> AskRow] /\ astray \subseteq Sale
  BY DEF Init, AskRow, NoRequest, Line
<1>4. stock \in Int
  BY DEF Init
<1>5. aged \in BOOLEAN
  BY DEF Init
<1> QED BY <1>1, <1>2, <1>3, <1>4, <1>5 DEF Rest, Till

LEMMA CashType ==
  ASSUME Inv, NEW t \in Sale
  PROVE  /\ pay[t]["cash"].amt \in Nat /\ pay[t]["cash"].ref \in Nat
         /\ pay[t]["cash"].st \in {"none", "pending", "taken"}
         /\ pay[t]["cash"].ref <= pay[t]["cash"].amt
         /\ pay[t]["cash"].st # "taken" => pay[t]["cash"].ref = 0
BY DEF Inv, Good, Typed, PaymentsFit, Slot, Amount, Method

LEMMA RegType ==
  ASSUME Rest, NEW s \in Session
  PROVE  /\ reg[s].status \in {"none", "open", "closed"} /\ reg[s].booked \in [Line -> Int]
         /\ reg[s].rows \in [Line -> Int]
BY DEF Rest, Till, RegRow, Figure

LEMMA CashInType == ASSUME Inv, NEW s, NEW x \in Line PROVE CashIn(s, x) \in Int
<1>1. CASE x \in Sale
  BY <1>1, CashType DEF CashIn
<1> QED BY <1>1 DEF CashIn

LEMMA FiguresType == ASSUME Inv, Rest, NEW s \in Session PROVE Figures(s) \in Figure
<1>1. \A x \in Line : CashIn(s, x) \in Int /\ reg[s].rows[x] \in Int
  BY CashInType, RegType
<1> QED BY <1>1 DEF Figures, Figure

(* Booking cash in a session leaves its status and its snapshot.            *)
LEMMA TakenReg ==
  ASSUME Rest, NEW s \in Session \cup {NoSession}, NEW x \in Line, NEW a \in Int,
         reg' = TakenFrom(s, x, a)
  PROVE  /\ reg' \in [Session -> RegRow]
         /\ \A o \in Session : /\ reg'[o].status = reg[o].status /\ reg'[o].booked = reg[o].booked
                              /\ \A y \in Line : reg'[o].rows[y] =
                                   reg[o].rows[y] - IF o = s /\ y = x THEN a ELSE 0
<1>1. CASE s = NoSession
  <2>1. reg' = reg
    BY <1>1 DEF TakenFrom
  <2>2. \A o \in Session : o # s /\ reg[o].rows \in [Line -> Int]
    BY <1>1, RegType, CheckoutAssumption DEF CheckoutAssumption
  <2> QED BY <2>1, <2>2 DEF Rest, Till
<1>2. CASE s # NoSession
  <2>0. s \in Session /\ reg[s] \in RegRow /\ reg \in [Session -> RegRow]
    BY <1>2 DEF Rest, Till
  <2> DEFINE f == [reg[s].rows EXCEPT ![x] = reg[s].rows[x] - a]
             w == [reg[s] EXCEPT !.rows = f]
  <2>1. reg[s].rows \in [Line -> Int]
    BY <2>0, RegType
  <2>2. f \in [Line -> Int] /\ \A y \in Line : f[y] = reg[s].rows[y] - IF y = x THEN a ELSE 0
    BY <2>1
  <2>3. reg' = [reg EXCEPT ![s] = w]
    BY <1>2, <2>0, <2>1 DEF TakenFrom, RegRow
  <2> HIDE DEF f
  <2>4. w \in RegRow /\ w.rows = f /\ w.status = reg[s].status /\ w.booked = reg[s].booked
    BY <2>0, <2>2 DEF RegRow, Figure
  <2> HIDE DEF w
  <2>5. reg' \in [Session -> RegRow] /\ reg'[s] = w /\ \A o \in Session \ {s} : reg'[o] = reg[o]
    BY <2>0, <2>3, <2>4
  <2>6. ASSUME NEW o \in Session \ {s}, NEW y \in Line
        PROVE  reg'[o].rows[y] = reg[o].rows[y] - 0
    <3>1. reg[o].rows \in [Line -> Int]
      BY RegType
    <3> QED BY <2>5, <3>1
  <2> QED BY <2>2, <2>4, <2>5, <2>6
<1> QED BY <1>1, <1>2

LEMMA ForgetType == ASSUME Rest, NEW t PROVE Forget(t) \in [Request -> AskRow]
<1>1. NoRequest \in AskRow
  BY DEF NoRequest, AskRow, Line
<1> QED BY <1>1 DEF Forget, Rest, Till

LEMMA FoundType == ASSUME Rest, NEW t \in Sale PROVE Found(t) \subseteq Sale /\ astray \subseteq Found(t)
BY DEF Found, Rest, Till

LEMMA OpenOne == OpenSession # NoSession => OpenSession \in Session /\ reg[OpenSession].status = "open"
BY DEF OpenSession

LEMMA CountersRest ==
  ASSUME Rest, UNCHANGED <<aged, till, stock>>,
         \/ bounds' = [bounds EXCEPT !.failures = @ + 1]
         \/ bounds' = [bounds EXCEPT !.expiries = @ + 1]
  PROVE  Rest'
BY DEF Rest, Till, till, Counters

LEMMA CommitCompleteRest == ASSUME Inv, Rest, NEW t \in Sale, CommitComplete(t) PROVE Rest'
BY DEF CommitComplete, Rest, Till, till

LEMMA RefundPaymentRest ==
  ASSUME Inv, Rest, NEW t \in Sale, NEW m \in Method, NEW a \in Nat, RefundPayment(t, m, a), Till'
  PROVE  Rest'
<1>1. bounds' \in Counters
  <2> DEFINE e == IF sale[t].status = "draft" THEN 1 ELSE 0
  <2>1. bounds' = [bounds EXCEPT !.refunds = @ + 1, !.early = @ + e]
    BY DEF RefundPayment
  <2>2. e \in Nat OBVIOUS
  <2> HIDE DEF e
  <2>3. bounds.refunds + 1 \in Nat /\ bounds.early + e \in Nat /\ bounds \in Counters
    BY <2>2 DEF Rest, Counters
  <2>4. bounds' = [bounds EXCEPT !.refunds = bounds.refunds + 1, !.early = bounds.early + e]
    BY <2>1, <2>3 DEF Counters
  <2> QED BY <2>3, <2>4 DEF Counters
<1> QED BY <1>1 DEF RefundPayment, Rest

LEMMA RefundsTill ==
  ASSUME Inv, Rest, NEW t \in Sale, NEW a \in Nat,
         RefundOnline(t, a) \/ \E q \in Request : RefundCash(q, t, a)
  PROVE  Till' /\ Rest'
<1>1. CASE RefundOnline(t, a)
  <2>1. Till' /\ "online" \in Method
    BY <1>1 DEF RefundOnline, RefundPayment, Rest, Till, Method
  <2> QED BY <1>1, <2>1, RefundPaymentRest DEF RefundOnline
<1>2. ASSUME NEW q \in Request, RefundCash(q, t, a) PROVE Till' /\ Rest'
  <2>1. ask[q].session \in Session \cup {NoSession} /\ t \in Line /\ NoRequest \in AskRow
    BY DEF Rest, Till, AskRow, Line, NoRequest
  <2>2. reg' \in [Session -> RegRow]
    BY <1>2, <2>1, TakenReg DEF RefundCash
  <2>3. Till' /\ "cash" \in Method
    BY <1>2, <2>1, <2>2 DEF RefundCash, RefundPayment, Rest, Till, Method
  <2> QED BY <1>2, <2>3, RefundPaymentRest DEF RefundCash
<1> QED BY <1>1, <1>2

LEMMA PartsType ==
  ASSUME Inv, NEW t \in Sale, NEW m \in Method
  PROVE  busy[t].parts[m] \in Nat /\ busy[t].session \in Session \cup {NoSession}
         /\ busy[t].open \in BOOLEAN
BY DEF Inv, Good, Typed, Op, Parts, Amount

LEMMA CommitRefundRest ==
  ASSUME Inv, Rest, NEW t \in Sale, NEW restock \in BOOLEAN, CommitRefund(t, restock)
  PROVE  Rest'
<1>1. busy[t].parts["cash"] \in Nat /\ busy[t].session \in Session \cup {NoSession} /\ t \in Line
  BY PartsType DEF Method, Line
<1>2. reg' \in [Session -> RegRow]
  BY <1>1, TakenReg DEF CommitRefund
<1>3. stock' \in Int /\ Till'
  BY <1>2 DEF CommitRefund, Rest, Till
<1>4. bounds' \in Counters
  BY DEF CommitRefund, Rest, Counters
<1> QED BY <1>3, <1>4 DEF CommitRefund, Rest

LEMMA CommitVoidRest == ASSUME Inv, Rest, NEW t \in Sale, CommitVoid(t) PROVE Rest'
<1>1. pay[t]["cash"].amt \in Nat /\ busy[t].session \in Session \cup {NoSession} /\ t \in Line
  BY CashType, PartsType DEF Method, Line
<1>2. reg' \in [Session -> RegRow]
  BY <1>1, TakenReg DEF CommitVoid
<1>3. stock' \in Int /\ Till'
  BY <1>2, ForgetType DEF CommitVoid, Rest, Till
<1> QED BY <1>3 DEF CommitVoid, Rest

LEMMA SessionsRest ==
  ASSUME Inv, Rest, NEW s \in Session,
         OpenRegister(s) \/ CloseRegister(s) \/ AddCashMovement(s, 1)
  PROVE  Rest'
<1>0. reg \in [Session -> RegRow] /\ reg[s] \in RegRow
  BY DEF Rest, Till
<1>1. CASE OpenRegister(s)
  <2>1. [reg[s] EXCEPT !.status = "open"] \in RegRow
    BY <1>0 DEF RegRow
  <2> QED BY <1>0, <1>1, <2>1 DEF OpenRegister, Rest, Till, money, points
<1>2. CASE CloseRegister(s)
  <2>1. [reg[s] EXCEPT !.status = "closed", !.booked = Figures(s)] \in RegRow
    BY <1>0, FiguresType DEF RegRow
  <2>2. reg' = [reg EXCEPT ![s] = [reg[s] EXCEPT !.status = "closed", !.booked = Figures(s)]]
    BY <1>0, <1>2 DEF CloseRegister
  <2>3. reg' \in [Session -> RegRow]
    BY <1>0, <2>1, <2>2
  <2> QED BY <1>2, <2>3 DEF CloseRegister, Rest, Till, money, points
<1>3. CASE AddCashMovement(s, 1)
  <2>1. reg' \in [Session -> RegRow]
    <3>1. NoSale \in Line /\ 1 \in Int /\ s \in Session \cup {NoSession}
      BY DEF Line
    <3> QED BY <1>3, <3>1, TakenReg DEF AddCashMovement
  <2>2. bounds' \in Counters
    BY <1>3 DEF AddCashMovement, Rest, Counters
  <2> QED BY <1>3, <2>1, <2>2 DEF AddCashMovement, Rest, Till, money, points
<1> QED BY <1>1, <1>2, <1>3

LEMMA RequestRest ==
  ASSUME Inv, Rest, NEW q \in Request, NEW t \in Sale, AskRefund(q, t) \/ RefuseRefund(q) PROVE Rest'
<1>1. NoRequest \in AskRow /\ [sale |-> t, session |-> OpenSession] \in AskRow
  BY OpenSessionFact DEF NoRequest, AskRow, Line
<1> QED BY <1>1, FoundType DEF AskRefund, RefuseRefund, Rest, Till, money, points

LEMMA NextRest == Inv /\ Rest /\ [Next]_vars => Rest'
<1> SUFFICES ASSUME Inv, Rest, [Next]_vars PROVE Rest'
  OBVIOUS
<1>1. CASE UNCHANGED vars
  BY <1>1 DEF vars, Rest, Till
<1>2. ASSUME NEW t \in Sale, NEW n \in 0..Price[t],
             \/ CreateTransaction(t, n) \/ ReplaceItems(t, n) \/ SetPointUse(t, n) \/ BeginRefund(t, n)
             \/ \E m \in Method : AddPayment(t, m, n)
             \/ RefundOnline(t, n) \/ \E q \in Request : RefundCash(q, t, n)
      PROVE  Rest'
  <2>1. n \in Nat
    BY CheckoutAssumption DEF CheckoutAssumption
  <2>2. CASE RefundOnline(t, n) \/ \E q \in Request : RefundCash(q, t, n)
    BY <2>1, <2>2, RefundsTill
  <2>3. CASE CreateTransaction(t, n) \/ ReplaceItems(t, n) \/ SetPointUse(t, n)
    BY <2>3 DEF CreateTransaction, ReplaceItems, SetPointUse, points, till, Rest, Till
  <2>4. CASE BeginRefund(t, n)
    BY <2>4, FoundType DEF BeginRefund, points, Rest, Till
  <2>5. CASE \E m \in Method : AddPayment(t, m, n)
    BY <2>5 DEF AddPayment, points, till, Rest, Till
  <2> QED
    BY <1>2, <2>2, <2>3, <2>4, <2>5
<1>3. ASSUME NEW t \in Sale,
             \/ \E ok \in BOOLEAN : SettleOnline(t, ok) \/ CommitRefund(t, ok)
             \/ \E m \in Method : RemovePayment(t, m)
             \/ DiscardDraft(t) \/ BeginComplete(t) \/ CommitComplete(t) \/ Abort(t)
             \/ BeginVoid(t) \/ FindDrawer(t) \/ CommitVoid(t) \/ RefundFails(t)
             \/ \E q \in Request : AskRefund(q, t)
      PROVE  Rest'
  <2>1. CASE \E ok \in BOOLEAN : SettleOnline(t, ok)
    BY <2>1 DEF SettleOnline, points, till, Rest, Till
  <2>2. CASE DiscardDraft(t) \/ \E m \in Method : RemovePayment(t, m)
    BY <2>2, ForgetType DEF RemovePayment, DiscardDraft, points, Rest, Till
  <2>3. CASE BeginComplete(t) \/ FindDrawer(t)
    BY <2>3, FoundType DEF BeginComplete, FindDrawer, points, Rest, Till
  <2>4. CASE Abort(t) \/ BeginVoid(t)
    BY <2>4 DEF Abort, BeginVoid, points, till, Rest, Till
  <2>5. CASE RefundFails(t)
    BY <2>5, CountersRest DEF RefundFails, points
  <2>6. CASE \E q \in Request : AskRefund(q, t)
    BY <2>6, RequestRest
  <2> QED
    BY <1>3, <2>1, <2>2, <2>3, <2>4, <2>5, <2>6, CommitRefundRest, CommitCompleteRest, CommitVoidRest
<1>4. ASSUME NEW s \in Session, OpenRegister(s) \/ CloseRegister(s) \/ AddCashMovement(s, 1)
      PROVE  Rest'
  BY <1>4, SessionsRest
<1>5. CASE PointsAge \/ ExpireRead \/ ExpireApply \/ NextDay
  <2>1. CASE PointsAge
    BY <2>1 DEF PointsAge, money, till, Rest, Till
  <2>2. CASE ExpireRead
    BY <2>2, CountersRest DEF ExpireRead, money
  <2>3. CASE ExpireApply
    BY <2>3 DEF ExpireApply, money, till, Rest, Till
  <2>4. CASE NextDay
    BY <2>4 DEF NextDay, points, till, Rest, Till
  <2> QED
    BY <1>5, <2>1, <2>2, <2>3, <2>4
<1>6. CASE \E q \in Request : RefuseRefund(q)
  <2>1. PICK q \in Request : RefuseRefund(q)
    BY <1>6
  <2>2. NoRequest \in AskRow
    BY DEF NoRequest, AskRow, Line
  <2> QED BY <2>1, <2>2 DEF RefuseRefund, Rest, Till, money, points
<1> QED
  BY <1>1, <1>2, <1>3, <1>4, <1>5, <1>6 DEF Next

-----------------------------------------------------------------------------
(* Steps of one sale: every other sale keeps its row, payments, operation.  *)

Only(t) == \A x \in Sale \ {t} : sale'[x] = sale[x] /\ pay'[x] = pay[x] /\ busy'[x] = busy[x]

LEMMA OnlyOne ==
  ASSUME Inv, NEW t \in Sale, NEW s, NEW p, NEW b,
         sale' = [sale EXCEPT ![t] = s], pay' = [pay EXCEPT ![t] = p], busy' = [busy EXCEPT ![t] = b]
  PROVE  Only(t) /\ sale'[t] = s /\ pay'[t] = p /\ busy'[t] = b
BY DEF Inv, Rows, Only

-----------------------------------------------------------------------------
(* The ledger of points.                                                    *)

LEMMA LedgerType == ASSUME Inv, NEW t \in Sale PROVE Ledger(t) \in Int
<1>1. sale[t] \in SaleRow
  BY DEF Inv, Rows
<1> QED BY <1>1 DEF Ledger, SaleRow, Amount

LEMMA LedgerSame ==
  ASSUME Inv, Inv', BalanceIsLedger, \A x \in Sale : Ledger(x)' = Ledger(x),
         balance' + expired' = balance + expired
  PROVE  BalanceIsLedger'
<1> DEFINE f == [x \in Sale |-> Ledger(x)]
           g == [x \in Sale |-> Ledger(x)']
<1>1. f = g
  OBVIOUS
<1>2. SumFunctionOnSet(f, Sale) \in Int
  <2>1. IsFiniteSet(Sale) /\ \A x \in Sale : f[x] \in Int
    BY LedgerType, CheckoutAssumption DEF CheckoutAssumption
  <2> HIDE DEF f
  <2> QED BY <2>1, SumType
<1>3. Granted \in Nat /\ balance \in Nat /\ balance' \in Nat /\ expired \in Nat /\ expired' \in Nat
  BY CheckoutAssumption DEF CheckoutAssumption, Inv
<1>4. balance = Granted - expired + SumFunctionOnSet(f, Sale)
  BY DEF BalanceIsLedger
<1>5. balance' = Granted - expired' + SumFunctionOnSet(g, Sale)
  <2> HIDE DEF f, g
  <2> QED BY <1>1, <1>2, <1>3, <1>4
<1> QED BY <1>3, <1>5 DEF BalanceIsLedger

LEMMA LedgerOne ==
  ASSUME Inv, Inv', BalanceIsLedger, NEW t \in Sale, Only(t), expired' = expired,
         balance' - balance = Ledger(t)' - Ledger(t)
  PROVE  BalanceIsLedger'
<1> DEFINE f == [x \in Sale |-> Ledger(x)]
           g == [x \in Sale |-> Ledger(x)']
<1>1. \A x \in Sale : Ledger(x) \in Int /\ Ledger(x)' \in Int
  <2> TAKE x \in Sale
  <2>1. sale[x] \in SaleRow /\ sale'[x] \in SaleRow
    BY DEF Inv, Rows
  <2> QED BY <2>1 DEF Ledger, SaleRow, Amount
<1>2. \A x \in Sale \ {t} : Ledger(x)' = Ledger(x)
  BY DEF Only, Ledger
<1>3. /\ \A x \in Sale : f[x] \in Int /\ g[x] \in Int
      /\ \A x \in Sale \ {t} : f[x] = g[x]
      /\ f[t] = Ledger(t) /\ g[t] = Ledger(t)'
  BY <1>1, <1>2
<1>4. balance = Granted - expired + SumFunctionOnSet(f, Sale)
  BY DEF BalanceIsLedger
<1>5. balance' = Granted - expired' + SumFunctionOnSet(g, Sale)
  <2>1. IsFiniteSet(Sale)
    BY CheckoutAssumption DEF CheckoutAssumption
  <2>2. Granted \in Nat /\ balance \in Nat /\ balance' \in Nat /\ expired \in Nat
    BY CheckoutAssumption DEF CheckoutAssumption, Inv
  <2> HIDE DEF f, g
  <2>3. SumFunctionOnSet(g, Sale) = SumFunctionOnSet(f, Sale) - f[t] + g[t]
    BY <1>3, <2>1, SumUpdate
  <2>4. SumFunctionOnSet(f, Sale) \in Int /\ f[t] \in Int /\ g[t] \in Int
    BY <1>3, <2>1, SumType
  <2> QED BY <1>3, <1>4, <2>2, <2>3, <2>4
<1>6. balance' >= 0
  BY DEF Inv
<1> QED BY <1>5, <1>6 DEF BalanceIsLedger

(* A sale's row with the same four figures.                                 *)
LEMMA LedgerOf ==
  ASSUME NEW t \in Sale, UNCHANGED <<sale[t].earned, sale[t].used, sale[t].gaveBack, sale[t].tookBack>>
  PROVE  Ledger(t)' = Ledger(t)
BY DEF Ledger

LEMMA CommitCompleteLedger ==
  ASSUME Inv, Inv', BalanceIsLedger, NEW t \in Sale, CommitComplete(t) PROVE BalanceIsLedger'
<1> DEFINE used == pay[t]["point"].amt
           earned == PointsFor(sale[t].total - used)
           s == [sale[t] EXCEPT !.status = "completed", !.session = busy[t].session,
                                !.used = used, !.earned = earned]
<1>1. /\ sale' = [sale EXCEPT ![t] = s] /\ UNCHANGED <<pay, expired>>
      /\ busy' = [busy EXCEPT ![t] = Idle]
      /\ balance' = balance - used + earned /\ busy[t].op = "complete"
  BY DEF CommitComplete
<1>2. Only(t) /\ sale'[t] = s
  BY <1>1 DEF Inv, Rows, Only
<1>3. sale[t] \in SaleRow /\ sale[t].used = 0 /\ sale[t].earned = 0
      /\ sale[t].gaveBack = 0 /\ sale[t].tookBack = 0
  BY <1>1 DEF Inv, Good, Typed, BusyFits, DraftFits
<1>4. s.used = used /\ s.earned = earned /\ s.gaveBack = 0 /\ s.tookBack = 0
  BY <1>3 DEF SaleRow
<1>5. used \in Int /\ earned \in Int /\ balance \in Int
  <2>1. sale'[t] \in SaleRow
    BY DEF Inv, Rows
  <2> HIDE DEF s, used, earned
  <2> QED BY <1>2, <1>4, <2>1 DEF SaleRow, Amount, Inv
<1> HIDE DEF s, used, earned
<1>6. balance' - balance = Ledger(t)' - Ledger(t)
  BY <1>1, <1>2, <1>3, <1>4, <1>5 DEF Ledger
<1> QED BY <1>1, <1>2, <1>6, LedgerOne

LEMMA SyncTypes ==
  ASSUME NEW t, NEW p, sale[t] \in SaleRow, p \in [Method -> Slot], balance \in Nat
  PROVE  TakeBack(t, p) \in Int /\ GiveBack(t, p) \in Int
<1>1. /\ sale[t].total \in Nat /\ sale[t].earned \in Nat /\ sale[t].tookBack \in Nat
      /\ sale[t].gaveBack \in Nat
  BY DEF SaleRow, Amount
<1>2. Refunded(p) \in Nat /\ p["point"].ref \in Nat
  BY DEF Refunded, Method, Slot, Amount
<1>3. RepaidOf(t, p) \in Nat
  BY <1>1, <1>2 DEF RepaidOf, Lesser
<1>4. EarnTarget(t, RepaidOf(t, p)) \in Int
  <2>1. ASSUME NEW r \in Nat PROVE EarnTarget(t, r) \in Int
    <3>1. sale[t].earned * r \in Nat
      BY <1>1
    <3> QED BY <1>1, <3>1 DEF EarnTarget
  <2> QED BY <1>3, <2>1
<1> QED BY <1>1, <1>2, <1>4 DEF TakeBack, GiveBack, Lesser, Positive

(* What syncRefundState adds to the reversals it takes from the balance.    *)
LEMMA SyncLedger ==
  ASSUME Inv, Inv', BalanceIsLedger, NEW t \in Sale, NEW p \in [Method -> Slot], NEW returned,
         Only(t), expired' = expired, balance' = balance - TakeBack(t, p) + GiveBack(t, p),
         sale'[t] = Synced(t, p) \/ sale'[t] = [Synced(t, p) EXCEPT !.returned = returned]
  PROVE  BalanceIsLedger'
<1> DEFINE take == TakeBack(t, p)
           give == GiveBack(t, p)
<1>1. sale[t] \in SaleRow /\ sale'[t] \in SaleRow /\ balance \in Nat
  BY DEF Inv, Rows
<1>2. take \in Int /\ give \in Int /\ balance \in Int
  BY <1>1, SyncTypes
<1>3. /\ sale[t].tookBack \in Int /\ sale[t].gaveBack \in Int
      /\ sale[t].earned \in Int /\ sale[t].used \in Int
  BY <1>1 DEF SaleRow, Amount
<1>4. /\ sale'[t].earned = sale[t].earned /\ sale'[t].used = sale[t].used
      /\ sale'[t].tookBack = sale[t].tookBack + take
      /\ sale'[t].gaveBack = sale[t].gaveBack + give
  <2> DEFINE y == Synced(t, p)
  <2>1. y.earned = sale[t].earned /\ y.used = sale[t].used
        /\ y.tookBack = sale[t].tookBack + take /\ y.gaveBack = sale[t].gaveBack + give
    BY <1>1 DEF Synced, SaleRow
  <2>2. \A r : /\ [y EXCEPT !.returned = r].earned = y.earned
               /\ [y EXCEPT !.returned = r].used = y.used
               /\ [y EXCEPT !.returned = r].tookBack = y.tookBack
               /\ [y EXCEPT !.returned = r].gaveBack = y.gaveBack
    BY <1>1 DEF Synced, SaleRow
  <2> HIDE DEF y, take, give
  <2> QED BY <2>1, <2>2 DEF y
<1>5. balance' = balance - take + give
  OBVIOUS
<1> HIDE DEF take, give
<1>6. balance' - balance = Ledger(t)' - Ledger(t)
  BY <1>2, <1>3, <1>4, <1>5 DEF Ledger
<1> QED BY <1>6, LedgerOne

LEMMA RefundPaymentLedger ==
  ASSUME Inv, Inv', BalanceIsLedger, NEW t \in Sale, NEW m \in Method, NEW a \in Nat,
         RefundPayment(t, m, a)
  PROVE  BalanceIsLedger'
<1> DEFINE p == [pay[t] EXCEPT ![m].ref = @ + a]
<1>1. pay' = [pay EXCEPT ![t] = p] /\ SyncRefundState(t, p) /\ UNCHANGED <<busy, expired>>
  BY DEF RefundPayment
<1>2. p \in [Method -> Slot]
  <2>1. pay'[t] = p /\ pay'[t] \in [Method -> Slot]
    BY <1>1 DEF Inv, Rows
  <2> QED BY <2>1
<1> HIDE DEF p
<1>3. CASE sale[t].status \in Sold
  <2>1. /\ sale' = [sale EXCEPT ![t] = Synced(t, p)]
        /\ balance' = balance - TakeBack(t, p) + GiveBack(t, p)
    BY <1>1, <1>3 DEF SyncRefundState
  <2>2. Only(t) /\ sale'[t] = Synced(t, p)
    BY <1>1, <2>1 DEF Inv, Rows, Only
  <2> QED BY <1>1, <1>2, <2>1, <2>2, SyncLedger
<1>4. CASE sale[t].status \notin Sold
  <2>1. UNCHANGED <<sale, balance, expired>>
    BY <1>1, <1>4 DEF SyncRefundState
  <2>2. \A x \in Sale : Ledger(x)' = Ledger(x)
    BY <2>1 DEF Ledger
  <2> QED BY <2>1, <2>2, LedgerSame
<1> QED BY <1>3, <1>4

LEMMA CommitRefundLedger ==
  ASSUME Inv, Inv', BalanceIsLedger, NEW t \in Sale, NEW restock \in BOOLEAN, CommitRefund(t, restock)
  PROVE  BalanceIsLedger'
<1> DEFINE p == [m \in Method |-> [pay[t][m] EXCEPT !.ref = @ + busy[t].parts[m]]]
           r == Synced(t, p).returned \/ restock
<1>1. /\ pay' = [pay EXCEPT ![t] = p] /\ busy' = [busy EXCEPT ![t] = Idle] /\ expired' = expired
      /\ sale' = [sale EXCEPT ![t] = [Synced(t, p) EXCEPT !.returned = r]]
      /\ balance' = balance - TakeBack(t, p) + GiveBack(t, p)
  BY DEF CommitRefund
<1>2. p \in [Method -> Slot]
  <2>1. pay'[t] = p /\ pay'[t] \in [Method -> Slot]
    BY <1>1 DEF Inv, Rows
  <2> QED BY <2>1
<1> HIDE DEF p, r
<1>3. Only(t) /\ sale'[t] = [Synced(t, p) EXCEPT !.returned = r]
  BY <1>1 DEF Inv, Rows, Only
<1> QED BY <1>1, <1>2, <1>3, SyncLedger

LEMMA CommitVoidLedger ==
  ASSUME Inv, Inv', BalanceIsLedger, NEW t \in Sale, CommitVoid(t) PROVE BalanceIsLedger'
<1> DEFINE take == VoidTakes(t)
           s == [sale[t] EXCEPT !.status = "voided", !.gaveBack = @ + sale[t].used,
                                !.tookBack = @ + take]
           p == [pay[t] EXCEPT !["online"].ref = @ + busy[t].parts["online"], !["cash"] = Empty,
                               !["point"] = Empty]
<1>1. sale' = [sale EXCEPT ![t] = s] /\ balance' = balance + sale[t].used - take
  BY DEF CommitVoid
<1>2. pay' = [pay EXCEPT ![t] = p]
  BY DEF CommitVoid
<1>3. busy' = [busy EXCEPT ![t] = Idle] /\ expired' = expired
  BY DEF CommitVoid
<1> HIDE DEF p
<1>4. sale[t] \in SaleRow /\ balance \in Int
  BY DEF Inv, Rows
<1>5. /\ sale[t].tookBack \in Int /\ sale[t].gaveBack \in Int
      /\ sale[t].earned \in Int /\ sale[t].used \in Int
  BY <1>4 DEF SaleRow, Amount
<1>6. take \in Int
  BY <1>4, <1>5 DEF VoidTakes, Lesser
<1>7. /\ s.earned = sale[t].earned /\ s.used = sale[t].used
      /\ s.tookBack = sale[t].tookBack + take /\ s.gaveBack = sale[t].gaveBack + sale[t].used
  BY <1>4 DEF SaleRow
<1> HIDE DEF take, s
<1>8. Only(t) /\ sale'[t] = s
  BY <1>1, <1>2, <1>3 DEF Inv, Rows, Only
<1>9. balance' - balance = Ledger(t)' - Ledger(t)
  BY <1>1, <1>4, <1>5, <1>6, <1>7, <1>8 DEF Ledger
<1> QED BY <1>3, <1>8, <1>9, LedgerOne

LEMMA StatusLedger ==
  ASSUME Inv, Inv', BalanceIsLedger, UNCHANGED <<balance, expired>>,
         \A x \in Sale : /\ sale'[x].earned = sale[x].earned /\ sale'[x].used = sale[x].used
                         /\ sale'[x].gaveBack = sale[x].gaveBack /\ sale'[x].tookBack = sale[x].tookBack
  PROVE  BalanceIsLedger'
BY LedgerSame DEF Ledger

LEMMA DraftLedger ==
  ASSUME Inv, Inv', BalanceIsLedger, NEW t \in Sale, NEW n \in Nat,
         CreateTransaction(t, n) \/ ReplaceItems(t, n) \/ DiscardDraft(t) \/ NextDay
  PROVE  BalanceIsLedger'
<1>1. UNCHANGED <<balance, expired>>
  BY DEF CreateTransaction, ReplaceItems, DiscardDraft, NextDay, points
<1>2. ASSUME NEW x \in Sale
      PROVE  /\ sale'[x].earned = sale[x].earned /\ sale'[x].used = sale[x].used
             /\ sale'[x].gaveBack = sale[x].gaveBack /\ sale'[x].tookBack = sale[x].tookBack
  <2>1. sale[x] \in SaleRow /\ sale \in [Sale -> SaleRow]
    BY DEF Inv, Rows
  <2>2. \/ sale'[x] = sale[x]
        \/ sale'[x] = [sale[x] EXCEPT !.status = "draft", !.total = n]
        \/ sale'[x] = [sale[x] EXCEPT !.total = n]
        \/ sale'[x] = [sale[x] EXCEPT !.status = "voided"]
        \/ sale'[x] = [sale[x] EXCEPT !.sameDay = FALSE]
    BY <2>1 DEF CreateTransaction, ReplaceItems, DiscardDraft, NextDay
  <2> QED BY <2>1, <2>2 DEF SaleRow
<1> QED BY <1>1, <1>2, StatusLedger

LEMMA QuietLedger ==
  ASSUME Inv, Inv', BalanceIsLedger, UNCHANGED sale, balance' + expired' = balance + expired
  PROVE  BalanceIsLedger'
BY LedgerSame DEF Ledger

LEMMA NextLedger == Inv /\ Inv' /\ BalanceIsLedger /\ [Next]_vars => BalanceIsLedger'
<1> SUFFICES ASSUME Inv, Inv', BalanceIsLedger, [Next]_vars PROVE BalanceIsLedger'
  OBVIOUS
<1>1. CASE UNCHANGED vars
  BY <1>1, QuietLedger DEF vars
<1>2. ASSUME NEW t \in Sale, NEW n \in 0..Price[t],
             \/ CreateTransaction(t, n) \/ ReplaceItems(t, n) \/ SetPointUse(t, n) \/ BeginRefund(t, n)
             \/ \E m \in Method : AddPayment(t, m, n)
             \/ RefundOnline(t, n) \/ \E q \in Request : RefundCash(q, t, n)
      PROVE  BalanceIsLedger'
  <2>1. n \in Nat
    BY CheckoutAssumption DEF CheckoutAssumption
  <2>2. CASE CreateTransaction(t, n) \/ ReplaceItems(t, n)
    BY <2>1, <2>2, DraftLedger
  <2>3. CASE SetPointUse(t, n) \/ BeginRefund(t, n) \/ \E m \in Method : AddPayment(t, m, n)
    BY <2>3, QuietLedger DEF SetPointUse, BeginRefund, AddPayment, points
  <2>4. CASE RefundOnline(t, n) \/ \E q \in Request : RefundCash(q, t, n)
    <3>1. "online" \in Method /\ "cash" \in Method
      BY DEF Method
    <3> QED BY <2>1, <2>4, <3>1, RefundPaymentLedger DEF RefundOnline, RefundCash
  <2> QED
    BY <1>2, <2>2, <2>3, <2>4
<1>3. ASSUME NEW t \in Sale,
             \/ \E ok \in BOOLEAN : SettleOnline(t, ok) \/ CommitRefund(t, ok)
             \/ \E m \in Method : RemovePayment(t, m)
             \/ DiscardDraft(t) \/ BeginComplete(t) \/ CommitComplete(t) \/ Abort(t)
             \/ BeginVoid(t) \/ FindDrawer(t) \/ CommitVoid(t) \/ RefundFails(t)
             \/ \E q \in Request : AskRefund(q, t)
      PROVE  BalanceIsLedger'
  <2>1. CASE \E ok \in BOOLEAN : SettleOnline(t, ok)
    BY <2>1, QuietLedger DEF SettleOnline, points
  <2>2. CASE \E m \in Method : RemovePayment(t, m)
    BY <2>2, QuietLedger DEF RemovePayment, points
  <2>3. CASE \/ BeginComplete(t) \/ Abort(t) \/ BeginVoid(t) \/ FindDrawer(t) \/ RefundFails(t)
             \/ \E q \in Request : AskRefund(q, t)
    BY <2>3, QuietLedger DEF BeginComplete, Abort, BeginVoid, FindDrawer, RefundFails, AskRefund,
                             money, points
  <2>4. CASE DiscardDraft(t)
    <3>1. 0 \in Nat OBVIOUS
    <3> QED BY <2>4, <3>1, DraftLedger
  <2> QED
    BY <1>3, <2>1, <2>2, <2>3, <2>4, CommitRefundLedger, CommitCompleteLedger, CommitVoidLedger
<1>4. ASSUME NEW s \in Session, OpenRegister(s) \/ CloseRegister(s) \/ AddCashMovement(s, 1)
      PROVE  BalanceIsLedger'
  BY <1>4, QuietLedger DEF OpenRegister, CloseRegister, AddCashMovement, money, points
<1>5. CASE PointsAge \/ ExpireRead \/ ExpireApply \/ NextDay
  <2>1. CASE PointsAge \/ ExpireRead
    BY <2>1, QuietLedger DEF PointsAge, ExpireRead, money
  <2>2. CASE ExpireApply
    <3>1. Clamped \in Nat /\ balance \in Nat /\ expired \in Nat
      BY DEF Inv, Clamped, Lesser
    <3>2. balance' + expired' = balance + expired /\ UNCHANGED sale
      BY <2>2, <3>1 DEF ExpireApply, money
    <3> QED BY <3>2, QuietLedger
  <2>3. CASE NextDay
    <3>1. PICK t \in Sale : TRUE
      BY <2>3 DEF NextDay
    <3>2. 0 \in Nat OBVIOUS
    <3> QED BY <2>3, <3>1, <3>2, DraftLedger
  <2> QED
    BY <1>5, <2>1, <2>2, <2>3
<1>6. CASE \E q \in Request : RefuseRefund(q)
  BY <1>6, QuietLedger DEF RefuseRefund, money, points
<1> QED
  BY <1>1, <1>2, <1>3, <1>4, <1>5, <1>6 DEF Next

LEMMA InitLedger == Init => BalanceIsLedger
<1> SUFFICES ASSUME Init PROVE BalanceIsLedger
  OBVIOUS
<1> DEFINE f == [x \in Sale |-> Ledger(x)]
<1>1. \A x \in Sale : f[x] = 0
  BY DEF Init, Ledger
<1>2. IsFiniteSet(Sale) /\ Granted \in Nat
  BY CheckoutAssumption DEF CheckoutAssumption
<1>3. SumFunctionOnSet(f, Sale) = 0
  <2> HIDE DEF f
  <2> QED BY <1>1, <1>2, SumZero
<1>4. balance = Granted /\ expired = 0
  BY DEF Init
<1> QED BY <1>2, <1>3, <1>4 DEF BalanceIsLedger

(* The balance is the sum of what the sales earned, used and had reversed,  *)
(* whatever drafts plan the same points and whenever the expiry job runs.   *)
THEOREM LedgerAdds == Spec => []BalanceIsLedger
<1> QED BY InitInv, NextInv, InitLedger, NextLedger, PTL DEF Spec

(* Amounts stay amounts: no refund, expiry or reversal takes a figure below *)
(* zero.                                                                    *)
THEOREM CheckoutTypes == Spec => []TypeOK
<1> QED BY InitInv, NextInv, InitRest, NextRest, InvTypes, PTL DEF Spec

-----------------------------------------------------------------------------
(* Sessions: what is under way on a sale has read sessions that were open,  *)
(* and unless the sale is astray they still are.                            *)

Reads(t) ==
  /\ busy[t].op \in {"complete", "payout"} => busy[t].session # NoSession
  /\ busy[t].op = "refund" /\ busy[t].parts["cash"] > 0 => busy[t].session # NoSession
  /\ busy[t].op = "void" /\ busy[t].open => OriginalOpen(t)
  /\ sale[t].status \in Sold => sale[t].session # NoSession
  /\ \A q \in Request : ask[q].sale = t => ask[q].session # NoSession
  /\ \A s \in Session : UsesOpen(t, s) => reg[s].status = "open"

SessionFits(t) ==
  /\ sale[t].status \in {"none", "draft"} => sale[t].session = NoSession
  /\ sale[t].session # NoSession => reg[sale[t].session].status # "none"
  /\ busy[t].session # NoSession => reg[busy[t].session].status # "none"
  /\ busy[t].op \in {"void", "payout"} /\ OriginalOpen(t) => busy[t].open
  /\ busy[t].op \in {"no", "void"} => busy[t].session = NoSession
  /\ busy[t].op = "payout" => ~busy[t].open /\ sale[t].session # NoSession
  /\ busy[t].op = "refund" /\ busy[t].parts["cash"] = 0 => busy[t].session = NoSession
  /\ t \notin astray => Reads(t)

SessionsFit == \A t \in Sale : SessionFits(t)

(* A session only goes on: none, open, closed; its closing leads astray what*)
(* has read it.                                                             *)
GoesOn ==
  /\ \A s \in Session : /\ reg[s].status # "none" => reg'[s].status # "none"
                        /\ reg'[s].status = "open" => reg[s].status \in {"none", "open"}
                        /\ reg[s].status = "open" /\ reg'[s].status # "open" =>
                             \A t \in Sale : UsesOpen(t, s) => t \in astray'
  /\ astray \subseteq astray'

LEMMA InitSessions == Init => SessionsFit
<1> SUFFICES ASSUME Init, NEW t \in Sale PROVE SessionFits(t)
  BY DEF SessionsFit
<1>1. sale[t].status = "none" /\ sale[t].session = NoSession
  BY DEF Init
<1>2. busy[t] = Idle
  BY DEF Init
<1>3. busy[t].op = "no" /\ busy[t].session = NoSession
  BY <1>2 DEF Idle
<1>4. ASSUME NEW q \in Request PROVE ask[q].sale # t
  BY CheckoutAssumption DEF Init, NoRequest, CheckoutAssumption
<1>5. ASSUME NEW s \in Session PROVE ~UsesOpen(t, s)
  BY <1>3, <1>4, CheckoutAssumption DEF UsesOpen, CheckoutAssumption
<1> QED BY <1>1, <1>3, <1>4, <1>5 DEF SessionFits, Reads, OriginalOpen, Sold

LEMMA SessionType ==
  ASSUME Inv, NEW t \in Sale
  PROVE  sale[t].session \in Session \cup {NoSession} /\ busy[t].session \in Session \cup {NoSession}
BY DEF Inv, Good, Typed, SaleRow, Op

(* A sale that is left alone, with the requests for it.                     *)
AskSame(t) == \A q \in Request : ask'[q].sale = t => ask'[q] = ask[q]

LEMMA StaysFit ==
  ASSUME Inv, Rest, SessionsFit, GoesOn, NEW t \in Sale, busy'[t] = busy[t], AskSame(t),
         sale'[t].session = sale[t].session,
         sale'[t].status \in {"none", "draft"} => sale[t].status \in {"none", "draft"},
         sale'[t].status \in Sold => sale[t].status \in Sold
  PROVE  SessionFits(t)'
<1>1. SessionFits(t)
  BY DEF SessionsFit
<1>2. sale[t].session \in Session \cup {NoSession} /\ busy[t].session \in Session \cup {NoSession}
  BY SessionType
<1>3. \A s \in Session : UsesOpen(t, s)' => UsesOpen(t, s)
  BY DEF UsesOpen, AskSame
<1>4. t \notin astray' => t \notin astray /\ Reads(t)
  BY <1>1 DEF GoesOn, SessionFits
<1>5. OriginalOpen(t)' => OriginalOpen(t)
  BY <1>1, <1>2 DEF OriginalOpen, GoesOn, SessionFits
<1>6. t \notin astray' => Reads(t)'
  <2> SUFFICES ASSUME t \notin astray' PROVE Reads(t)'
    OBVIOUS
  <2>1. Reads(t)
    BY <1>4
  <2>2. \A s \in Session : UsesOpen(t, s)' => reg'[s].status = "open"
    BY <1>3, <2>1 DEF Reads, GoesOn
  <2>3. \A q \in Request : ask'[q].sale = t => ask'[q].session # NoSession
    BY <2>1 DEF Reads, AskSame
  <2>4. busy[t].op = "void" /\ busy[t].open => OriginalOpen(t)'
    <3> SUFFICES ASSUME busy[t].op = "void", busy[t].open PROVE OriginalOpen(t)'
      OBVIOUS
    <3>1. OriginalOpen(t)
      BY <2>1 DEF Reads
    <3>2. sale[t].session \in Session /\ UsesOpen(t, sale[t].session)'
      BY <1>2, <3>1 DEF OriginalOpen, UsesOpen
    <3> QED BY <2>2, <3>1, <3>2 DEF OriginalOpen
  <2> QED BY <2>1, <2>2, <2>3, <2>4 DEF Reads
<1> QED BY <1>1, <1>2, <1>5, <1>6 DEF SessionFits, GoesOn

(* A sale whose operation ends.                                             *)
LEMMA ClearedFit ==
  ASSUME Inv, Rest, SessionsFit, GoesOn, NEW t \in Sale, busy'[t] = Idle, AskSame(t),
         sale'[t].session = sale[t].session,
         sale'[t].status \in {"none", "draft"} => sale[t].status \in {"none", "draft"},
         sale'[t].status \in Sold => sale[t].status \in Sold
  PROVE  SessionFits(t)'
<1>1. SessionFits(t)
  BY DEF SessionsFit
<1>2. sale[t].session \in Session \cup {NoSession}
  BY SessionType
<1>3. \A s \in Session : UsesOpen(t, s)' => UsesOpen(t, s)
  BY CheckoutAssumption DEF UsesOpen, AskSame, Idle, CheckoutAssumption
<1>4. t \notin astray' => Reads(t)'
  <2> SUFFICES ASSUME t \notin astray' PROVE Reads(t)'
    OBVIOUS
  <2>1. Reads(t)
    BY <1>1 DEF SessionFits, GoesOn
  <2>2. \A s \in Session : UsesOpen(t, s)' => reg'[s].status = "open"
    BY <1>3, <2>1 DEF Reads, GoesOn
  <2>3. \A q \in Request : ask'[q].sale = t => ask'[q].session # NoSession
    BY <2>1 DEF Reads, AskSame
  <2> QED BY <2>1, <2>2, <2>3 DEF Reads, Idle
<1> QED BY <1>1, <1>2, <1>4 DEF SessionFits, GoesOn, Idle

LEMMA OneFits ==
  ASSUME Inv, Rest, SessionsFit, GoesOn, NEW t \in Sale, Only(t), SessionFits(t)',
         \A x \in Sale \ {t} : AskSame(x)
  PROVE  SessionsFit'
<1>1. ASSUME NEW x \in Sale \ {t} PROVE SessionFits(x)'
  BY StaysFit DEF Only
<1> QED BY <1>1 DEF SessionsFit

LEMMA AllFit ==
  ASSUME Inv, Rest, SessionsFit, GoesOn, UNCHANGED busy, \A x \in Sale : AskSame(x),
         \A x \in Sale : /\ sale'[x].session = sale[x].session
                         /\ sale'[x].status \in {"none", "draft"} => sale[x].status \in {"none", "draft"}
                         /\ sale'[x].status \in Sold => sale[x].status \in Sold
  PROVE  SessionsFit'
<1>1. ASSUME NEW x \in Sale PROVE SessionFits(x)'
  BY StaysFit
<1> QED BY <1>1 DEF SessionsFit

LEMMA SameGoesOn ==
  ASSUME Rest, \A s \in Session : reg'[s].status = reg[s].status, astray \subseteq astray'
  PROVE  GoesOn
BY DEF GoesOn

(* Requests are only given up or left alone.                                *)
LEMMA GivenUp ==
  ASSUME Rest, \/ ask' = ask
               \/ \E q \in Request : ask' = [ask EXCEPT ![q] = NoRequest]
               \/ \E t \in Sale : ask' = Forget(t)
  PROVE  \A x \in Sale : AskSame(x)
<1> TAKE x \in Sale
<1>1. NoRequest.sale # x
  BY CheckoutAssumption DEF NoRequest, CheckoutAssumption
<1>2. ask \in [Request -> AskRow]
  BY DEF Rest, Till
<1> QED BY <1>1, <1>2 DEF AskSame, Forget

LEMMA DraftSessions ==
  ASSUME Inv, Rest, SessionsFit, NEW t \in Sale, NEW n \in Nat,
         CreateTransaction(t, n) \/ ReplaceItems(t, n) \/ DiscardDraft(t) \/ NextDay
  PROVE  SessionsFit'
<1>1. UNCHANGED <<busy, reg, astray>> /\ (ask' = ask \/ ask' = Forget(t))
  BY DEF CreateTransaction, ReplaceItems, DiscardDraft, NextDay, till
<1>2. ASSUME NEW x \in Sale
      PROVE  /\ sale'[x].session = sale[x].session
             /\ sale'[x].status \in {"none", "draft"} => sale[x].status \in {"none", "draft"}
             /\ sale'[x].status \in Sold => sale[x].status \in Sold
  <2>1. sale[x] \in SaleRow /\ sale \in [Sale -> SaleRow]
    BY DEF Inv, Rows
  <2>2. \/ sale'[x] = sale[x]
        \/ sale'[x] = [sale[x] EXCEPT !.status = "draft", !.total = n] /\ sale[x].status = "none"
        \/ sale'[x] = [sale[x] EXCEPT !.total = n]
        \/ sale'[x] = [sale[x] EXCEPT !.status = "voided"]
        \/ sale'[x] = [sale[x] EXCEPT !.sameDay = FALSE]
    BY <2>1 DEF CreateTransaction, ReplaceItems, DiscardDraft, NextDay
  <2> QED BY <2>1, <2>2 DEF SaleRow, Sold
<1>3. GoesOn
  BY <1>1, SameGoesOn
<1>4. \A x \in Sale : AskSame(x)
  BY <1>1, GivenUp
<1> QED BY <1>1, <1>2, <1>3, <1>4, AllFit

LEMMA QuietSessions ==
  ASSUME Inv, Rest, SessionsFit, UNCHANGED <<sale, busy>>, GoesOn, \A x \in Sale : AskSame(x)
  PROVE  SessionsFit'
BY AllFit

LEMMA TillSessions ==
  ASSUME Inv, Rest, SessionsFit, UNCHANGED <<sale, busy, reg, ask, astray>>
  PROVE  SessionsFit'
<1>1. GoesOn
  BY SameGoesOn
<1>2. \A x \in Sale : AskSame(x)
  BY GivenUp
<1> QED BY <1>1, <1>2, QuietSessions

LEMMA FoundOpen ==
  ASSUME Rest, NEW t \in Sale, t \notin Found(t)
  PROVE  OpenSession \in Session /\ reg[OpenSession].status = "open" /\ t \notin astray
BY OpenOne DEF Found

(* An operation begins on t, or finds the drawer.                           *)
LEMMA StartsFit ==
  ASSUME Inv, Rest, SessionsFit, NEW t \in Sale, NEW b \in Op,
         UNCHANGED <<sale, reg, ask>>, busy' = [busy EXCEPT ![t] = b], pay' = pay,
         astray \subseteq astray', b.session \in {OpenSession, NoSession},
         b.op \in {"void", "payout"} => (OriginalOpen(t) => b.open),
         b.op \in {"no", "void"} => b.session = NoSession,
         b.op = "payout" => ~b.open /\ sale[t].session # NoSession,
         b.op = "refund" /\ b.parts["cash"] = 0 => b.session = NoSession,
         b.op = "void" /\ b.open => OriginalOpen(t),
         t \notin astray' =>
           (b.op \in {"complete", "payout"} \/ (b.op = "refund" /\ b.parts["cash"] > 0)
              => b.session \in Session)
  PROVE  SessionsFit'
<1>1. GoesOn
  BY SameGoesOn
<1>2. \A x \in Sale : AskSame(x)
  BY GivenUp
<1>3. busy \in [Sale -> Op] /\ pay \in [Sale -> [Method -> Slot]] /\ sale \in [Sale -> SaleRow]
  BY DEF Inv, Rows
<1>4. Only(t) /\ busy'[t] = b /\ sale'[t] = sale[t]
  BY <1>3 DEF Only
<1>5. SessionFits(t)
  BY DEF SessionsFit
<1>6. b.session \in Session => reg[b.session].status = "open"
  BY OpenOne, CheckoutAssumption DEF CheckoutAssumption
<1>7. OriginalOpen(t)' = OriginalOpen(t)
  BY <1>4 DEF OriginalOpen
<1>8. t \notin astray' => Reads(t)'
  <2> SUFFICES ASSUME t \notin astray' PROVE Reads(t)'
    OBVIOUS
  <2>1. Reads(t)
    BY <1>5 DEF SessionFits
  <2>2. ASSUME NEW s \in Session, UsesOpen(t, s)' PROVE reg[s].status = "open"
    <3>1. \/ b.session = s
          \/ b.op = "void" /\ b.open /\ sale[t].session = s
          \/ \E q \in Request : ask[q].sale = t /\ ask[q].session = s
      BY <1>4, <2>2 DEF UsesOpen
    <3>2. CASE b.session = s
      BY <1>6, <3>2
    <3>3. CASE b.op = "void" /\ b.open /\ sale[t].session = s
      BY <3>3 DEF OriginalOpen
    <3>4. CASE \E q \in Request : ask[q].sale = t /\ ask[q].session = s
      BY <2>1, <3>4 DEF Reads, UsesOpen
    <3> QED BY <3>1, <3>2, <3>3, <3>4
  <2>3. NoSession \notin Session
    BY CheckoutAssumption DEF CheckoutAssumption
  <2> QED BY <1>4, <1>7, <2>1, <2>2, <2>3 DEF Reads
<1>9. b.session # NoSession => reg[b.session].status # "none"
  BY OpenOne
<1>10. SessionFits(t)'
  BY <1>4, <1>5, <1>7, <1>8, <1>9 DEF SessionFits
<1> QED BY <1>1, <1>2, <1>4, <1>10, OneFits

LEMMA BeginSessions ==
  ASSUME Inv, Inv', Rest, SessionsFit, NEW t \in Sale, NEW a \in Nat,
         BeginComplete(t) \/ BeginRefund(t, a) \/ BeginVoid(t) \/ FindDrawer(t) \/ Abort(t)
  PROVE  SessionsFit'
<1>1. UNCHANGED <<sale, pay, reg, ask>>
  BY DEF BeginComplete, BeginRefund, BeginVoid, FindDrawer, Abort, till
<1>2. astray \subseteq astray'
  BY FoundType DEF BeginComplete, BeginRefund, BeginVoid, FindDrawer, Abort, till
<1>3. busy \in [Sale -> Op] /\ busy' \in [Sale -> Op] /\ SessionFits(t)
  BY DEF Inv, Rows, SessionsFit
<1>4. CASE BeginComplete(t)
  <2> DEFINE b == [Idle EXCEPT !.op = "complete", !.session = OpenSession]
  <2>1. busy' = [busy EXCEPT ![t] = b] /\ astray' = Found(t)
    BY <1>4 DEF BeginComplete
  <2>2. b \in Op
    BY <1>3, <2>1
  <2>3. b.op = "complete" /\ b.session = OpenSession
    BY DEF Idle
  <2> HIDE DEF b
  <2> QED BY <1>1, <1>2, <2>1, <2>2, <2>3, FoundOpen, StartsFit
<1>5. CASE BeginRefund(t, a)
  <2> DEFINE parts == RefundParts(t, a)
             s == IF parts["cash"] > 0 THEN OpenSession ELSE NoSession
             b == [op |-> "refund", open |-> FALSE, session |-> s, parts |-> parts]
  <2>1. busy' = [busy EXCEPT ![t] = b] /\ astray' = IF parts["cash"] > 0 THEN Found(t) ELSE astray
    BY <1>5 DEF BeginRefund
  <2>2. b \in Op
    BY <1>3, <2>1
  <2>3. b.op = "refund" /\ b.parts = parts /\ b.session = IF parts["cash"] > 0 THEN OpenSession ELSE NoSession
    OBVIOUS
  <2> HIDE DEF b, parts, s
  <2>4. parts["cash"] = 0 => ~(parts["cash"] > 0)
    OBVIOUS
  <2>5. t \notin astray' /\ parts["cash"] > 0 => OpenSession \in Session
    BY <2>1, FoundOpen
  <2> QED BY <1>1, <1>2, <2>1, <2>2, <2>3, <2>4, <2>5, StartsFit
<1>6. CASE BeginVoid(t)
  <2> DEFINE b == [Idle EXCEPT !.op = "void", !.open = OriginalOpen(t),
                               !.parts["online"] = Live(pay[t]["online"])]
  <2>1. busy' = [busy EXCEPT ![t] = b]
    BY <1>6 DEF BeginVoid
  <2>2. b \in Op
    BY <1>3, <2>1
  <2>3. b.op = "void" /\ b.open = OriginalOpen(t) /\ b.session = NoSession
    BY DEF Idle
  <2> HIDE DEF b
  <2> QED BY <1>1, <1>2, <2>1, <2>2, <2>3, StartsFit
<1>7. CASE FindDrawer(t)
  <2> DEFINE b == [busy[t] EXCEPT !.op = "payout", !.session = OpenSession]
  <2>1. busy' = [busy EXCEPT ![t] = b] /\ astray' = Found(t)
    BY <1>3, <1>7 DEF FindDrawer
  <2>2. b \in Op
    BY <1>3, <2>1
  <2>3. b.op = "payout" /\ b.session = OpenSession /\ b.open = busy[t].open
    BY <1>3 DEF Op
  <2> HIDE DEF b
  <2>4. ~busy[t].open /\ sale[t].session # NoSession /\ busy[t].op = "void"
    BY <1>7 DEF FindDrawer, OwesDrawer
  <2>5. ~OriginalOpen(t)
    BY <1>3, <2>4 DEF SessionFits
  <2> QED BY <1>1, <1>2, <2>1, <2>2, <2>3, <2>4, <2>5, FoundOpen, StartsFit
<1>8. CASE Abort(t)
  <2>1. busy' = [busy EXCEPT ![t] = Idle]
    BY <1>8 DEF Abort
  <2>2. Idle \in Op /\ Idle.op = "no" /\ Idle.session = NoSession
    BY DEF Idle, Op, Nothing, Parts, Amount
  <2> QED BY <1>1, <1>2, <2>1, <2>2, StartsFit
<1> QED BY <1>4, <1>5, <1>6, <1>7, <1>8

LEMMA CommitCompleteSessions ==
  ASSUME Inv, Rest, SessionsFit, NEW t \in Sale, CommitComplete(t) PROVE SessionsFit'
<1> DEFINE used == pay[t]["point"].amt
           earned == PointsFor(sale[t].total - used)
           s == [sale[t] EXCEPT !.status = "completed", !.session = busy[t].session,
                                !.used = used, !.earned = earned]
<1>1. /\ sale' = [sale EXCEPT ![t] = s] /\ UNCHANGED <<pay, reg, ask, astray>>
      /\ busy' = [busy EXCEPT ![t] = Idle] /\ busy[t].op = "complete"
  BY DEF CommitComplete, till
<1>2. Only(t) /\ sale'[t] = s /\ busy'[t] = Idle
  BY <1>1 DEF Inv, Rows, Only
<1>3. s.status = "completed" /\ s.session = busy[t].session
  <2>1. sale[t] \in SaleRow
    BY DEF Inv, Rows
  <2> QED BY <2>1 DEF SaleRow
<1> HIDE DEF s
<1>4. GoesOn
  BY <1>1, SameGoesOn
<1>5. \A x \in Sale : AskSame(x)
  BY <1>1, GivenUp
<1>6. SessionFits(t)'
  <2>1. SessionFits(t)
    BY DEF SessionsFit
  <2>2. t \notin astray => Reads(t)'
    <3> SUFFICES ASSUME t \notin astray PROVE Reads(t)'
      OBVIOUS
    <3>1. Reads(t)
      BY <2>1 DEF SessionFits
    <3>2. \A x \in Session : UsesOpen(t, x)' => UsesOpen(t, x)
      BY <1>1, <1>2, CheckoutAssumption DEF UsesOpen, Idle, CheckoutAssumption
    <3> QED BY <1>1, <1>2, <1>3, <3>1, <3>2 DEF Reads, Idle
  <2> QED BY <1>1, <1>2, <1>3, <2>1, <2>2 DEF SessionFits, Idle, Sold
<1> QED BY <1>2, <1>4, <1>5, <1>6, OneFits

(* The status of a sold sale after its refunds were derived anew.           *)
LEMMA SyncedStatus ==
  ASSUME NEW t, NEW p, sale[t] \in SaleRow
  PROVE  /\ Synced(t, p).session = sale[t].session /\ Synced(t, p).status \in Sold
         /\ \A r : /\ [Synced(t, p) EXCEPT !.returned = r].session = sale[t].session
                   /\ [Synced(t, p) EXCEPT !.returned = r].status \in Sold
<1> DEFINE st == IF RepaidOf(t, p) = 0 THEN "completed"
                 ELSE IF RepaidOf(t, p) = sale[t].total THEN "refunded" ELSE "partially_refunded"
           y == Synced(t, p)
<1>1. y.session = sale[t].session /\ y.status = st
  BY DEF Synced, SaleRow
<1>2. st \in Sold
  BY DEF Sold
<1>3. \A r : /\ [y EXCEPT !.returned = r].session = y.session
             /\ [y EXCEPT !.returned = r].status = y.status
  BY DEF Synced, SaleRow
<1> HIDE DEF y, st
<1> QED BY <1>1, <1>2, <1>3 DEF y

(* A refund from outside the till changes one payment, and of the sale its  *)
(* status among the sold ones.                                              *)
LEMMA RefundPaymentRow ==
  ASSUME Inv, NEW t \in Sale, NEW m \in Method, NEW a \in Nat, RefundPayment(t, m, a)
  PROVE  /\ Only(t) /\ busy' = busy
         /\ sale'[t].session = sale[t].session
         /\ sale'[t].status \in Sold <=> sale[t].status \in Sold
         /\ sale'[t].status \in {"none", "draft"} => sale[t].status \in {"none", "draft"}
         /\ \A x \in Method : pay'[t][x].amt = pay[t][x].amt
         /\ pay'[t][m].ref = pay[t][m].ref + a
         /\ \A x \in Method \ {m} : pay'[t][x].ref = pay[t][x].ref
<1> DEFINE p == [pay[t] EXCEPT ![m].ref = @ + a]
<1>1. pay' = [pay EXCEPT ![t] = p] /\ SyncRefundState(t, p) /\ UNCHANGED busy
  BY DEF RefundPayment
<1>2. pay[t] \in [Method -> Slot] /\ pay \in [Sale -> [Method -> Slot]] /\ sale \in [Sale -> SaleRow]
  BY DEF Inv, Rows
<1>3. /\ \A x \in Method : p[x].amt = pay[t][x].amt
      /\ p[m].ref = pay[t][m].ref + a
      /\ \A x \in Method \ {m} : p[x].ref = pay[t][x].ref
  BY <1>2 DEF Slot
<1>4. pay'[t] = p
  BY <1>1, <1>2
<1> HIDE DEF p
<1>5. /\ Only(t) /\ sale'[t].session = sale[t].session
      /\ sale'[t].status \in Sold <=> sale[t].status \in Sold
      /\ sale'[t].status \in {"none", "draft"} => sale[t].status \in {"none", "draft"}
  <2>1. CASE sale[t].status \in Sold
    <3>1. sale' = [sale EXCEPT ![t] = Synced(t, p)]
      BY <1>1, <2>1 DEF SyncRefundState
    <3>2. Synced(t, p).session = sale[t].session /\ Synced(t, p).status \in Sold
      BY <1>2, SyncedStatus
    <3> QED BY <1>1, <1>2, <2>1, <3>1, <3>2 DEF Only, Sold
  <2>2. CASE sale[t].status \notin Sold
    BY <1>1, <1>2, <2>2 DEF SyncRefundState, Only
  <2> QED BY <2>1, <2>2
<1> QED BY <1>1, <1>3, <1>4, <1>5

LEMMA RefundsSessions ==
  ASSUME Inv, Rest, SessionsFit, NEW t \in Sale, NEW a \in Nat,
         RefundOnline(t, a) \/ \E q \in Request : RefundCash(q, t, a)
  PROVE  SessionsFit'
<1>0. "online" \in Method /\ "cash" \in Method /\ t \in Line
  BY DEF Method, Line
<1>1. PICK m \in Method : RefundPayment(t, m, a)
  BY <1>0 DEF RefundOnline, RefundCash
<1>2. \A s \in Session : reg'[s].status = reg[s].status
  <2>1. ASSUME NEW q \in Request, RefundCash(q, t, a) PROVE \A s \in Session : reg'[s].status = reg[s].status
    <3>1. ask[q].session \in Session \cup {NoSession}
      BY DEF Rest, Till, AskRow
    <3> QED BY <1>0, <2>1, <3>1, TakenReg DEF RefundCash
  <2> QED BY <2>1 DEF RefundOnline
<1>3. astray' = astray
  BY <1>1 DEF RefundPayment
<1>4. GoesOn
  BY <1>2, <1>3, SameGoesOn
<1>5. \A x \in Sale : AskSame(x)
  BY GivenUp DEF RefundOnline, RefundCash
<1>6. ASSUME NEW x \in Sale
      PROVE  /\ sale'[x].session = sale[x].session
             /\ sale'[x].status \in {"none", "draft"} => sale[x].status \in {"none", "draft"}
             /\ sale'[x].status \in Sold => sale[x].status \in Sold
  BY <1>1, RefundPaymentRow DEF Only
<1>7. busy' = busy
  BY <1>1, RefundPaymentRow
<1> QED BY <1>4, <1>5, <1>6, <1>7, AllFit

LEMMA CommitRefundRow ==
  ASSUME Inv, NEW t \in Sale, NEW restock \in BOOLEAN, CommitRefund(t, restock)
  PROVE  /\ Only(t) /\ busy'[t] = Idle
         /\ sale'[t].session = sale[t].session /\ sale'[t].status \in Sold /\ sale[t].status \in Sold
         /\ pay'[t]["cash"].amt = pay[t]["cash"].amt
         /\ pay'[t]["cash"].ref = pay[t]["cash"].ref + busy[t].parts["cash"]
<1> DEFINE p == [m \in Method |-> [pay[t][m] EXCEPT !.ref = @ + busy[t].parts[m]]]
           r == Synced(t, p).returned \/ restock
<1>1. /\ pay' = [pay EXCEPT ![t] = p] /\ busy' = [busy EXCEPT ![t] = Idle] /\ busy[t].op = "refund"
      /\ sale' = [sale EXCEPT ![t] = [Synced(t, p) EXCEPT !.returned = r]]
  BY DEF CommitRefund
<1>2. pay[t] \in [Method -> Slot] /\ pay \in [Sale -> [Method -> Slot]] /\ sale \in [Sale -> SaleRow]
  BY DEF Inv, Rows
<1>3. p["cash"].amt = pay[t]["cash"].amt /\ p["cash"].ref = pay[t]["cash"].ref + busy[t].parts["cash"]
  BY <1>2 DEF Method, Slot
<1> HIDE DEF p, r
<1>4. /\ Only(t) /\ sale'[t] = [Synced(t, p) EXCEPT !.returned = r] /\ pay'[t] = p
      /\ busy'[t] = Idle
  BY <1>1 DEF Inv, Rows, Only
<1>5. sale'[t].session = sale[t].session /\ sale'[t].status \in Sold
  BY <1>2, <1>4, SyncedStatus
<1>6. sale[t].status \in Sold
  BY <1>1 DEF Inv, Good, BusyFits, Sold
<1> QED BY <1>3, <1>4, <1>5, <1>6

LEMMA CommitRefundSessions ==
  ASSUME Inv, Rest, SessionsFit, NEW t \in Sale, NEW restock \in BOOLEAN, CommitRefund(t, restock)
  PROVE  SessionsFit'
<1>1. busy[t].parts["cash"] \in Nat /\ busy[t].session \in Session \cup {NoSession} /\ t \in Line
  BY PartsType DEF Method, Line
<1>2. \A s \in Session : reg'[s].status = reg[s].status
  <2>1. reg' = TakenFrom(busy[t].session, t, busy[t].parts["cash"])
    BY DEF CommitRefund
  <2>2. busy[t].parts["cash"] \in Int
    BY <1>1
  <2> QED BY <1>1, <2>1, <2>2, TakenReg
<1>3. GoesOn
  BY <1>2, SameGoesOn DEF CommitRefund
<1>4. \A x \in Sale : AskSame(x)
  BY GivenUp DEF CommitRefund
<1>5. SessionFits(t)'
  BY <1>3, <1>4, CommitRefundRow, ClearedFit DEF Sold
<1> QED BY <1>3, <1>4, <1>5, CommitRefundRow, OneFits

LEMMA CommitVoidRow ==
  ASSUME Inv, NEW t \in Sale, CommitVoid(t)
  PROVE  /\ Only(t) /\ busy'[t] = Idle
         /\ sale'[t].session = sale[t].session /\ sale'[t].status = "voided"
         /\ sale[t].status = "completed"
         /\ pay'[t]["cash"].amt = 0 /\ pay'[t]["cash"].ref = 0 /\ pay[t]["cash"].ref = 0
<1> DEFINE s == [sale[t] EXCEPT !.status = "voided", !.gaveBack = @ + sale[t].used,
                                !.tookBack = @ + VoidTakes(t)]
           p == [pay[t] EXCEPT !["online"].ref = @ + busy[t].parts["online"], !["cash"] = Empty,
                               !["point"] = Empty]
<1>1. sale' = [sale EXCEPT ![t] = s]
  BY DEF CommitVoid
<1>2. pay' = [pay EXCEPT ![t] = p] /\ busy' = [busy EXCEPT ![t] = Idle] /\ pay[t]["cash"].ref = 0
  BY DEF CommitVoid
<1>3. busy[t].op \in {"void", "payout"}
  BY DEF CommitVoid
<1>4. p["cash"] = Empty
  <2>1. pay[t] \in [Method -> Slot]
    BY DEF Inv, Rows
  <2> QED BY <2>1 DEF Method
<1> HIDE DEF p
<1>5. s.session = sale[t].session /\ s.status = "voided"
  <2>1. sale[t] \in SaleRow
    BY DEF Inv, Rows
  <2> QED BY <2>1 DEF SaleRow
<1> HIDE DEF s
<1>6. Only(t) /\ sale'[t] = s /\ pay'[t] = p /\ busy'[t] = Idle
  BY <1>1, <1>2 DEF Inv, Rows, Only
<1>7. sale[t].status = "completed"
  BY <1>3 DEF Inv, Good, BusyFits
<1> QED BY <1>2, <1>4, <1>5, <1>6, <1>7 DEF Empty

LEMMA CommitVoidSessions ==
  ASSUME Inv, Rest, SessionsFit, NEW t \in Sale, CommitVoid(t) PROVE SessionsFit'
<1>1. pay[t]["cash"].amt \in Nat /\ busy[t].session \in Session \cup {NoSession} /\ t \in Line
  BY CashType, PartsType DEF Method, Line
<1>2. \A s \in Session : reg'[s].status = reg[s].status
  BY <1>1, TakenReg DEF CommitVoid
<1>3. GoesOn
  BY <1>2, SameGoesOn DEF CommitVoid
<1>4. \A x \in Sale : AskSame(x)
  BY GivenUp DEF CommitVoid
<1>5. SessionFits(t)'
  BY <1>3, <1>4, CommitVoidRow, ClearedFit DEF Sold
<1> QED BY <1>3, <1>4, <1>5, CommitVoidRow, OneFits

LEMMA RegisterSessions ==
  ASSUME Inv, Rest, SessionsFit, NEW s \in Session,
         OpenRegister(s) \/ CloseRegister(s) \/ AddCashMovement(s, 1)
  PROVE  SessionsFit'
<1>0. reg \in [Session -> RegRow]
  BY DEF Rest, Till
<1>1. UNCHANGED <<sale, busy, ask>>
  BY DEF OpenRegister, CloseRegister, AddCashMovement, money
<1>2. GoesOn
  <2>1. CASE OpenRegister(s)
    BY <1>0, <2>1 DEF OpenRegister, GoesOn, RegRow
  <2>2. CASE CloseRegister(s)
    <3>1. \A o \in Session \ {s} : reg'[o] = reg[o]
      BY <1>0, <2>2 DEF CloseRegister
    <3>2. reg'[s].status = "closed" /\ reg[s].status = "open"
      BY <1>0, <2>2 DEF CloseRegister, RegRow
    <3>3. astray' = astray \cup {t \in Sale : UsesOpen(t, s)}
      BY <2>2 DEF CloseRegister
    <3> QED BY <3>1, <3>2, <3>3 DEF GoesOn
  <2>3. CASE AddCashMovement(s, 1)
    <3>1. NoSale \in Line /\ s \in Session \cup {NoSession} /\ 1 \in Int
      BY DEF Line
    <3>2. \A o \in Session : reg'[o].status = reg[o].status
      BY <2>3, <3>1, TakenReg DEF AddCashMovement
    <3> QED BY <2>3, <3>2, SameGoesOn DEF AddCashMovement
  <2> QED BY <2>1, <2>2, <2>3
<1>3. \A x \in Sale : AskSame(x)
  BY <1>1, GivenUp
<1> QED BY <1>1, <1>2, <1>3, QuietSessions

LEMMA AskSessions ==
  ASSUME Inv, Rest, SessionsFit, NEW q \in Request, NEW t \in Sale, AskRefund(q, t)
  PROVE  SessionsFit'
<1>1. /\ ask' = [ask EXCEPT ![q] = [sale |-> t, session |-> OpenSession]] /\ astray' = Found(t)
      /\ UNCHANGED <<sale, busy, reg>>
  BY DEF AskRefund, money
<1>2. ask \in [Request -> AskRow]
  BY DEF Rest, Till
<1>3. \A x \in Sale \ {t} : AskSame(x)
  BY <1>1, <1>2 DEF AskSame
<1>4. GoesOn
  BY <1>1, FoundType, SameGoesOn
<1>5. SessionFits(t)'
  <2>1. SessionFits(t)
    BY DEF SessionsFit
  <2>2. t \notin astray' => Reads(t)'
    <3> SUFFICES ASSUME t \notin astray' PROVE Reads(t)'
      OBVIOUS
    <3>1. Reads(t) /\ OpenSession \in Session /\ reg[OpenSession].status = "open"
      BY <1>1, <2>1, FoundOpen DEF SessionFits
    <3>2. \A x \in Session : UsesOpen(t, x)' => UsesOpen(t, x) \/ x = OpenSession
      BY <1>1, <1>2 DEF UsesOpen
    <3>3. NoSession \notin Session
      BY CheckoutAssumption DEF CheckoutAssumption
    <3>4. \A p \in Request : ask'[p].sale = t => ask'[p].session # NoSession
      BY <1>1, <1>2, <3>1, <3>3 DEF Reads
    <3>5. OriginalOpen(t)' = OriginalOpen(t)
      BY <1>1 DEF OriginalOpen
    <3> QED BY <1>1, <3>1, <3>2, <3>4, <3>5 DEF Reads
  <2>3. OriginalOpen(t)' = OriginalOpen(t)
    BY <1>1 DEF OriginalOpen
  <2> QED BY <1>1, <2>1, <2>2, <2>3 DEF SessionFits
<1>6. ASSUME NEW x \in Sale \ {t} PROVE SessionFits(x)'
  BY <1>1, <1>3, <1>4, StaysFit
<1> QED BY <1>5, <1>6 DEF SessionsFit

LEMMA NextSessions == Inv /\ Inv' /\ Rest /\ SessionsFit /\ [Next]_vars => SessionsFit'
<1> SUFFICES ASSUME Inv, Inv', Rest, SessionsFit, [Next]_vars PROVE SessionsFit'
  OBVIOUS
<1>1. CASE UNCHANGED vars
  BY <1>1, TillSessions DEF vars
<1>2. ASSUME NEW t \in Sale, NEW n \in 0..Price[t],
             \/ CreateTransaction(t, n) \/ ReplaceItems(t, n) \/ SetPointUse(t, n) \/ BeginRefund(t, n)
             \/ \E m \in Method : AddPayment(t, m, n)
             \/ RefundOnline(t, n) \/ \E q \in Request : RefundCash(q, t, n)
      PROVE  SessionsFit'
  <2>1. n \in Nat
    BY CheckoutAssumption DEF CheckoutAssumption
  <2>2. CASE CreateTransaction(t, n) \/ ReplaceItems(t, n)
    BY <2>1, <2>2, DraftSessions
  <2>3. CASE SetPointUse(t, n) \/ \E m \in Method : AddPayment(t, m, n)
    BY <2>3, TillSessions DEF SetPointUse, AddPayment, till
  <2>4. CASE RefundOnline(t, n) \/ \E q \in Request : RefundCash(q, t, n)
    BY <2>1, <2>4, RefundsSessions
  <2>5. CASE BeginRefund(t, n)
    BY <2>1, <2>5, BeginSessions
  <2> QED
    BY <1>2, <2>2, <2>3, <2>4, <2>5
<1>3. ASSUME NEW t \in Sale,
             \/ \E ok \in BOOLEAN : SettleOnline(t, ok) \/ CommitRefund(t, ok)
             \/ \E m \in Method : RemovePayment(t, m)
             \/ DiscardDraft(t) \/ BeginComplete(t) \/ CommitComplete(t) \/ Abort(t)
             \/ BeginVoid(t) \/ FindDrawer(t) \/ CommitVoid(t) \/ RefundFails(t)
             \/ \E q \in Request : AskRefund(q, t)
      PROVE  SessionsFit'
  <2>0. 0 \in Nat OBVIOUS
  <2>1. CASE RefundFails(t) \/ \E ok \in BOOLEAN : SettleOnline(t, ok)
    BY <2>1, TillSessions DEF SettleOnline, RefundFails, till
  <2>2. CASE \E m \in Method : RemovePayment(t, m)
    <3>1. UNCHANGED <<sale, busy, reg, astray>> /\ (ask' = ask \/ ask' = Forget(t))
      BY <2>2 DEF RemovePayment
    <3>2. GoesOn
      BY <3>1, SameGoesOn
    <3>3. \A x \in Sale : AskSame(x)
      BY <3>1, GivenUp
    <3> QED BY <3>1, <3>2, <3>3, QuietSessions
  <2>3. CASE BeginComplete(t) \/ Abort(t) \/ BeginVoid(t) \/ FindDrawer(t)
    BY <2>0, <2>3, BeginSessions
  <2>4. CASE DiscardDraft(t)
    BY <2>0, <2>4, DraftSessions
  <2>5. CASE \E q \in Request : AskRefund(q, t)
    BY <2>5, AskSessions
  <2> QED
    BY <1>3, <2>1, <2>2, <2>3, <2>4, <2>5, CommitRefundSessions, CommitCompleteSessions, CommitVoidSessions
<1>4. ASSUME NEW s \in Session, OpenRegister(s) \/ CloseRegister(s) \/ AddCashMovement(s, 1)
      PROVE  SessionsFit'
  BY <1>4, RegisterSessions
<1>5. CASE PointsAge \/ ExpireRead \/ ExpireApply \/ NextDay
  <2>1. CASE PointsAge \/ ExpireRead \/ ExpireApply
    BY <2>1, TillSessions DEF PointsAge, ExpireRead, ExpireApply, money, till
  <2>2. CASE NextDay
    <3>1. PICK t \in Sale : TRUE
      BY <2>2 DEF NextDay
    <3>2. 0 \in Nat OBVIOUS
    <3> QED BY <2>2, <3>1, <3>2, DraftSessions
  <2> QED
    BY <1>5, <2>1, <2>2
<1>6. CASE \E q \in Request : RefuseRefund(q)
  <2>1. PICK q \in Request : RefuseRefund(q)
    BY <1>6
  <2>2. UNCHANGED <<sale, busy, reg, astray>> /\ ask' = [ask EXCEPT ![q] = NoRequest]
    BY <2>1 DEF RefuseRefund, money
  <2>3. GoesOn
    BY <2>2, SameGoesOn
  <2>4. \A x \in Sale : AskSame(x)
    BY <2>2, GivenUp
  <2> QED BY <2>2, <2>3, <2>4, QuietSessions
<1> QED
  BY <1>1, <1>2, <1>3, <1>4, <1>5, <1>6 DEF Next


-----------------------------------------------------------------------------
(* The cash, line by line.                                                  *)

(* What session s has counted of line x.                                    *)
Entry(s, x) == IF reg[s].status = "closed" THEN reg[s].booked[x] ELSE CashIn(s, x) + reg[s].rows[x]

LEMMA EntryIs ==
  /\ \A s \in Session, x \in Line : Counted(s)[x] = Entry(s, x)
  /\ \A s \in Session, x \in Line : Counted(s)'[x] = Entry(s, x)'
BY DEF Counted, Figures, Entry

LEMMA EntryType == ASSUME Inv, Rest, NEW s \in Session, NEW x \in Line PROVE Entry(s, x) \in Int
<1>1. reg[s].booked[x] \in Int
  BY DEF Rest, Till, RegRow, Figure
<1> QED BY <1>1, CashInType, RegType DEF Entry

LEMMA CashCountedIs ==
  ASSUME NEW x \in Line
  PROVE  /\ CashCounted(x) = SumFunctionOnSet([s \in Session |-> Entry(s, x)], Session)
         /\ CashCounted(x)' = SumFunctionOnSet([s \in Session |-> Entry(s, x)'], Session)
<1>1. [s \in Session |-> Counted(s)[x]] = [s \in Session |-> Entry(s, x)]
  BY EntryIs
<1>2. [s \in Session |-> Counted(s)'[x]] = [s \in Session |-> Entry(s, x)']
  BY EntryIs
<1> QED BY <1>1, <1>2 DEF CashCounted

LEMMA CountedSame ==
  ASSUME NEW x \in Line, \A s \in Session : Entry(s, x)' = Entry(s, x)
  PROVE  CashCounted(x)' = CashCounted(x)
<1>1. [s \in Session |-> Entry(s, x)] = [s \in Session |-> Entry(s, x)']
  OBVIOUS
<1> QED BY <1>1, CashCountedIs

LEMMA CountedOne ==
  ASSUME Inv, Rest, NEW x \in Line, NEW s \in Session, NEW d \in Int, Entry(s, x)' = Entry(s, x) + d,
         \A o \in Session \ {s} : Entry(o, x)' = Entry(o, x)
  PROVE  CashCounted(x)' = CashCounted(x) + d /\ CashCounted(x) \in Int
<1> DEFINE f == [o \in Session |-> Entry(o, x)]
           g == [o \in Session |-> Entry(o, x)']
<1>1. \A o \in Session : Entry(o, x) \in Int
  BY EntryType
<1>2. /\ \A o \in Session : f[o] \in Int
      /\ \A o \in Session \ {s} : f[o] = g[o]
      /\ f[s] \in Int /\ g[s] = f[s] + d
  BY <1>1
<1>3. IsFiniteSet(Session)
  BY CheckoutAssumption DEF CheckoutAssumption
<1>4. CashCounted(x) = SumFunctionOnSet(f, Session) /\ CashCounted(x)' = SumFunctionOnSet(g, Session)
  BY CashCountedIs
<1> HIDE DEF f, g
<1>5. SumFunctionOnSet(g, Session) = SumFunctionOnSet(f, Session) - f[s] + g[s]
  <2>1. \A o \in Session : f[o] \in Int /\ g[o] \in Int
    BY <1>2
  <2>2. \A o \in Session \ {s} : f[o] = g[o]
    BY <1>2
  <2>3. s \in Session
    OBVIOUS
  <2> QED BY ONLY <1>3, <2>1, <2>2, <2>3, SumUpdate
<1>6. SumFunctionOnSet(f, Session) \in Int
  BY <1>2, <1>3, SumType
<1> QED BY <1>2, <1>4, <1>5, <1>6

LEMMA KeptType == ASSUME Inv, Rest, NEW x \in Line PROVE CashKept(x) \in Int
<1>1. bounds.moves \in Nat
  BY DEF Rest, Counters
<1> QED BY <1>1, CashType DEF CashKept, Line

(* Most steps leave sold sales and the cash payments alone.                 *)
SameCashRow(x) ==
  /\ sale'[x].session = sale[x].session
  /\ sale'[x].status \in Sold <=> sale[x].status \in Sold
  /\ pay'[x]["cash"].ref = pay[x]["cash"].ref
  /\ \/ pay'[x]["cash"].amt = pay[x]["cash"].amt
     \/ sale[x].session = NoSession /\ sale[x].status \notin Sold

LEMMA LineStays ==
  ASSUME NEW x \in Line, CashCounted(x) = CashKept(x),
         x \in Sale => SameCashRow(x), bounds'.moves = bounds.moves,
         \A s \in Session : Entry(s, x)' = Entry(s, x)
  PROVE  CashCounted(x)' = CashKept(x)'
<1>1. CashKept(x)' = CashKept(x)
  BY CheckoutAssumption DEF CashKept, SameCashRow, Line, CheckoutAssumption
<1> QED BY <1>1, CountedSame

LEMMA SameEntry ==
  ASSUME NEW x \in Line, NEW s \in Session, x \in Sale => SameCashRow(x),
         reg'[s].status = reg[s].status, reg'[s].booked = reg[s].booked,
         reg'[s].rows[x] = reg[s].rows[x]
  PROVE  Entry(s, x)' = Entry(s, x)
<1>1. CashIn(s, x)' = CashIn(s, x)
  BY CheckoutAssumption DEF CashIn, SameCashRow, CheckoutAssumption
<1> QED BY <1>1 DEF Entry

(* A step that touches neither sessions nor what they count.                *)
LEMMA QuietCash ==
  ASSUME CashBooked, astray \subseteq astray', bounds'.moves = bounds.moves, reg' = reg,
         \A x \in Sale : SameCashRow(x)
  PROVE  CashBooked'
<1> SUFFICES ASSUME NEW x \in Line, x \notin astray' PROVE CashCounted(x)' = CashKept(x)'
  BY DEF CashBooked
<1>1. CashCounted(x) = CashKept(x)
  BY DEF CashBooked
<1>2. \A s \in Session : Entry(s, x)' = Entry(s, x)
  BY SameEntry
<1> QED BY <1>1, <1>2, LineStays

LEMMA UntouchedCash ==
  ASSUME CashBooked, UNCHANGED <<sale, pay, reg>>, bounds'.moves = bounds.moves, astray \subseteq astray'
  PROVE  CashBooked'
BY QuietCash DEF SameCashRow

LEMMA DraftCash ==
  ASSUME Inv, CashBooked, NEW t \in Sale, NEW n \in Nat,
         CreateTransaction(t, n) \/ ReplaceItems(t, n) \/ NextDay
  PROVE  CashBooked'
<1>1. UNCHANGED <<pay, reg, astray, bounds>>
  BY DEF CreateTransaction, ReplaceItems, NextDay, till
<1>2. ASSUME NEW x \in Sale PROVE SameCashRow(x)
  <2>1. sale[x] \in SaleRow /\ sale \in [Sale -> SaleRow]
    BY DEF Inv, Rows
  <2>2. \/ sale'[x] = sale[x]
        \/ sale'[x] = [sale[x] EXCEPT !.status = "draft", !.total = n] /\ sale[x].status = "none"
        \/ sale'[x] = [sale[x] EXCEPT !.total = n]
        \/ sale'[x] = [sale[x] EXCEPT !.sameDay = FALSE]
    BY <2>1 DEF CreateTransaction, ReplaceItems, NextDay
  <2>3. sale'[x].session = sale[x].session /\ (sale'[x].status \in Sold <=> sale[x].status \in Sold)
    BY <2>1, <2>2 DEF SaleRow, Sold
  <2> QED BY <1>1, <2>3 DEF SameCashRow
<1> QED BY <1>1, <1>2, QuietCash

(* Payments of a draft.                                                     *)
LEMMA DraftPayCash ==
  ASSUME Inv, SessionsFit, CashBooked, NEW t \in Sale, NEW p,
         UNCHANGED <<sale, reg, astray, bounds>>, pay' = [pay EXCEPT ![t] = p],
         sale[t].status = "draft", p["cash"].ref = pay[t]["cash"].ref
  PROVE  CashBooked'
<1>1. pay \in [Sale -> [Method -> Slot]]
  BY DEF Inv, Rows
<1>2. sale[t].session = NoSession /\ sale[t].status \notin Sold
  BY DEF SessionsFit, SessionFits, Sold
<1>3. ASSUME NEW x \in Sale PROVE SameCashRow(x)
  BY <1>1, <1>2 DEF SameCashRow
<1> QED BY <1>3, QuietCash

LEMMA AddPaymentCash ==
  ASSUME Inv, SessionsFit, CashBooked, NEW t \in Sale, NEW m \in Method, NEW a \in Nat,
         AddPayment(t, m, a) \/ RemovePayment(t, m) \/ SetPointUse(t, a)
  PROVE  CashBooked'
<1>1. sale[t].status = "draft" /\ UNCHANGED <<sale, reg, astray, bounds>>
  BY DEF AddPayment, RemovePayment, SetPointUse, Draft, till
<1>2. pay[t] \in [Method -> Slot] /\ pay \in [Sale -> [Method -> Slot]]
  BY DEF Inv, Rows
<1>3. pay[t]["cash"].ref \in Nat /\ (pay[t]["cash"].st # "taken" => pay[t]["cash"].ref = 0)
  BY CashType
<1>4. CASE AddPayment(t, m, a)
  <2> DEFINE new == [st |-> IF m = "online" THEN "pending" ELSE "taken", amt |-> a, ref |-> 0]
  <2>1. pay' = [pay EXCEPT ![t] = [pay[t] EXCEPT ![m] = new]] /\ pay[t][m].st = "none"
    BY <1>2, <1>4 DEF AddPayment
  <2>2. [pay[t] EXCEPT ![m] = new]["cash"].ref = pay[t]["cash"].ref
    BY <1>2, <1>3, <2>1 DEF Method
  <2> QED BY <1>1, <2>1, <2>2, DraftPayCash
<1>5. CASE RemovePayment(t, m)
  <2>1. pay' = [pay EXCEPT ![t] = [pay[t] EXCEPT ![m] = Empty]] /\ pay[t][m].ref = 0
    BY <1>2, <1>5 DEF RemovePayment, Cancellable
  <2>2. [pay[t] EXCEPT ![m] = Empty]["cash"].ref = pay[t]["cash"].ref
    BY <1>2, <1>3, <2>1 DEF Method, Empty
  <2> QED BY <1>1, <2>1, <2>2, DraftPayCash
<1>6. CASE SetPointUse(t, a)
  <2> DEFINE new == IF a = 0 THEN Empty ELSE [st |-> "taken", amt |-> a, ref |-> 0]
  <2>1. pay' = [pay EXCEPT ![t] = [pay[t] EXCEPT !["point"] = new]]
    BY <1>2, <1>6 DEF SetPointUse
  <2>2. [pay[t] EXCEPT !["point"] = new]["cash"].ref = pay[t]["cash"].ref
    BY <1>2 DEF Method
  <2> QED BY <1>1, <2>1, <2>2, DraftPayCash
<1> QED BY <1>4, <1>5, <1>6

LEMMA DiscardCash ==
  ASSUME Inv, SessionsFit, CashBooked, NEW t \in Sale, DiscardDraft(t)
  PROVE  CashBooked'
<1> DEFINE p == [m \in Method |-> IF m = "online" /\ pay[t][m].st = "taken"
                                  THEN [pay[t][m] EXCEPT !.ref = pay[t][m].amt] ELSE Empty]
<1>1. /\ sale' = [sale EXCEPT ![t].status = "voided"] /\ pay' = [pay EXCEPT ![t] = p]
      /\ sale[t].status = "draft" /\ UNCHANGED <<reg, astray, bounds>>
      /\ pay[t]["cash"].st = "taken" => pay[t]["cash"].ref = 0
  BY DEF DiscardDraft, Draft
<1>2. p["cash"].ref = 0
  BY DEF Method, Empty
<1>3. pay \in [Sale -> [Method -> Slot]] /\ sale \in [Sale -> SaleRow]
  BY DEF Inv, Rows
<1>4. pay[t]["cash"].ref = 0
  BY <1>1, CashType
<1> HIDE DEF p
<1>5. sale[t].session = NoSession
  BY <1>1 DEF SessionsFit, SessionFits
<1>6. ASSUME NEW x \in Sale PROVE SameCashRow(x)
  <2>1. CASE x = t
    <3>1. sale'[t].session = NoSession /\ sale'[t].status = "voided" /\ pay'[t] = p
      BY <1>1, <1>3, <1>5 DEF SaleRow
    <3> QED BY <1>1, <1>2, <1>4, <1>5, <2>1, <3>1 DEF SameCashRow, Sold
  <2>2. CASE x # t
    BY <1>1, <1>3, <2>2 DEF SameCashRow
  <2> QED BY <2>1, <2>2
<1> QED BY <1>1, <1>6, QuietCash

(* Online money only.                                                       *)
LEMMA OnlineCash ==
  ASSUME Inv, Rest, CashBooked, NEW t \in Sale, NEW ok \in BOOLEAN,
         SettleOnline(t, ok) \/ RefundFails(t)
  PROVE  CashBooked'
<1>1. UNCHANGED <<sale, reg, astray>> /\ bounds'.moves = bounds.moves
  BY DEF SettleOnline, RefundFails, Rest, Counters, till
<1>2. pay \in [Sale -> [Method -> Slot]]
  BY DEF Inv, Rows
<1>3. ASSUME NEW x \in Sale PROVE pay'[x]["cash"] = pay[x]["cash"]
  BY <1>2 DEF SettleOnline, RefundFails, Method
<1>4. ASSUME NEW x \in Sale PROVE SameCashRow(x)
  BY <1>1, <1>3 DEF SameCashRow
<1> QED BY <1>1, <1>4, QuietCash

(* Cash of line x leaves the drawer: the other lines are not touched.       *)
LEMMA OtherLines ==
  ASSUME Inv, Rest, CashBooked, NEW x \in Line, NEW s \in Session \cup {NoSession}, NEW a \in Int,
         reg' = TakenFrom(s, x, a), astray \subseteq astray',
         \A y \in Sale \ {x} : SameCashRow(y), x # NoSale => bounds'.moves = bounds.moves,
         x \notin astray' => CashCounted(x)' = CashKept(x)'
  PROVE  CashBooked'
<1> SUFFICES ASSUME NEW y \in Line \ {x}, y \notin astray' PROVE CashCounted(y)' = CashKept(y)'
  BY DEF CashBooked
<1>1. CashCounted(y) = CashKept(y)
  BY DEF CashBooked
<1>2. ASSUME NEW o \in Session
      PROVE  /\ reg'[o].status = reg[o].status /\ reg'[o].booked = reg[o].booked
             /\ reg'[o].rows[y] = reg[o].rows[y]
  <2>1. /\ reg'[o].status = reg[o].status /\ reg'[o].booked = reg[o].booked
        /\ reg'[o].rows[y] = reg[o].rows[y] - IF o = s /\ y = x THEN a ELSE 0
    BY TakenReg
  <2>2. reg[o].rows[y] \in Int
    BY RegType
  <2> QED BY <2>1, <2>2
<1>3. y \in Sale => SameCashRow(y)
  OBVIOUS
<1>4. ASSUME NEW o \in Session PROVE Entry(o, y)' = Entry(o, y)
  BY <1>2, <1>3, SameEntry
<1>5. CashCounted(y)' = CashCounted(y)
  BY <1>4, CountedSame
<1>6. CashKept(y)' = CashKept(y)
  <2>1. CASE y \in Sale
    BY <1>3, <2>1, CheckoutAssumption DEF CashKept, SameCashRow, CheckoutAssumption
  <2>2. CASE y = NoSale
    BY <2>2 DEF CashKept
  <2> QED BY <2>1, <2>2 DEF Line
<1> QED BY <1>1, <1>5, <1>6

(* Cash of the sale t is refunded out of the open session s.                *)
LEMMA PaidBack ==
  ASSUME Inv, Rest, CashBooked, NEW t \in Sale, Only(t), astray' = astray,
         bounds'.moves = bounds.moves, NEW s \in Session \cup {NoSession}, NEW a \in Nat,
         reg' = TakenFrom(s, t, a), sale'[t].session = sale[t].session,
         sale'[t].status \in Sold <=> sale[t].status \in Sold,
         pay'[t]["cash"].amt = pay[t]["cash"].amt,
         pay'[t]["cash"].ref = pay[t]["cash"].ref + a,
         t \notin astray /\ a # 0 => s \in Session /\ reg[s].status = "open"
  PROVE  CashBooked'
<1>1. t \in Line /\ a \in Int
  BY DEF Line
<1>2. \A y \in Sale \ {t} : SameCashRow(y)
  BY DEF Only, SameCashRow
<1>3. ASSUME t \notin astray PROVE CashCounted(t)' = CashKept(t)'
  <2>1. CashCounted(t) = CashKept(t)
    BY <1>1, <1>3 DEF CashBooked
  <2>2. CashKept(t)' = CashKept(t) - a
    BY CashType, CheckoutAssumption DEF CashKept, CheckoutAssumption
  <2>3. ASSUME NEW o \in Session
        PROVE  /\ reg'[o].status = reg[o].status /\ reg'[o].booked = reg[o].booked
               /\ reg'[o].rows[t] = reg[o].rows[t] - IF o = s THEN a ELSE 0
               /\ reg[o].rows[t] \in Int /\ CashIn(o, t)' = CashIn(o, t) /\ CashIn(o, t) \in Int
    <3>1. /\ reg'[o].status = reg[o].status /\ reg'[o].booked = reg[o].booked
          /\ reg'[o].rows[t] = reg[o].rows[t] - IF o = s /\ t = t THEN a ELSE 0
      BY <1>1, TakenReg
    <3>2. reg[o].rows[t] \in Int /\ CashIn(o, t) \in Int
      BY <1>1, RegType, CashInType
    <3>3. CashIn(o, t)' = CashIn(o, t)
      BY DEF CashIn
    <3> QED BY <3>1, <3>2, <3>3
  <2>4. CASE a = 0
    <3>1. ASSUME NEW o \in Session PROVE Entry(o, t)' = Entry(o, t)
      BY <2>3, <2>4 DEF Entry
    <3>2. CashCounted(t)' = CashCounted(t)
      BY <1>1, <3>1, CountedSame
    <3>3. CashKept(t) \in Int
      BY <1>1, KeptType
    <3> QED BY <2>1, <2>2, <2>4, <3>2, <3>3
  <2>5. CASE a # 0
    <3>1. s \in Session /\ reg[s].status = "open"
      BY <1>3, <2>5
    <3>2. Entry(s, t)' = Entry(s, t) + (0 - a)
      BY <2>3, <3>1 DEF Entry
    <3>3. \A o \in Session \ {s} : Entry(o, t)' = Entry(o, t)
      BY <2>3 DEF Entry
    <3>4. 0 - a \in Int
      OBVIOUS
    <3>5. CashCounted(t)' = CashCounted(t) + (0 - a) /\ CashCounted(t) \in Int
      BY <1>1, <3>1, <3>2, <3>3, <3>4, CountedOne
    <3> QED BY <2>1, <2>2, <3>5
  <2> QED BY <2>4, <2>5
<1> QED BY <1>1, <1>2, <1>3, OtherLines

LEMMA RefundsCash ==
  ASSUME Inv, Rest, SessionsFit, CashBooked, NEW t \in Sale, NEW a \in Nat,
         RefundOnline(t, a) \/ \E q \in Request : RefundCash(q, t, a)
  PROVE  CashBooked'
<1>0. "online" \in Method /\ "cash" \in Method
  BY DEF Method
<1>1. CASE RefundOnline(t, a)
  <2>1. RefundPayment(t, "online", a) /\ reg' = reg
    BY <1>1 DEF RefundOnline
  <2>2. astray' = astray /\ bounds'.moves = bounds.moves
    BY <2>1 DEF RefundPayment, Rest, Counters
  <2>3. SameCashRow(t) /\ Only(t)
    BY <1>0, <2>1, RefundPaymentRow DEF SameCashRow
  <2>4. \A x \in Sale : SameCashRow(x)
    BY <2>3 DEF Only, SameCashRow
  <2> QED BY <2>1, <2>2, <2>4, QuietCash
<1>2. ASSUME NEW q \in Request, RefundCash(q, t, a) PROVE CashBooked'
  <2>1. RefundPayment(t, "cash", a) /\ reg' = TakenFrom(ask[q].session, t, a) /\ ask[q].sale = t
    BY <1>2 DEF RefundCash
  <2>2. astray' = astray /\ bounds'.moves = bounds.moves
    BY <2>1 DEF RefundPayment, Rest, Counters
  <2>3. ask[q].session \in Session \cup {NoSession}
    BY DEF Rest, Till, AskRow
  <2>4. t \notin astray => ask[q].session \in Session /\ reg[ask[q].session].status = "open"
    BY <2>1, <2>3 DEF SessionsFit, SessionFits, Reads, UsesOpen
  <2>5. /\ Only(t) /\ sale'[t].session = sale[t].session
        /\ sale'[t].status \in Sold <=> sale[t].status \in Sold
        /\ pay'[t]["cash"].amt = pay[t]["cash"].amt
        /\ pay'[t]["cash"].ref = pay[t]["cash"].ref + a
    BY <1>0, <2>1, RefundPaymentRow
  <2> QED BY <2>1, <2>2, <2>3, <2>4, <2>5, PaidBack
<1> QED BY <1>1, <1>2

LEMMA CommitRefundCash ==
  ASSUME Inv, Rest, SessionsFit, CashBooked, NEW t \in Sale, NEW restock \in BOOLEAN,
         CommitRefund(t, restock)
  PROVE  CashBooked'
<1> DEFINE s == busy[t].session
           a == busy[t].parts["cash"]
<1>1. reg' = TakenFrom(s, t, a) /\ busy[t].op = "refund" /\ astray' = astray
  BY DEF CommitRefund
<1>2. bounds'.moves = bounds.moves
  BY DEF CommitRefund, Rest, Counters
<1>3. a \in Nat /\ s \in Session \cup {NoSession}
  BY PartsType DEF Method
<1>4. t \notin astray /\ a # 0 => s \in Session /\ reg[s].status = "open"
  <2> SUFFICES ASSUME t \notin astray, a # 0 PROVE s \in Session /\ reg[s].status = "open"
    OBVIOUS
  <2>1. Reads(t)
    BY DEF SessionsFit, SessionFits
  <2>2. s \in Session
    BY <1>1, <1>3, <2>1 DEF Reads
  <2> QED BY <2>1, <2>2 DEF Reads, UsesOpen
<1>5. /\ Only(t) /\ sale'[t].session = sale[t].session
      /\ sale'[t].status \in Sold /\ sale[t].status \in Sold
      /\ pay'[t]["cash"].amt = pay[t]["cash"].amt
      /\ pay'[t]["cash"].ref = pay[t]["cash"].ref + a
  BY CommitRefundRow
<1> HIDE DEF s, a
<1> QED BY <1>1, <1>2, <1>3, <1>4, <1>5, PaidBack

LEMMA CommitCompleteCash ==
  ASSUME Inv, Rest, SessionsFit, CashBooked, NEW t \in Sale, CommitComplete(t)
  PROVE  CashBooked'
<1> DEFINE used == pay[t]["point"].amt
           earned == PointsFor(sale[t].total - used)
           r == [sale[t] EXCEPT !.status = "completed", !.session = busy[t].session,
                                !.used = used, !.earned = earned]
<1>1. /\ sale' = [sale EXCEPT ![t] = r] /\ UNCHANGED <<pay, reg, astray, bounds>>
      /\ busy[t].op = "complete"
  BY DEF CommitComplete, till
<1>2. r.status = "completed" /\ r.session = busy[t].session
  <2>1. sale[t] \in SaleRow
    BY DEF Inv, Rows
  <2> QED BY <2>1 DEF SaleRow
<1> HIDE DEF r
<1>3. sale'[t] = r /\ \A x \in Sale \ {t} : sale'[x] = sale[x]
  BY <1>1 DEF Inv, Rows
<1>4. sale[t].status = "draft"
  BY <1>1 DEF Inv, Good, BusyFits
<1>5. sale[t].session = NoSession /\ sale[t].status \notin Sold /\ "completed" \in Sold
  BY <1>4 DEF SessionsFit, SessionFits, Sold
<1>6. t \in Line /\ 0 \in Int /\ NoSession \in Session \cup {NoSession}
  BY DEF Line
<1>7. reg' = TakenFrom(NoSession, t, 0)
  BY <1>1 DEF TakenFrom
<1>8. \A y \in Sale \ {t} : SameCashRow(y)
  BY <1>1, <1>3 DEF SameCashRow
<1>9. ASSUME t \notin astray PROVE CashCounted(t)' = CashKept(t)'
  <2>1. CashCounted(t) = CashKept(t)
    BY <1>6, <1>9 DEF CashBooked
  <2>2. busy[t].session \in Session /\ reg[busy[t].session].status = "open"
    <3>1. Reads(t)
      BY <1>9 DEF SessionsFit, SessionFits
    <3>2. busy[t].session \in Session
      BY <1>1, <3>1, SessionType DEF Reads
    <3> QED BY <3>1, <3>2 DEF Reads, UsesOpen
  <2>3. PICK s \in Session : s = busy[t].session
    BY <2>2
  <2>4. PICK a \in Nat : a = pay[t]["cash"].amt
    BY CashType
  <2>5. CashKept(t)' = CashKept(t) + a
    BY <1>1, <1>2, <1>3, <1>5, <2>4, CashType, CheckoutAssumption DEF CashKept, CheckoutAssumption
  <2>6. CashIn(s, t)' = a /\ CashIn(s, t) = 0
    BY <1>1, <1>2, <1>3, <1>5, <2>3, <2>4, CheckoutAssumption DEF CashIn, CheckoutAssumption
  <2>7. ASSUME NEW o \in Session \ {s} PROVE CashIn(o, t)' = 0 /\ CashIn(o, t) = 0
    BY <1>1, <1>2, <1>3, <1>5, <2>3, CheckoutAssumption DEF CashIn, CheckoutAssumption
  <2>8. Entry(s, t)' = Entry(s, t) + a
    BY <1>1, <1>6, <2>2, <2>3, <2>6, RegType DEF Entry
  <2>9. \A o \in Session \ {s} : Entry(o, t)' = Entry(o, t)
    BY <1>1, <2>7 DEF Entry
  <2>10. CashCounted(t)' = CashCounted(t) + a
    BY <1>6, <2>8, <2>9, CountedOne
  <2> QED BY <2>1, <2>5, <2>10
<1> QED BY <1>1, <1>6, <1>7, <1>8, <1>9, OtherLines

(* A void takes the cash back from the session that counted it, or, when    *)
(* that one is closed, from the one open now.                               *)
LEMMA CommitVoidCash ==
  ASSUME Inv, Rest, SessionsFit, CashBooked, NEW t \in Sale, CommitVoid(t)
  PROVE  CashBooked'
<1>1. PICK s \in Session \cup {NoSession} : s = busy[t].session
  BY SessionType
<1>2. PICK a \in Nat : a = pay[t]["cash"].amt
  BY CashType
<1>3. reg' = TakenFrom(s, t, a) /\ UNCHANGED <<astray, bounds>>
  BY <1>1, <1>2 DEF CommitVoid
<1>4. t \in Line /\ a \in Int
  BY DEF Line
<1>5. /\ Only(t) /\ sale'[t].session = sale[t].session /\ sale'[t].status = "voided"
      /\ sale[t].status = "completed"
      /\ pay'[t]["cash"].amt = 0 /\ pay'[t]["cash"].ref = 0 /\ pay[t]["cash"].ref = 0
  BY CommitVoidRow
<1>6. \A y \in Sale \ {t} : SameCashRow(y)
  BY <1>5 DEF Only, SameCashRow
<1>7. ASSUME t \notin astray PROVE CashCounted(t)' = CashKept(t)'
  <2>1. CashCounted(t) = CashKept(t)
    BY <1>4, <1>7 DEF CashBooked
  <2>2. CashKept(t) = a /\ CashKept(t)' = 0
    BY <1>2, <1>5, CheckoutAssumption DEF CashKept, Sold, CheckoutAssumption
  <2>3. Reads(t) /\ SessionFits(t)
    BY <1>7 DEF SessionsFit, SessionFits
  <2>4. sale[t].session # NoSession
    BY <1>5, <2>3 DEF Reads, Sold
  <2>5. PICK h \in Session : h = sale[t].session
    BY <2>4, SessionType
  <2>6. /\ CashIn(h, t) = a /\ CashIn(h, t)' = 0
        /\ \A o \in Session \ {h} : CashIn(o, t) = 0 /\ CashIn(o, t)' = 0
    BY <1>2, <1>5, <2>5 DEF CashIn
  <2>7. ASSUME NEW o \in Session
        PROVE  /\ reg'[o].status = reg[o].status /\ reg'[o].booked = reg[o].booked
               /\ reg'[o].rows[t] = reg[o].rows[t] - IF o = s THEN a ELSE 0
               /\ reg[o].rows[t] \in Int
    <3>1. /\ reg'[o].status = reg[o].status /\ reg'[o].booked = reg[o].booked
          /\ reg'[o].rows[t] = reg[o].rows[t] - IF o = s /\ t = t THEN a ELSE 0
      BY <1>3, <1>4, TakenReg
    <3>2. reg[o].rows[t] \in Int
      BY <1>4, RegType
    <3> QED BY <3>1, <3>2
  <2>8. ASSUME NEW d \in Session, Entry(d, t)' = Entry(d, t) + (0 - a),
               \A o \in Session \ {d} : Entry(o, t)' = Entry(o, t)
        PROVE  CashCounted(t)' = 0
    <3>1. 0 - a \in Int
      OBVIOUS
    <3>2. CashCounted(t)' = CashCounted(t) + (0 - a)
      BY <1>4, <2>8, <3>1, CountedOne
    <3> QED BY <2>1, <2>2, <3>2
  <2>9. CASE ~OwesDrawer(t)
    <3>1. s = NoSession
      BY <1>1, <2>3, <2>9 DEF CommitVoid, SessionFits
    <3>2. \A o \in Session : o # s
      BY <3>1, CheckoutAssumption DEF CheckoutAssumption
    <3>3. CASE a = 0
      <4>1. ASSUME NEW o \in Session PROVE Entry(o, t)' = Entry(o, t)
        BY <2>6, <2>7, <3>2, <3>3 DEF Entry
      <4>2. CashCounted(t)' = CashCounted(t)
        BY <1>4, <4>1, CountedSame
      <4> QED BY <2>1, <2>2, <3>3, <4>2
    <3>4. CASE a # 0
      <4>1. busy[t].open /\ busy[t].op = "void"
        BY <1>2, <2>4, <2>9, <3>4, PartsType DEF OwesDrawer, CommitVoid, Method
      <4>2. reg[h].status = "open"
        BY <2>3, <2>5, <4>1 DEF Reads, OriginalOpen
      <4>3. Entry(h, t)' = Entry(h, t) + (0 - a)
        BY <2>6, <2>7, <3>2, <4>2 DEF Entry
      <4>4. ASSUME NEW o \in Session \ {h} PROVE Entry(o, t)' = Entry(o, t)
        BY <2>6, <2>7, <3>2 DEF Entry
      <4> QED BY <2>2, <2>8, <4>3, <4>4
    <3> QED BY <3>3, <3>4
  <2>10. CASE OwesDrawer(t)
    <3>1. busy[t].op = "payout" /\ ~busy[t].open
      BY <2>10 DEF CommitVoid, OwesDrawer
    <3>2. s \in Session /\ reg[s].status = "open"
      <4>1. s \in Session
        BY <1>1, <2>3, <3>1 DEF Reads
      <4> QED BY <1>1, <2>3, <4>1 DEF Reads, UsesOpen
    <3>3. reg[h].status = "closed"
      <4>1. reg[h].status # "open"
        BY <2>3, <2>4, <2>5, <3>1 DEF SessionFits, OriginalOpen
      <4>2. reg[h].status # "none"
        BY <2>3, <2>4, <2>5 DEF SessionFits
      <4>3. reg[h].status \in {"none", "open", "closed"}
        BY DEF Rest, Till, RegRow
      <4> QED BY <4>1, <4>2, <4>3
    <3>4. Entry(s, t)' = Entry(s, t) + (0 - a)
      <4>1. s # h
        BY <3>2, <3>3
      <4>2. CashIn(s, t) = 0 /\ CashIn(s, t)' = 0
        BY <2>6, <3>2, <4>1
      <4> QED BY <2>7, <3>2, <4>2 DEF Entry
    <3>5. ASSUME NEW o \in Session \ {s} PROVE Entry(o, t)' = Entry(o, t)
      <4>1. CASE o = h
        BY <2>7, <3>3, <4>1 DEF Entry
      <4>2. CASE o # h
        BY <2>6, <2>7, <4>2 DEF Entry
      <4> QED BY <4>1, <4>2
    <3> QED BY <2>2, <2>8, <3>2, <3>4, <3>5
  <2> QED BY <2>9, <2>10
<1> QED BY <1>3, <1>4, <1>5, <1>6, <1>7, OtherLines

LEMMA RegisterCash ==
  ASSUME Inv, Rest, CashBooked, NEW s \in Session, OpenRegister(s) \/ CloseRegister(s)
  PROVE  CashBooked'
<1>0. reg \in [Session -> RegRow] /\ reg[s] \in RegRow
  BY DEF Rest, Till
<1>1. UNCHANGED <<sale, pay, bounds>> /\ astray \subseteq astray'
  BY DEF OpenRegister, CloseRegister, money
<1>2. ASSUME NEW o \in Session, NEW x \in Line PROVE Entry(o, x)' = Entry(o, x)
  <2>1. CashIn(o, x)' = CashIn(o, x)
    BY <1>1 DEF CashIn
  <2>2. CASE o # s
    <3>1. reg'[o] = reg[o]
      BY <1>0, <2>2 DEF OpenRegister, CloseRegister
    <3> QED BY <2>1, <3>1 DEF Entry
  <2>3. CASE o = s /\ OpenRegister(s)
    <3>1. reg'[s].status = "open" /\ reg'[s].rows = reg[s].rows /\ reg[s].status = "none"
      BY <1>0, <2>3 DEF OpenRegister, RegRow
    <3> QED BY <2>1, <2>3, <3>1 DEF Entry
  <2>4. CASE o = s /\ CloseRegister(s)
    <3>1. reg'[s].status = "closed" /\ reg'[s].booked = Figures(s) /\ reg[s].status = "open"
      BY <1>0, <2>4 DEF CloseRegister, RegRow
    <3> QED BY <2>4, <3>1 DEF Entry, Figures
  <2> QED BY <2>2, <2>3, <2>4
<1> SUFFICES ASSUME NEW x \in Line, x \notin astray' PROVE CashCounted(x)' = CashKept(x)'
  BY DEF CashBooked
<1>3. CashCounted(x) = CashKept(x)
  BY <1>1 DEF CashBooked
<1>4. x \in Sale => SameCashRow(x)
  BY <1>1 DEF SameCashRow
<1> QED BY <1>1, <1>2, <1>3, <1>4, LineStays

LEMMA MovementCash ==
  ASSUME Inv, Rest, CashBooked, NEW s \in Session, AddCashMovement(s, 1) PROVE CashBooked'
<1>1. /\ reg' = TakenFrom(s, NoSale, 1) /\ UNCHANGED <<sale, pay, astray>> /\ reg[s].status = "open"
      /\ bounds' = [bounds EXCEPT !.moves = @ + 1]
  BY DEF AddCashMovement, money
<1>2. bounds'.moves = bounds.moves + 1 /\ bounds.moves \in Nat
  BY <1>1 DEF Rest, Counters
<1>3. NoSale \in Line /\ 1 \in Int /\ s \in Session \cup {NoSession}
  BY DEF Line
<1>4. \A y \in Sale \ {NoSale} : SameCashRow(y)
  BY <1>1 DEF SameCashRow
<1>5. ASSUME NoSale \notin astray PROVE CashCounted(NoSale)' = CashKept(NoSale)'
  <2>1. CashCounted(NoSale) = CashKept(NoSale)
    BY <1>3, <1>5 DEF CashBooked
  <2>2. ASSUME NEW o \in Session
        PROVE  /\ reg'[o].status = reg[o].status /\ reg'[o].booked = reg[o].booked
               /\ reg'[o].rows[NoSale] = reg[o].rows[NoSale] - IF o = s THEN 1 ELSE 0
               /\ reg[o].rows[NoSale] \in Int /\ CashIn(o, NoSale)' = CashIn(o, NoSale)
               /\ CashIn(o, NoSale) \in Int
    BY <1>1, <1>3, TakenReg, RegType, CashInType DEF CashIn
  <2>3. Entry(s, NoSale)' = Entry(s, NoSale) + (0 - 1)
    BY <1>1, <2>2 DEF Entry
  <2>4. \A o \in Session \ {s} : Entry(o, NoSale)' = Entry(o, NoSale)
    BY <2>2 DEF Entry
  <2>5. 0 - 1 \in Int
    OBVIOUS
  <2>6. CashCounted(NoSale)' = CashCounted(NoSale) + (0 - 1) /\ CashCounted(NoSale) \in Int
    BY <1>3, <2>3, <2>4, <2>5, CountedOne
  <2> QED BY <1>2, <2>1, <2>6 DEF CashKept
<1> QED BY <1>1, <1>3, <1>4, <1>5, OtherLines

LEMMA InitCash == Init => CashBooked
<1> SUFFICES ASSUME Init, NEW x \in Line PROVE CashCounted(x) = CashKept(x)
  BY DEF CashBooked
<1>1. ASSUME NEW s \in Session PROVE Entry(s, x) = 0
  <2>1. reg[s].status = "none" /\ reg[s].rows = NoCash
    BY DEF Init
  <2>2. x \in Sale => sale[x].session = NoSession
    BY DEF Init
  <2>3. CashIn(s, x) = 0
    BY <2>2, CheckoutAssumption DEF CashIn, CheckoutAssumption
  <2> QED BY <2>1, <2>3 DEF Entry, NoCash
<1>2. IsFiniteSet(Session)
  BY CheckoutAssumption DEF CheckoutAssumption
<1>3. CashCounted(x) = 0
  <2> DEFINE f == [s \in Session |-> Entry(s, x)]
  <2>1. \A s \in Session : f[s] = 0
    BY <1>1
  <2>2. CashCounted(x) = SumFunctionOnSet(f, Session)
    BY CashCountedIs
  <2> HIDE DEF f
  <2> QED BY <1>2, <2>1, <2>2, SumZero
<1>4. x # NoSale => sale[x].status = "none" /\ pay[x]["cash"].ref = 0
  BY DEF Init, Line, Method, Empty
<1>5. bounds.moves = 0
  BY DEF Init
<1> QED BY <1>3, <1>4, <1>5 DEF CashKept, Sold

LEMMA NextCash == Inv /\ Rest /\ SessionsFit /\ CashBooked /\ [Next]_vars => CashBooked'
<1> SUFFICES ASSUME Inv, Rest, SessionsFit, CashBooked, [Next]_vars PROVE CashBooked'
  OBVIOUS
<1>1. CASE UNCHANGED vars
  BY <1>1, UntouchedCash DEF vars
<1>2. ASSUME NEW t \in Sale, NEW n \in 0..Price[t],
             \/ CreateTransaction(t, n) \/ ReplaceItems(t, n) \/ SetPointUse(t, n) \/ BeginRefund(t, n)
             \/ \E m \in Method : AddPayment(t, m, n)
             \/ RefundOnline(t, n) \/ \E q \in Request : RefundCash(q, t, n)
      PROVE  CashBooked'
  <2>1. n \in Nat
    BY CheckoutAssumption DEF CheckoutAssumption
  <2>2. CASE CreateTransaction(t, n) \/ ReplaceItems(t, n)
    BY <2>1, <2>2, DraftCash
  <2>3. CASE SetPointUse(t, n)
    <3>1. "cash" \in Method
      BY DEF Method
    <3> QED BY <2>1, <2>3, <3>1, AddPaymentCash
  <2>4. CASE \E m \in Method : AddPayment(t, m, n)
    BY <2>1, <2>4, AddPaymentCash
  <2>5. CASE RefundOnline(t, n) \/ \E q \in Request : RefundCash(q, t, n)
    BY <2>1, <2>5, RefundsCash
  <2>6. CASE BeginRefund(t, n)
    BY <2>6, UntouchedCash, FoundType DEF BeginRefund
  <2> QED
    BY <1>2, <2>2, <2>3, <2>4, <2>5, <2>6
<1>3. ASSUME NEW t \in Sale,
             \/ \E ok \in BOOLEAN : SettleOnline(t, ok) \/ CommitRefund(t, ok)
             \/ \E m \in Method : RemovePayment(t, m)
             \/ DiscardDraft(t) \/ BeginComplete(t) \/ CommitComplete(t) \/ Abort(t)
             \/ BeginVoid(t) \/ FindDrawer(t) \/ CommitVoid(t) \/ RefundFails(t)
             \/ \E q \in Request : AskRefund(q, t)
      PROVE  CashBooked'
  <2>0. 0 \in Nat /\ TRUE \in BOOLEAN OBVIOUS
  <2>1. CASE RefundFails(t) \/ \E ok \in BOOLEAN : SettleOnline(t, ok)
    BY <2>0, <2>1, OnlineCash
  <2>2. CASE \E m \in Method : RemovePayment(t, m)
    BY <2>0, <2>2, AddPaymentCash
  <2>3. CASE BeginComplete(t) \/ FindDrawer(t)
    BY <2>3, UntouchedCash, FoundType DEF BeginComplete, FindDrawer
  <2>4. CASE Abort(t) \/ BeginVoid(t)
    BY <2>4, UntouchedCash DEF Abort, BeginVoid, till
  <2>5. CASE \E q \in Request : AskRefund(q, t)
    BY <2>5, UntouchedCash, FoundType DEF AskRefund, money
  <2> QED
    BY <1>3, <2>1, <2>2, <2>3, <2>4, <2>5, DiscardCash, CommitRefundCash, CommitCompleteCash, CommitVoidCash
<1>4. ASSUME NEW s \in Session, OpenRegister(s) \/ CloseRegister(s) \/ AddCashMovement(s, 1)
      PROVE  CashBooked'
  BY <1>4, RegisterCash, MovementCash
<1>5. CASE PointsAge \/ ExpireRead \/ ExpireApply \/ NextDay
  <2>1. CASE PointsAge \/ ExpireApply
    BY <2>1, UntouchedCash DEF PointsAge, ExpireApply, money, till
  <2>2. CASE ExpireRead
    <3>1. bounds'.moves = bounds.moves
      BY <2>2 DEF ExpireRead, Rest, Counters
    <3> QED BY <2>2, <3>1, UntouchedCash DEF ExpireRead, money, till
  <2>3. CASE NextDay
    <3>1. PICK t \in Sale : TRUE
      BY <2>3 DEF NextDay
    <3>2. 0 \in Nat OBVIOUS
    <3> QED BY <2>3, <3>1, <3>2, DraftCash
  <2> QED
    BY <1>5, <2>1, <2>2, <2>3
<1>6. CASE \E q \in Request : RefuseRefund(q)
  BY <1>6, UntouchedCash DEF RefuseRefund, money
<1> QED
  BY <1>1, <1>2, <1>3, <1>4, <1>5, <1>6 DEF Next

(* What the sessions counted of a sale adds up to the cash it kept, whatever*)
(* is sold, refunded, voided, opened and closed; exempt are the sales with  *)
(* an operation or a refund request under way at the closing of the session *)
(* it had read, and those whose operation found no session open.            *)
THEOREM CashInOneSession == Spec => []CashBooked
BY InitInv, NextInv, InitRest, NextRest, InitSessions, NextSessions, InitCash, NextCash, PTL DEF Spec
=============================================================================
