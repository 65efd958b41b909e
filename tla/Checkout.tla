------------------------------ MODULE Checkout ------------------------------
(***************************************************************************)
(* The counter of one shop: sales (transactions), their payments and       *)
(* refunds, the customer's points and the register sessions.               *)
(* Source: apps/api/src/modules/pos/{transactions,points,register,stock}.ts*)
(* and the offline half of modules/payments/api.ts.                        *)
(*                                                                         *)
(* An operation on a sale holds its row lock (lockTx) to the end.  Every   *)
(* operation reads the register without a lock and books later what it     *)
(* moved, so its read and its booking are actions of their own, with other *)
(* transactions, the closing of the register among them, in between.       *)
(* All sales are of one customer and each sells one unit of one product.   *)
(***************************************************************************)
EXTENDS Integers, FiniteSets, Functions

CONSTANTS
  Sale,           \* rows of transactions
  Session,        \* rows of register_sessions
  NoSession,      \* SQL NULL
  Request,        \* bound: cash refunds through /payments on their way at once
  NoSale,         \* what a cash movement made by hand belongs to
  Price,          \* bound: the largest total of each sale
  Offered,        \* the methods the customer may choose for each sale
  Granted,        \* points the customer holds at first, in a lot that may expire
  YenPerPoint,    \* pointRateBp: yen paid by other means for one point
  NeedRegister,   \* settings.pos.requireOpenRegister
  MaxRefunds,     \* bound: refund operations
  MaxEarly,       \* bound: those of them on a draft
  MaxFailures,    \* bound: online refunds the provider reports failed
  MaxExpiries,    \* bound: runs of the expiry job
  MaxMoves        \* bound: manual cash movements

ASSUME CheckoutAssumption ==
  /\ IsFiniteSet(Sale) /\ IsFiniteSet(Session) /\ NoSession \notin Session
  /\ NoSale \notin Sale
  /\ Price \in [Sale -> Nat] /\ Offered \in [Sale -> SUBSET {"online", "cash", "point"}]
  /\ Granted \in Nat /\ YenPerPoint \in Nat \ {0}
  /\ NeedRegister \in BOOLEAN
  /\ {MaxRefunds, MaxEarly, MaxFailures, MaxExpiries, MaxMoves} \subseteq Nat

VARIABLES
  sale,     \* transactions: status, total, register session, points, refunded_total
  pay,      \* payments: one slot for each method of a sale
  unsure,   \* amount of a sale's online refunds that are pending at the provider
  busy,     \* operation that holds the sale's row lock between its two steps
  balance,  \* customers.point_balance
  expired,  \* points the ledger shows as expired
  aged,     \* the granted lot has passed expires_at
  expiry,   \* to_expire as read by a running expiry job, 0 when none runs
  reg,      \* register_sessions: status, movements less cash refunds, snapshot at close
  ask,      \* refund requests of /payments: the cash payment's sale, the session read
  stock,    \* product_stocks.quantity
  astray,   \* history: sales at work when the session they had read closed, or none was open
  bounds    \* counters behind the bounds

vars == <<sale, pay, unsure, busy, balance, expired, aged, expiry, reg, ask, stock, astray, bounds>>
money == <<sale, pay, unsure, busy, stock>>
points == <<balance, expired, aged, expiry>>
till == <<reg, ask, astray>>

Method == {"online", "cash", "point"}
Sold == {"completed", "partially_refunded", "refunded"}
Amount == Nat
Slot == [st: {"none", "pending", "taken"}, amt: Amount, ref: Amount]
Empty == [st |-> "none", amt |-> 0, ref |-> 0]
Parts == [Method -> Amount]
Nothing == [m \in Method |-> 0]
Line == Sale \cup {NoSale}
Figure == [Line -> Int]
NoCash == [x \in Line |-> 0]
NoRequest == [sale |-> NoSale, session |-> NoSession]
Idle == [op |-> "no", session |-> NoSession, open |-> FALSE, parts |-> Nothing]

TypeOK ==
  /\ sale \in [Sale -> [status: {"none", "draft", "voided"} \cup Sold, total: Amount,
                        session: Session \cup {NoSession}, sameDay: BOOLEAN, repaid: Amount,
                        used: Amount, earned: Amount, gaveBack: Amount, tookBack: Amount,
                        returned: BOOLEAN]]
  /\ pay \in [Sale -> [Method -> Slot]]
  /\ unsure \in [Sale -> Amount]
  /\ busy \in [Sale -> [op: {"no", "complete", "void", "payout", "refund"}, open: BOOLEAN,
                        session: Session \cup {NoSession}, parts: Parts]]
  /\ balance \in Nat /\ expired \in Nat /\ expiry \in Nat /\ aged \in BOOLEAN
  /\ reg \in [Session -> [status: {"none", "open", "closed"}, rows: Figure, booked: Figure]]
  /\ ask \in [Request -> [sale: Line, session: Session \cup {NoSession}]]
  /\ stock \in Int /\ astray \subseteq Sale
  /\ bounds \in [refunds: Nat, early: Nat, failures: Nat, expiries: Nat, moves: Nat]

Init ==
  /\ sale = [t \in Sale |-> [status |-> "none", total |-> 0, session |-> NoSession, sameDay |-> TRUE,
                             repaid |-> 0, used |-> 0, earned |-> 0, gaveBack |-> 0, tookBack |-> 0,
                             returned |-> FALSE]]
  /\ pay = [t \in Sale |-> [m \in Method |-> Empty]]
  /\ unsure = [t \in Sale |-> 0]
  /\ busy = [t \in Sale |-> Idle]
  /\ balance = Granted /\ expired = 0 /\ aged = FALSE /\ expiry = 0
  /\ reg = [s \in Session |-> [status |-> "none", rows |-> NoCash, booked |-> NoCash]]
  /\ ask = [q \in Request |-> NoRequest]
  /\ stock = 0 /\ astray = {}
  /\ bounds = [refunds |-> 0, early |-> 0, failures |-> 0, expiries |-> 0, moves |-> 0]

-----------------------------------------------------------------------------
(* Sums over a sale's three payments.                                       *)

Live(p) == p.amt - p.ref
Taken(p) == IF p.st = "taken" THEN Live(p) ELSE 0
Net(t) == Taken(pay[t]["online"]) + Taken(pay[t]["cash"]) + Taken(pay[t]["point"])
Held(t) == Live(pay[t]["online"]) + Live(pay[t]["cash"]) + Live(pay[t]["point"])
Refunded(p) == p["online"].ref + p["cash"].ref + p["point"].ref

Free(t) == busy[t].op = "no"
Draft(t) == sale[t].status = "draft" /\ Free(t)
OpenSession == IF \E s \in Session : reg[s].status = "open"
               THEN CHOOSE s \in Session : reg[s].status = "open" ELSE NoSession

(* Cash of line x leaves the drawer, in the session s if there is one.      *)
TakenFrom(s, x, n) ==
  IF s = NoSession THEN reg ELSE [reg EXCEPT ![s].rows[x] = @ - n]

(* An operation on sale t that moves cash finds no session open.            *)
Found(t) == IF OpenSession = NoSession THEN astray \cup {t} ELSE astray

(* The refund requests for the cash payment of t have nothing to refund.    *)
Forget(t) == [q \in Request |-> IF ask[q].sale = t THEN NoRequest ELSE ask[q]]

PointsFor(n) == n \div YenPerPoint
Lesser(a, b) == IF a <= b THEN a ELSE b
Positive(n) == IF n > 0 THEN n ELSE 0

-----------------------------------------------------------------------------
(* The draft: every operation locks the sale and requires status draft.     *)

CreateTransaction(t, n) ==
  /\ sale[t].status = "none"
  /\ sale' = [sale EXCEPT ![t].status = "draft", ![t].total = n]
  /\ UNCHANGED <<pay, unsure, busy, stock, points, till, bounds>>

ReplaceItems(t, n) ==
  /\ Draft(t) /\ Held(t) <= n
  /\ sale' = [sale EXCEPT ![t].total = n]
  /\ UNCHANGED <<pay, unsure, busy, stock, points, till, bounds>>

(* Points are compared with the balance, which is read without a lock and   *)
(* not reserved.                                                            *)
AddPayment(t, m, a) ==
  /\ Draft(t) /\ pay[t][m].st = "none" /\ m \in Offered[t]
  /\ a > 0 /\ a <= sale[t].total - Held(t)
  /\ m = "point" => a <= balance
  /\ pay' = [pay EXCEPT ![t][m] = [st |-> IF m = "online" THEN "pending" ELSE "taken",
                                   amt |-> a, ref |-> 0]]
  /\ UNCHANGED <<sale, unsure, busy, stock, points, till, bounds>>

(* settleOnlinePayment, from the provider's webhook; recomputePaid follows. *)
SettleOnline(t, succeeded) ==
  /\ pay[t]["online"].st = "pending"
  /\ pay' = [pay EXCEPT ![t]["online"] = IF succeeded THEN [@ EXCEPT !.st = "taken"] ELSE Empty]
  /\ UNCHANGED <<sale, unsure, busy, stock, points, till, bounds>>

(* cancelPayment on a draft: an offline payment nothing of which was        *)
(* refunded, or an online one the payer has not completed.                  *)
Cancellable(m, p) == p.ref = 0 /\ p.st = IF m = "online" THEN "pending" ELSE "taken"

RemovePayment(t, m) ==
  /\ Draft(t) /\ Cancellable(m, pay[t][m])
  /\ pay' = [pay EXCEPT ![t][m] = Empty]
  /\ ask' = IF m = "cash" THEN Forget(t) ELSE ask
  /\ UNCHANGED <<sale, unsure, busy, stock, points, reg, astray, bounds>>

SetPointUse(t, u) ==
  LET others == Held(t) - Live(pay[t]["point"]) IN
  /\ Draft(t) /\ u # pay[t]["point"].amt /\ "point" \in Offered[t]
  /\ u > 0 => u <= balance /\ u <= sale[t].total - others
  /\ pay' = [pay EXCEPT ![t]["point"] = IF u = 0 THEN Empty ELSE [st |-> "taken", amt |-> u, ref |-> 0]]
  /\ UNCHANGED <<sale, unsure, busy, stock, points, till, bounds>>

(* voidTransaction of a draft: online money is refunded, the rest cancelled;*)
(* an offline payment with a refund on it cannot be cancelled, so the whole *)
(* operation fails.                                                         *)
DiscardDraft(t) ==
  /\ Draft(t)
  /\ \A m \in {"cash", "point"} : pay[t][m].st = "taken" => pay[t][m].ref = 0
  /\ sale' = [sale EXCEPT ![t].status = "voided"]
  /\ pay' = [pay EXCEPT ![t] = [m \in Method |->
               IF m = "online" /\ @[m].st = "taken" THEN [@[m] EXCEPT !.ref = pay[t][m].amt] ELSE Empty]]
  /\ ask' = Forget(t)
  /\ UNCHANGED <<unsure, busy, stock, points, reg, astray, bounds>>

-----------------------------------------------------------------------------
(* completeTransaction                                                      *)

BeginComplete(t) ==
  /\ Draft(t)
  /\ \A m \in Method : pay[t][m].st # "pending"
  /\ Net(t) = sale[t].total
  /\ NeedRegister => OpenSession # NoSession
  /\ busy' = [busy EXCEPT ![t] = [Idle EXCEPT !.op = "complete", !.session = OpenSession]]
  /\ astray' = Found(t)
  /\ UNCHANGED <<sale, pay, unsure, stock, points, reg, ask, bounds>>

PointsSuffice(t) == pay[t]["point"].amt <= balance

CommitComplete(t) ==
  LET used == pay[t]["point"].amt
      earned == PointsFor(sale[t].total - used)
  IN
  /\ busy[t].op = "complete" /\ PointsSuffice(t)
  /\ sale' = [sale EXCEPT ![t].status = "completed", ![t].session = busy[t].session,
                          ![t].used = used, ![t].earned = earned]
  /\ balance' = balance - used + earned
  /\ stock' = stock - 1
  /\ busy' = [busy EXCEPT ![t] = Idle]
  /\ UNCHANGED <<pay, unsure, expired, aged, expiry, till, bounds>>

(* The transaction of an operation in flight rolls back: an error of        *)
(* applyPoints or refundPayment, a deadlock, or the server is gone.         *)
Abort(t) ==
  /\ ~Free(t)
  /\ busy' = [busy EXCEPT ![t] = Idle]
  /\ UNCHANGED <<sale, pay, unsure, stock, points, till, bounds>>

-----------------------------------------------------------------------------
(* syncRefundState: status, refunded_total and point reversals derived from *)
(* the refunds that have not failed, p being the sale's payments by then.   *)

RepaidOf(t, p) == Lesser(sale[t].total, Refunded(p))
EarnTarget(t, r) == IF sale[t].total = 0 THEN 0 ELSE (sale[t].earned * r) \div sale[t].total

(* Mutant: the part of the earned points already taken back is forgotten.   *)
TakeBackAgain(t, p) == Lesser(balance, EarnTarget(t, RepaidOf(t, p)))

TakeBack(t, p) == Lesser(balance, Positive(EarnTarget(t, RepaidOf(t, p)) - sale[t].tookBack))
GiveBack(t, p) == Positive(p["point"].ref - sale[t].gaveBack)

(* Mutant: the ledger records what should be taken back, not what was.      *)
SyncedUnclamped(t, p) ==
  LET r == RepaidOf(t, p) IN
  [sale[t] EXCEPT !.repaid = r,
                  !.status = IF r = 0 THEN "completed" ELSE IF r = sale[t].total THEN "refunded"
                             ELSE "partially_refunded",
                  !.tookBack = @ + Positive(EarnTarget(t, r) - @), !.gaveBack = @ + GiveBack(t, p)]

Synced(t, p) ==
  LET r == RepaidOf(t, p) IN
  [sale[t] EXCEPT !.repaid = r,
                  !.status = IF r = 0 THEN "completed" ELSE IF r = sale[t].total THEN "refunded"
                             ELSE "partially_refunded",
                  !.tookBack = @ + TakeBack(t, p), !.gaveBack = @ + GiveBack(t, p)]

(* Mutant: the subscriber of payment.refunded skips sold sales.             *)
NoSync(t, p) == UNCHANGED <<sale, balance>>

SyncRefundState(t, p) ==
  IF sale[t].status \in Sold
  THEN /\ sale' = [sale EXCEPT ![t] = Synced(t, p)]
       /\ balance' = balance - TakeBack(t, p) + GiveBack(t, p)
  ELSE UNCHANGED <<sale, balance>>

(* An online refund may be pending at the provider when it is recorded.     *)
Refunds(t, m, a) ==
  IF m = "online" THEN \E pending \in {0, a} : unsure' = [unsure EXCEPT ![t] = @ + pending]
  ELSE UNCHANGED unsure

(* refundPayment outside the till: the event payment.refunded has the sale  *)
(* follow (it waits for the sale's lock).                                   *)
RefundPayment(t, m, a) ==
  LET p == [pay[t] EXCEPT ![m].ref = @ + a] IN
  /\ Free(t) /\ pay[t][m].st = "taken"
  /\ a > 0 /\ a <= Live(pay[t][m])
  /\ bounds.refunds < MaxRefunds /\ (sale[t].status = "draft" => bounds.early < MaxEarly)
  /\ pay' = [pay EXCEPT ![t] = p]
  /\ SyncRefundState(t, p)
  /\ Refunds(t, m, a)
  /\ bounds' = [bounds EXCEPT !.refunds = @ + 1,
                              !.early = @ + IF sale[t].status = "draft" THEN 1 ELSE 0]
  /\ UNCHANGED <<busy, expired, aged, expiry, stock, astray>>

(* /payments/:id/refund of an online payment, or the provider's dashboard.  *)
RefundOnline(t, a) == RefundPayment(t, "online", a) /\ UNCHANGED <<reg, ask>>

(* refundPaymentRequest of a cash payment reads the open session, without a *)
(* lock on it or on the sale; refundPayment books the refund in what it read*)
(* or throws.                                                               *)
AskRefund(q, t) ==
  /\ ask[q] = NoRequest /\ pay[t]["cash"].st = "taken" /\ bounds.refunds < MaxRefunds
  /\ ask' = [ask EXCEPT ![q] = [sale |-> t, session |-> OpenSession]]
  /\ astray' = Found(t)
  /\ UNCHANGED <<money, points, reg, bounds>>

RefundCash(q, t, a) ==
  /\ ask[q].sale = t
  /\ RefundPayment(t, "cash", a)
  /\ reg' = TakenFrom(ask[q].session, t, a)
  /\ ask' = [ask EXCEPT ![q] = NoRequest]

RefuseRefund(q) ==
  /\ ask[q] # NoRequest
  /\ ask' = [ask EXCEPT ![q] = NoRequest]
  /\ UNCHANGED <<money, points, reg, astray, bounds>>

(* The provider reports that a pending refund failed (applyProviderRefund): *)
(* the payment is put right, and no event tells the sale.                   *)
RefundFails(t) ==
  /\ unsure[t] > 0 /\ bounds.failures < MaxFailures
  /\ pay' = [pay EXCEPT ![t]["online"].ref = @ - unsure[t]]
  /\ unsure' = [unsure EXCEPT ![t] = 0]
  /\ bounds' = [bounds EXCEPT !.failures = @ + 1]
  /\ UNCHANGED <<sale, busy, stock, points, till>>

-----------------------------------------------------------------------------
(* refundTransaction: the amount is taken from the payments in REFUND_ORDER.*)

RefundParts(t, a) ==
  LET o == Lesser(a, Live(pay[t]["online"]))
      c == Lesser(a - o, Live(pay[t]["cash"]))
  IN [m \in Method |-> CASE m = "online" -> o [] m = "cash" -> c [] m = "point" -> a - o - c]

BeginRefund(t, a) ==
  LET parts == RefundParts(t, a)
      s == IF parts["cash"] > 0 THEN OpenSession ELSE NoSession
  IN
  /\ sale[t].status \in {"completed", "partially_refunded"} /\ Free(t)
  /\ bounds.refunds < MaxRefunds
  /\ a > 0 /\ a <= sale[t].total - sale[t].repaid /\ a <= Net(t)
  /\ parts["cash"] > 0 /\ NeedRegister => s # NoSession
  /\ busy' = [busy EXCEPT ![t] = [op |-> "refund", open |-> FALSE, session |-> s, parts |-> parts]]
  /\ astray' = IF parts["cash"] > 0 THEN Found(t) ELSE astray
  /\ UNCHANGED <<sale, pay, unsure, stock, points, reg, ask, bounds>>

CommitRefund(t, restock) ==
  LET b == busy[t]
      p == [m \in Method |-> [pay[t][m] EXCEPT !.ref = @ + b.parts[m]]]
  IN
  /\ b.op = "refund"
  /\ \A m \in Method : b.parts[m] <= Live(pay[t][m])
  /\ restock => ~sale[t].returned
  /\ pay' = [pay EXCEPT ![t] = p]
  /\ sale' = [sale EXCEPT ![t] = [Synced(t, p) EXCEPT !.returned = @ \/ restock]]
  /\ balance' = balance - TakeBack(t, p) + GiveBack(t, p)
  /\ stock' = stock + IF restock THEN 1 ELSE 0
  /\ Refunds(t, "online", b.parts["online"])
  /\ reg' = TakenFrom(b.session, t, b.parts["cash"])
  /\ busy' = [busy EXCEPT ![t] = Idle]
  /\ bounds' = [bounds EXCEPT !.refunds = @ + 1]
  /\ UNCHANGED <<expired, aged, expiry, ask, astray>>

-----------------------------------------------------------------------------
(* voidTransaction of a completed sale: the same day, or while the session  *)
(* it was completed in is open.                                             *)

OriginalOpen(t) == sale[t].session # NoSession /\ reg[sale[t].session].status = "open"

BeginVoid(t) ==
  /\ sale[t].status = "completed" /\ Free(t)
  /\ sale[t].sameDay \/ OriginalOpen(t)
  /\ busy' = [busy EXCEPT ![t] = [Idle EXCEPT !.op = "void", !.open = OriginalOpen(t),
                                  !.parts["online"] = Live(pay[t]["online"])]]
  /\ UNCHANGED <<sale, pay, unsure, stock, points, till, bounds>>

(* Mutant: cash is paid out also when the session that counted it is open.  *)
OwesAnyway(t) == sale[t].session # NoSession /\ pay[t]["cash"].amt > 0

(* Cash that a closed session has counted leaves the drawer of the open one.*)
OwesDrawer(t) == ~busy[t].open /\ sale[t].session # NoSession /\ pay[t]["cash"].amt > 0

FindDrawer(t) ==
  /\ busy[t].op = "void" /\ OwesDrawer(t)
  /\ busy' = [busy EXCEPT ![t].op = "payout", ![t].session = OpenSession]
  /\ astray' = Found(t)
  /\ UNCHANGED <<sale, pay, unsure, stock, points, reg, ask, bounds>>

VoidTakes(t) == Lesser(balance + sale[t].used, sale[t].earned)

CommitVoid(t) ==
  LET repay == busy[t].parts["online"] IN
  /\ busy[t].op = IF OwesDrawer(t) THEN "payout" ELSE "void"
  /\ repay <= Live(pay[t]["online"])
  /\ \A m \in {"cash", "point"} : pay[t][m].ref = 0
  /\ sale' = [sale EXCEPT ![t].status = "voided", ![t].gaveBack = @ + sale[t].used,
                          ![t].tookBack = @ + VoidTakes(t)]
  /\ pay' = [pay EXCEPT ![t] = [pay[t] EXCEPT !["online"].ref = @ + repay, !["cash"] = Empty,
                                              !["point"] = Empty]]
  /\ Refunds(t, "online", repay)
  /\ balance' = balance + sale[t].used - VoidTakes(t)
  /\ stock' = stock + IF sale[t].returned THEN 0 ELSE 1
  /\ reg' = TakenFrom(busy[t].session, t, pay[t]["cash"].amt)
  /\ ask' = Forget(t)
  /\ busy' = [busy EXCEPT ![t] = Idle]
  /\ UNCHANGED <<expired, aged, expiry, astray, bounds>>

-----------------------------------------------------------------------------
(* expireCustomerPoints: the ledger is summed, then applyPoints locks the   *)
(* customer; a sale may be completed in between.                            *)

PointsAge ==
  /\ ~aged /\ aged' = TRUE
  /\ UNCHANGED <<money, balance, expired, expiry, till, bounds>>

Spent == SumFunctionOnSet([t \in Sale |-> sale[t].used + sale[t].tookBack], Sale)
Returned == SumFunctionOnSet([t \in Sale |-> sale[t].gaveBack], Sale)
ToExpire == Positive((IF aged THEN Granted ELSE 0) - Positive(Spent - Returned) - expired)

ExpireRead ==
  /\ expiry = 0 /\ ToExpire \in 1..Granted /\ bounds.expiries < MaxExpiries
  /\ expiry' = ToExpire
  /\ bounds' = [bounds EXCEPT !.expiries = @ + 1]
  /\ UNCHANGED <<money, balance, expired, aged, till>>

(* Mutant: what the job takes is not clamped at the balance.                *)
WithoutClamp == expiry

Clamped == Lesser(expiry, balance)

ExpireApply ==
  /\ expiry > 0
  /\ balance' = balance - Clamped /\ expired' = expired + Clamped /\ expiry' = 0
  /\ UNCHANGED <<money, aged, till, bounds>>

-----------------------------------------------------------------------------
(* Register sessions.                                                       *)

(* sessionFigures without the opening cash, by the sale each part belongs to*)
(* (the code adds them up): the cash of the sales the session completed,    *)
(* movements, cash refunds.                                                 *)
CashIn(s, x) == IF x \in Sale /\ sale[x].session = s THEN pay[x]["cash"].amt ELSE 0
Figures(s) == [x \in Line |-> CashIn(s, x) + reg[s].rows[x]]

OpenRegister(s) ==
  /\ OpenSession = NoSession /\ reg[s].status = "none"
  /\ reg' = [reg EXCEPT ![s].status = "open"]
  /\ UNCHANGED <<money, points, ask, astray, bounds>>

(* What is under way on sale t will use that session s was open.            *)
UsesOpen(t, s) ==
  \/ busy[t].session = s
  \/ busy[t].op = "void" /\ busy[t].open /\ sale[t].session = s
  \/ \E q \in Request : ask[q].sale = t /\ ask[q].session = s

CloseRegister(s) ==
  /\ reg[s].status = "open"
  /\ reg' = [reg EXCEPT ![s].status = "closed", ![s].booked = Figures(s)]
  /\ astray' = astray \cup {t \in Sale : UsesOpen(t, s)}
  /\ UNCHANGED <<money, points, ask, bounds>>

AddCashMovement(s, n) ==
  /\ reg[s].status = "open" /\ bounds.moves < MaxMoves
  /\ reg' = TakenFrom(s, NoSale, n)
  /\ bounds' = [bounds EXCEPT !.moves = @ + n]
  /\ UNCHANGED <<money, points, ask, astray>>

(* A sale completed before midnight is not of the same day any more.        *)
NextDay ==
  /\ \E t \in Sale : sale[t].status \in Sold /\ sale[t].sameDay
  /\ sale' = [t \in Sale |-> IF sale[t].status \in Sold THEN [sale[t] EXCEPT !.sameDay = FALSE] ELSE sale[t]]
  /\ UNCHANGED <<pay, unsure, busy, stock, points, till, bounds>>

Next ==
  \/ \E t \in Sale :
       \/ \E n \in 0..Price[t] :
            \/ CreateTransaction(t, n) \/ ReplaceItems(t, n) \/ SetPointUse(t, n) \/ BeginRefund(t, n)
            \/ \E m \in Method : AddPayment(t, m, n)
            \/ RefundOnline(t, n) \/ \E q \in Request : RefundCash(q, t, n)
       \/ \E ok \in BOOLEAN : SettleOnline(t, ok) \/ CommitRefund(t, ok)
       \/ \E m \in Method : RemovePayment(t, m)
       \/ DiscardDraft(t) \/ BeginComplete(t) \/ CommitComplete(t) \/ Abort(t)
       \/ BeginVoid(t) \/ FindDrawer(t) \/ CommitVoid(t) \/ RefundFails(t)
       \/ \E q \in Request : AskRefund(q, t)
  \/ \E q \in Request : RefuseRefund(q)
  \/ \E s \in Session : OpenRegister(s) \/ CloseRegister(s) \/ AddCashMovement(s, 1)
  \/ PointsAge \/ ExpireRead \/ ExpireApply \/ NextDay

Spec == Init /\ [][Next]_vars

-----------------------------------------------------------------------------
(* Properties.                                                              *)

(* A sold sale never claims more money kept than its payments hold: every   *)
(* refund, by whichever way it was made, reaches the sale (syncRefundState).*)
SaleNotOverstated ==
  \A t \in Sale : sale[t].status \in Sold => sale[t].total - sale[t].repaid <= Net(t)

(* The comment on syncRefundState (transactions.ts:913): the sale's figures *)
(* are derived from its refunds, so they agree with the money held.         *)
SaleMatchesMoney ==
  \A t \in Sale : sale[t].status \in Sold => sale[t].total - sale[t].repaid = Net(t)

Ledger(t) == sale[t].earned - sale[t].used + sale[t].gaveBack - sale[t].tookBack

(* point_balance is what the ledger adds up to, and never below zero, with  *)
(* drafts planning the same points, reversals and expiry in any order.      *)
BalanceIsLedger ==
  /\ balance >= 0
  /\ balance = Granted - expired + SumFunctionOnSet([t \in Sale |-> Ledger(t)], Sale)

(* No sequence of refunds, repeated or made by several ways, and no void    *)
(* returns more points than the sale redeemed or takes more than it earned; *)
(* a voided sale has returned all of them.                                  *)
PointsReversedOnce ==
  \A t \in Sale :
    /\ sale[t].gaveBack <= sale[t].used /\ sale[t].tookBack <= sale[t].earned
    /\ sale[t].status = "voided" => sale[t].gaveBack = sale[t].used

Counted(s) == IF reg[s].status = "closed" THEN reg[s].booked ELSE Figures(s)
CashKept(x) ==
  IF x = NoSale THEN 0 - bounds.moves
  ELSE (IF sale[x].status \in Sold THEN pay[x]["cash"].amt ELSE 0) - pay[x]["cash"].ref
CashCounted(x) == SumFunctionOnSet([s \in Session |-> Counted(s)[x]], Session)

(* What the sessions have counted of a sale, closed ones in the snapshot of *)
(* their closing, adds up to the cash the sale kept, and likewise for the   *)
(* movements made by hand: a closing harms no sale but those with an        *)
(* operation under way that had read the session, and what an operation     *)
(* that begins later books is counted in the session then open.             *)
CashBooked == \A x \in Line \ astray : CashCounted(x) = CashKept(x)

(* The comment on the register (register.ts:12) without that exception: the *)
(* expected cash counts every cash sale, movement and refund.               *)
AllCashBooked == NeedRegister => \A x \in Line : CashCounted(x) = CashKept(x)
=============================================================================
