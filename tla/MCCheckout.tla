----------------------------- MODULE MCCheckout -----------------------------
(* TLC instances of Checkout.                                               *)
EXTENDS Checkout, TLC

CONSTANTS t1, t2, s1, s2, q1

MCSale == {t1, t2}
MCSession == {s1, s2}
MCRequest == {q1}

(* The first sale may cost two and is paid in any way; the second is a draft*)
(* of one that plans the same points.                                       *)
MCPrice == t1 :> 2 @@ t2 :> 1
MCOffered == t1 :> Method @@ t2 :> {"point"}

(* Bound: one sale over two sessions, the points of which do not expire, or *)
(* two sales within one session, of which one refund is made, not through   *)
(* /payments and with no failure reported later.                            *)
SalesOrSessions ==
  \/ sale[t2].status = "none" /\ expiry = 0 /\ ~aged
  \/ /\ reg[s1].status = "open" /\ reg[s2].status = "none" /\ bounds.moves = 0
     /\ ask[q1] = NoRequest /\ bounds.refunds < 2 /\ bounds.failures = 0
=============================================================================
