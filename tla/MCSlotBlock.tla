---------------------------- MODULE MCSlotBlock ----------------------------
(* TLC instances of SlotBlock: two times one after the other that share a   *)
(* half hour.                                                               *)
EXTENDS SlotBlock

CONSTANTS b1, b2, p, q, early, late, h1, h2, w1, w2

Halves == [t \in {early, late} |-> IF t = early THEN {h1} ELSE {h1, h2}]
OwnCells == {<<q, h2>>}

(* push.ts: "duplicate or out-of-order jobs are harmless": Convergent also  *)
(* for jobs that overlap (MCSlotBlockOverlap: the last to write read first). *)
ConvergentAlways == \A b \in Booking : managed /\ JobsDone(b) /\ b \notin dead => Matches(b)

(* agent.ts: "a slot is never reopened while another booking still needs    *)
(* it": EndsHeld also for a booking that comes back to a time it had before *)
(* (MCSlotBlockAgain).                                                      *)
EndsHeldAgain == \A b \in Booking : <>[](odd[b] \subseteq {"again"} /\ b \notin dead => Held(b))

(* agent.ts: "keep what was closed so the next round reopens it": what the  *)
(* helper closed is on sale again when no booking is left (MCSlotBlockLeak). *)
EndsReopened ==
  <>[](\A b \in Booking : managed /\ ~Live(b) /\ odd[b] = {} /\ b \notin dead) => <>[](open = Cell \ Own)
=============================================================================
