----------------------------- MODULE MCBooking -----------------------------
(* Model-checking instances of Booking. *)
EXTENDS Booking, TLC

(* Rows and connections are interchangeable: sound for safety runs only.    *)
Symmetry == Permutations(Appt) \cup Permutations(Client)

Short == {1}
Long == {1, 2}
Slots == {Short, Long}

(* A short treatment is followed by a buffer of one tick.                   *)
Buffered == Short :> {1, 2} @@ Long :> {1, 2}

Ask(channel, staff, slot, need) ==
  [channel |-> channel, staff |-> staff, slot |-> slot, need |-> need]

Mixed == {Ask("staff", {1}, Short, FALSE), Ask("online", {1}, Short, TRUE),
          Ask("online", {2}, Long, FALSE), Ask("import", {1, 2}, Short, TRUE)}
WithUnits == {Ask("staff", {1}, Short, TRUE), Ask("staff", {2}, Short, TRUE)}
SameStaff == {Ask("staff", {1}, Short, FALSE), Ask("online", {1}, Short, FALSE)}

(* A seat limit of one, or none with one online booking at a time.          *)
OneSeatOrOneOnline == {[seats |-> 1, capacity |-> 2], [seats |-> 0, capacity |-> 1]}
Unlimited == {[seats |-> 0, capacity |-> 2]}

OneAtATime == [s \in Staff |-> 1]
TwoForTheFirst == [s \in Staff |-> IF s = 1 THEN 2 ELSE 1]
=============================================================================
