------------------------- MODULE ExternalSyncProofs -------------------------
(***************************************************************************)
(* Theorems about ExternalSync for any bookings, slots, jobs, policies and *)
(* number of changes and failures: types, that a stored version is never   *)
(* replaced by an older one, and that no booking gets lost silently.       *)
(***************************************************************************)
EXTENDS ExternalSync, FiniteSums, TLAPS

-----------------------------------------------------------------------------
(* Choices: sets of numbers have a least element, finite ones a greatest.   *)

LEMMA LeastOf ==
  ASSUME NEW S \in SUBSET Nat, S # {}
  PROVE  Least(S) \in S
BY LeastExists DEF Least

LEMMA VersionType ==
  ASSUME NEW v \in Version
  PROVE  /\ v.of \in Booking /\ v.seq \in 0..MaxSeq /\ v.seq \in Nat
         /\ v.booked \in BOOLEAN /\ v.slot \in Slot
BY ExternalAssumption DEF Version, ExternalAssumption

LEMMA FirstOf ==
  ASSUME NEW S \in SUBSET Version, S # {}
  PROVE  \E v \in S : \A u \in S : v.seq <= u.seq
<1> DEFINE N == {v.seq : v \in S}
<1>1. N \in SUBSET Nat /\ N # {} BY VersionType
<1>2. PICK m \in N : \A k \in N : m <= k
  <2> HIDE DEF N
  <2> QED BY <1>1, LeastExists
<1> QED BY <1>2

LEMMA ReachedOf ==
  ASSUME NEW S \in SUBSET Version
  PROVE  Reached(S) \in 0..MaxSeq
<1> DEFINE T == {0} \cup {v.seq : v \in S}
           R == {MaxSeq - t : t \in T}
<1>1. MaxSeq \in Nat BY ExternalAssumption DEF ExternalAssumption
<1>2. T \subseteq 0..MaxSeq BY VersionType, <1>1
<1>3. R \in SUBSET Nat /\ R # {}
  <2>1. R # {} OBVIOUS
  <2> HIDE DEF T
  <2>2. \A t \in T : MaxSeq - t \in Nat BY <1>1, <1>2
  <2> QED BY <2>1, <2>2
<1>4. \E x \in T : \A y \in T : x >= y
  <2>1. PICK m \in R : \A k \in R : m <= k
    <3> HIDE DEF R
    <3> QED BY <1>3, LeastExists
  <2> HIDE DEF T
  <2>2. PICK t \in T : m = MaxSeq - t BY <2>1
  <2>3. ASSUME NEW y \in T PROVE t >= y
    <3>1. MaxSeq - t <= MaxSeq - y BY <2>1, <2>2
    <3>2. t \in 0..MaxSeq /\ y \in 0..MaxSeq BY <1>2
    <3> QED BY <3>1, <3>2, <1>1
  <2> QED BY <2>3
<1>5. Reached(S) \in T
  <2>1. Reached(S) = Max(T) BY DEF Reached
  <2> HIDE DEF T
  <2>2. Max(T) \in T BY <1>4 DEF Max
  <2> QED BY <2>1, <2>2
<1> QED BY <1>2, <1>5

-----------------------------------------------------------------------------
(* The inductive invariant.                                                 *)

CalendarType ==
  /\ row \in [Booking -> Row] /\ open \subseteq Booking \X Types
  /\ appt \in [Appt -> Appointment] /\ decided \subseteq Booking
  /\ \A b \in Booking : row[b].state = "ignored" => row[b].appt = NoAppt

MediaType ==
  /\ medium \in [Booking -> Version] /\ mail \subseteq Version
  /\ mapped \in BOOLEAN /\ cursor \in 0..MaxSeq
  /\ used \in [seq: 0..MaxSeq, upsets: 0..MaxUpsets]

SyncType == sync \in [Worker -> Job]

(* A sync that inserts a row or records an error does so for a version.     *)
Busy == \A w \in Worker : sync[w].phase \in {"inserting", "recording"} => sync[w].todo # {}

(* What is not stored has no version yet.                                   *)
NoneIsUnseen == \A b \in Booking : row[b].state = "none" => row[b].v.seq = 0

(* An appointment stands for one booking.                                   *)
OneBooking == \A b, c \in Booking : row[b].appt = row[c].appt /\ row[b].appt # NoAppt => b = c

Told(b) ==
  Exists(b) /\ row[b].v.booked =>
    \/ Mirrors(b) \/ row[b].state = "error" \/ b \in decided
    \/ \E type \in Types : <<b, type>> \in open

CalendarInv == CalendarType /\ NoneIsUnseen /\ OneBooking /\ \A b \in Booking : Told(b)

SyncInv == MediaType /\ SyncType /\ Busy /\ CalendarInv

LEMMA RowType ==
  ASSUME CalendarType, NEW b \in Booking
  PROVE  /\ row[b] \in Row /\ row[b].v \in Version /\ row[b].hash \in BOOLEAN
         /\ row[b].appt \in Appt \cup {NoAppt}
BY DEF CalendarType, Row

LEMMA ApptType ==
  ASSUME CalendarType, NEW a \in Appt
  PROVE  /\ appt[a] \in Appointment /\ a # NoAppt
         /\ appt[a].status \in {"none", "booked", "started", "cancelled", "displaced"}
         /\ appt[a].slot \in Slot /\ appt[a].for \in SUBSET Booking
BY ExternalAssumption DEF CalendarType, Appointment, ExternalAssumption, NoAppt

-----------------------------------------------------------------------------
(* A step that changes one row, or none.                                    *)

(* What a step leaves to a booking that it is not about.                    *)
Undisturbed(c) ==
  /\ c \in decided => c \in decided'
  /\ \A type \in Types : <<c, type>> \in open => <<c, type>> \in open'
  /\ Mirrors(c) => Mirrors(c)' \/ c \in decided'

LEMMA StaysTold ==
  ASSUME NEW c \in Booking, Told(c), row'[c] = row[c], Undisturbed(c)
  PROVE  Told(c)'
BY DEF Told, Undisturbed, Exists

LEMMA RowChange ==
  ASSUME CalendarInv, NEW b \in Booking, NEW new \in Row, row' = [row EXCEPT ![b] = new],
         new.state = "none" => new.v.seq = 0, new.state = "ignored" => new.appt = NoAppt,
         \A c \in Booking \ {b} : new.appt # NoAppt => row[c].appt # new.appt,
         open' \subseteq Booking \X Types, appt' \in [Appt -> Appointment], decided' \subseteq Booking,
         \A c \in Booking \ {b} : Undisturbed(c),
         Told(b)'
  PROVE  CalendarInv'
<1>1. row \in [Booking -> Row] BY DEF CalendarInv, CalendarType
<1>2. row' \in [Booking -> Row] /\ row'[b] = new BY <1>1
<1>3. \A c \in Booking \ {b} : row'[c] = row[c] BY <1>1
<1>4. CalendarType' BY <1>2, <1>3 DEF CalendarInv, CalendarType
<1>5. NoneIsUnseen' BY <1>2, <1>3 DEF CalendarInv, NoneIsUnseen
<1>6. OneBooking' BY <1>2, <1>3 DEF CalendarInv, OneBooking
<1>7. \A c \in Booking : Told(c)' BY <1>3, StaysTold DEF CalendarInv
<1> QED BY <1>4, <1>5, <1>6, <1>7 DEF CalendarInv

LEMMA NoRowChange ==
  ASSUME CalendarInv, UNCHANGED <<row, open>>,
         appt' \in [Appt -> Appointment], decided' \subseteq Booking,
         \A c \in Booking : Undisturbed(c)
  PROVE  CalendarInv'
<1>1. CalendarType' BY DEF CalendarInv, CalendarType
<1>2. NoneIsUnseen' /\ OneBooking' BY DEF CalendarInv, NoneIsUnseen, OneBooking
<1>3. \A c \in Booking : Told(c)' BY StaysTold DEF CalendarInv
<1> QED BY <1>1, <1>2, <1>3 DEF CalendarInv

(* A booking keeps its place when its appointment does.                     *)
LEMMA MirrorStays ==
  ASSUME NEW c \in Booking, row'[c] = row[c],
         row[c].appt # NoAppt => appt'[row[c].appt] = appt[row[c].appt]
  PROVE  Mirrors(c) => Mirrors(c)'
BY DEF Mirrors, Active, Started

LEMMA FreshOne ==
  ASSUME CalendarType, Fresh # {}
  PROVE  /\ Least(Fresh) \in Appt /\ ~Active(Least(Fresh)) /\ Least(Fresh) # NoAppt
         /\ \A c \in Booking : row[c].appt # Least(Fresh)
<1>1. Fresh \in SUBSET Nat BY ExternalAssumption DEF Fresh, ExternalAssumption
<1>2. Least(Fresh) \in Fresh BY <1>1, LeastOf
<1> QED BY <1>2, ApptType DEF Fresh, Linked

-----------------------------------------------------------------------------
(* One version applied to its booking.                                      *)

Stored(b, v) == row'[b].v = v /\ \A c \in Booking \ {b} : row'[c] = row[c]

LEMMA StateSet ==
  ASSUME CalendarType, NEW b \in Booking, NEW v \in Version, NEW h \in BOOLEAN,
         NEW st \in {"synced", "conflict", "error", "ignored"}, NEW a \in Appt \cup {NoAppt},
         SetState(b, v, st, h, a)
  PROVE  /\ [state |-> st, v |-> v, hash |-> h, appt |-> a] \in Row
         /\ row' = [row EXCEPT ![b] = [state |-> st, v |-> v, hash |-> h, appt |-> a]]
         /\ row'[b] = [state |-> st, v |-> v, hash |-> h, appt |-> a]
         /\ Stored(b, v)
BY DEF CalendarType, Row, SetState, Stored

LEMMA ConflictsClosed ==
  ASSUME CalendarType, NEW b \in Booking, CloseConflicts(b)
  PROVE  /\ open' \subseteq Booking \X Types
         /\ \A c \in Booking \ {b}, type \in Types : <<c, type>> \in open => <<c, type>> \in open'
BY DEF CalendarType, CloseConflicts

LEMMA ConflictOpened ==
  ASSUME CalendarType, NEW b \in Booking, NEW type \in Types, OpenConflict(b, type)
  PROVE  /\ open' \subseteq Booking \X Types /\ <<b, type>> \in open'
         /\ \A c \in Booking, t \in Types : <<c, t>> \in open => <<c, t>> \in open'
BY DEF CalendarType, OpenConflict

LEMMA KeptIs ==
  ASSUME CalendarType, NEW b \in Booking
  PROVE  /\ Kept(b) \in Appt \cup {NoAppt}
         /\ Kept(b) # NoAppt => Kept(b) = row[b].appt /\ Editable(row[b].appt)
BY RowType DEF Kept

LEMMA CallOffKeeps ==
  ASSUME CalendarInv, NEW b \in Booking, NEW v \in Version, NEW h \in BOOLEAN,
         CallOff(b, v, h)
  PROVE  CalendarInv' /\ Stored(b, v)
<1> DEFINE a == row[b].appt
           st == IF a # NoAppt THEN "synced" ELSE "ignored"
<1>0. CalendarType BY DEF CalendarInv
<1>1. a \in Appt \cup {NoAppt} BY <1>0, RowType
<1>2. st \in {"synced", "conflict", "error", "ignored"} /\ (st = "ignored" => a = NoAppt) /\ st # "none" OBVIOUS
<1>3. SetState(b, v, st, h, a) BY DEF CallOff
<1> DEFINE new == [state |-> st, v |-> v, hash |-> h, appt |-> a]
<1>5. /\ new \in Row /\ row' = [row EXCEPT ![b] = new] /\ row'[b] = new /\ Stored(b, v)
      /\ new.state # "none" /\ (new.state = "ignored" => new.appt = NoAppt)
  <2> HIDE DEF st, a
  <2> QED BY <1>0, <1>1, <1>2, <1>3, StateSet
<1>6. \A c \in Booking \ {b} : new.appt # NoAppt => row[c].appt # new.appt BY DEF CalendarInv, OneBooking
<1>7. /\ open' \subseteq Booking \X Types /\ decided' \subseteq Booking
      /\ \A c \in Booking \ {b}, type \in Types : <<c, type>> \in open => <<c, type>> \in open'
      /\ \A c \in Booking \ {b} : c \in decided => c \in decided'
  BY <1>0, ConflictsClosed DEF CallOff, Settled, CalendarType
<1>8. /\ appt' \in [Appt -> Appointment]
      /\ \A d \in Appt : d # a => appt'[d] = appt[d]
  <2>1. CASE Editable(a)
    <3>1. a \in Appt BY <1>1, <2>1 DEF Editable
    <3>2. appt' = [appt EXCEPT ![a].status = "cancelled"] BY <2>1 DEF CallOff
    <3>3. appt \in [Appt -> Appointment] BY <1>0 DEF CalendarType
    <3> HIDE DEF a
    <3> QED BY <3>1, <3>2, <3>3 DEF Appointment
  <2>2. CASE ~Editable(a) BY <1>0, <2>2 DEF CallOff, CalendarType
  <2> QED BY <2>1, <2>2
<1>9. ASSUME NEW c \in Booking \ {b} PROVE Undisturbed(c)
  <2>1. row[c].appt # NoAppt => row[c].appt \in Appt /\ row[c].appt # a
    BY <1>0, RowType DEF CalendarInv, OneBooking
  <2>2. Mirrors(c) => Mirrors(c)' BY <1>5, <1>8, <2>1, MirrorStays DEF Stored
  <2> QED BY <1>7, <2>2 DEF Undisturbed
<1>10. Told(b)' BY <1>5 DEF Told, CallOff
<1> HIDE DEF new
<1> QED BY <1>5, <1>6, <1>7, <1>8, <1>9, <1>10, RowChange

LEMMA LeaveStartedKeeps ==
  ASSUME CalendarInv, NEW b \in Booking, NEW v \in Version, NEW h \in BOOLEAN,
         LeaveStarted(b, v, h)
  PROVE  CalendarInv' /\ Stored(b, v)
<1> DEFINE a == row[b].appt
           new == [state |-> "synced", v |-> v, hash |-> h, appt |-> a]
<1>0. CalendarType BY DEF CalendarInv
<1>1. a \in Appt \cup {NoAppt} BY <1>0, RowType
<1>2. SetState(b, v, "synced", h, a) BY DEF LeaveStarted
<1>3. /\ new \in Row /\ row' = [row EXCEPT ![b] = new] /\ row'[b] = new /\ Stored(b, v)
      /\ new.state = "synced"
  <2> HIDE DEF a
  <2> QED BY <1>0, <1>1, <1>2, StateSet
<1>4. \A c \in Booking \ {b} : new.appt # NoAppt => row[c].appt # new.appt BY DEF CalendarInv, OneBooking
<1>5. /\ open' \subseteq Booking \X Types /\ decided' \subseteq Booking /\ appt' \in [Appt -> Appointment]
      /\ UNCHANGED <<open, appt>> /\ decided' = decided \ {b}
  BY <1>0 DEF LeaveStarted, Settled, CalendarType
<1>6. ASSUME NEW c \in Booking \ {b} PROVE Undisturbed(c)
  <2>1. Mirrors(c) => Mirrors(c)' BY <1>3, <1>5, MirrorStays DEF Stored
  <2> QED BY <1>5, <2>1 DEF Undisturbed
<1>7. Told(b)'
  <2>1. Mirrors(b)' BY <1>3, <1>5 DEF Mirrors, LeaveStarted, Started, Active
  <2> QED BY <2>1 DEF Told
<1> HIDE DEF new
<1> QED BY <1>3, <1>4, <1>5, <1>6, <1>7, RowChange

LEMMA UpdateKeeps ==
  ASSUME CalendarInv, NEW b \in Booking, NEW v \in Version, NEW h \in BOOLEAN,
         Update(b, v, h)
  PROVE  CalendarInv' /\ Stored(b, v)
<1> DEFINE a == row[b].appt
           new == [state |-> "synced", v |-> v, hash |-> h, appt |-> a]
<1>0. CalendarType BY DEF CalendarInv
<1>1. a \in Appt /\ a # NoAppt BY <1>0, RowType DEF Update, Editable
<1>2. SetState(b, v, "synced", h, a) BY DEF Update
<1>3. /\ new \in Row /\ row' = [row EXCEPT ![b] = new] /\ row'[b] = new /\ Stored(b, v)
      /\ new.state = "synced"
  <2> HIDE DEF a
  <2> QED BY <1>0, <1>1, <1>2, StateSet
<1>4. \A c \in Booking \ {b} : row[c].appt # a BY <1>1 DEF CalendarInv, OneBooking
<1>5. /\ open' \subseteq Booking \X Types /\ decided' = decided \ {b} /\ decided' \subseteq Booking
      /\ \A c \in Booking \ {b}, type \in Types : <<c, type>> \in open => <<c, type>> \in open'
  BY <1>0, ConflictsClosed DEF Update, Settled, CalendarType
<1>6. /\ appt' \in [Appt -> Appointment] /\ appt'[a].slot = v.slot /\ appt'[a].status = "booked"
      /\ \A d \in Appt : d # a => appt'[d] = appt[d]
  <2>1. appt' = [appt EXCEPT ![a].slot = v.slot] BY DEF Update
  <2>2. appt \in [Appt -> Appointment] BY <1>0 DEF CalendarType
  <2>3. v.slot \in Slot BY VersionType
  <2>4. appt[a].status = "booked" BY DEF Update, Editable
  <2> HIDE DEF a
  <2> QED BY <1>1, <2>1, <2>2, <2>3, <2>4 DEF Appointment
<1>7. ASSUME NEW c \in Booking \ {b} PROVE Undisturbed(c)
  <2>1. row[c].appt # NoAppt => row[c].appt \in Appt /\ row[c].appt # a BY <1>0, <1>4, RowType
  <2>2. Mirrors(c) => Mirrors(c)' BY <1>3, <1>6, <2>1, MirrorStays DEF Stored
  <2> QED BY <1>5, <2>2 DEF Undisturbed
<1>8. Told(b)'
  <2>1. Mirrors(b)' BY <1>1, <1>3, <1>6 DEF Mirrors, Active
  <2> QED BY <2>1 DEF Told
<1>9. \A c \in Booking \ {b} : new.appt # NoAppt => row[c].appt # new.appt BY <1>4
<1> HIDE DEF new
<1> QED BY <1>3, <1>5, <1>6, <1>7, <1>8, <1>9, RowChange

LEMMA LinkTwinKeeps ==
  ASSUME CalendarInv, NEW b \in Booking, NEW v \in Version, NEW h \in BOOLEAN,
         LinkTwin(b, v, h)
  PROVE  CalendarInv' /\ Stored(b, v)
<1>0. CalendarType BY DEF CalendarInv
<1>1. PICK a \in Twins(b, v) : SetState(b, v, "synced", h, a) BY DEF LinkTwin
<1>2. a \in Appt /\ a # NoAppt /\ Active(a) /\ appt[a].slot = v.slot /\ \A c \in Booking : row[c].appt # a
  BY <1>0, ApptType DEF Twins, Holders, Linked
<1> DEFINE new == [state |-> "synced", v |-> v, hash |-> h, appt |-> a]
<1>3. /\ new \in Row /\ row' = [row EXCEPT ![b] = new] /\ row'[b] = new /\ Stored(b, v)
      /\ new.state = "synced" /\ new.appt = a
  BY <1>0, <1>1, <1>2, StateSet
<1>5. /\ open' \subseteq Booking \X Types /\ decided' = decided \ {b} /\ decided' \subseteq Booking
      /\ \A c \in Booking \ {b}, type \in Types : <<c, type>> \in open => <<c, type>> \in open'
      /\ appt' = appt /\ appt' \in [Appt -> Appointment]
  BY <1>0, ConflictsClosed DEF LinkTwin, Settled, CalendarType
<1>7. ASSUME NEW c \in Booking \ {b} PROVE Undisturbed(c)
  <2>1. Mirrors(c) => Mirrors(c)' BY <1>3, <1>5, MirrorStays DEF Stored
  <2> QED BY <1>5, <2>1 DEF Undisturbed
<1>8. Told(b)'
  <2>1. Mirrors(b)' BY <1>2, <1>3, <1>5 DEF Mirrors, Active
  <2> QED BY <2>1 DEF Told
<1>9. \A c \in Booking \ {b} : new.appt # NoAppt => row[c].appt # new.appt BY <1>2
<1> HIDE DEF new
<1> QED BY <1>3, <1>5, <1>7, <1>8, <1>9, RowChange

LEMMA CreateKeeps ==
  ASSUME CalendarInv, NEW b \in Booking, NEW v \in Version, NEW h \in BOOLEAN,
         Create(b, v, h)
  PROVE  CalendarInv' /\ Stored(b, v)
<1> DEFINE a == Least(Fresh)
           new == [state |-> "synced", v |-> v, hash |-> h, appt |-> a]
<1>0. CalendarType BY DEF CalendarInv
<1>1. a \in Appt /\ a # NoAppt /\ \A c \in Booking : row[c].appt # a BY <1>0, FreshOne DEF Create
<1>2. SetState(b, v, "synced", h, a) BY DEF Create
<1>4. appt' = [appt EXCEPT ![a] = [status |-> "booked", slot |-> v.slot, for |-> {b}]] BY DEF Create
<1> HIDE DEF a
<1>3. /\ new \in Row /\ row' = [row EXCEPT ![b] = new] /\ row'[b] = new /\ Stored(b, v)
      /\ new.state = "synced" /\ new.appt = a
  BY <1>0, <1>1, <1>2, StateSet
<1>5. /\ open' \subseteq Booking \X Types /\ decided' = decided \ {b} /\ decided' \subseteq Booking
      /\ \A c \in Booking \ {b}, type \in Types : <<c, type>> \in open => <<c, type>> \in open'
  BY <1>0, ConflictsClosed DEF Create, Settled, CalendarType
<1>6. /\ appt' \in [Appt -> Appointment] /\ appt'[a].slot = v.slot /\ appt'[a].status = "booked"
      /\ \A d \in Appt : d # a => appt'[d] = appt[d]
  <2>2. appt \in [Appt -> Appointment] BY <1>0 DEF CalendarType
  <2>3. v.slot \in Slot BY VersionType
  <2> QED BY <1>1, <1>4, <2>2, <2>3 DEF Appointment
<1>7. ASSUME NEW c \in Booking \ {b} PROVE Undisturbed(c)
  <2>1. row[c].appt # NoAppt => row[c].appt \in Appt /\ row[c].appt # a BY <1>0, <1>1, RowType
  <2>2. Mirrors(c) => Mirrors(c)' BY <1>3, <1>6, <2>1, MirrorStays DEF Stored
  <2> QED BY <1>5, <2>2 DEF Undisturbed
<1>8. Told(b)'
  <2>1. Mirrors(b)' BY <1>1, <1>3, <1>6 DEF Mirrors, Active
  <2> QED BY <2>1 DEF Told
<1>9. \A c \in Booking \ {b} : new.appt # NoAppt => row[c].appt # new.appt BY <1>1
<1> HIDE DEF new
<1> QED BY <1>3, <1>5, <1>6, <1>7, <1>8, <1>9, RowChange

LEMMA DisplaceKeeps ==
  ASSUME CalendarInv, NEW b \in Booking, NEW v \in Version, NEW h \in BOOLEAN,
         Displace(b, v, h)
  PROVE  CalendarInv' /\ Stored(b, v)
<1> DEFINE a == IF Kept(b) # NoAppt THEN Kept(b) ELSE Least(Fresh)
           out == Clashes(b, v)
           new == [state |-> "synced", v |-> v, hash |-> h, appt |-> a]
<1>0. CalendarType BY DEF CalendarInv
<1>1. a \in Appt /\ a # NoAppt /\ \A c \in Booking \ {b} : row[c].appt # a
  <2>1. CASE Kept(b) # NoAppt
    <3>1. a = row[b].appt /\ a \in Appt BY <1>0, <2>1, KeptIs
    <3> QED BY <2>1, <3>1 DEF CalendarInv, OneBooking
  <2>2. CASE Kept(b) = NoAppt BY <1>0, <2>2, FreshOne DEF Displace
  <2> QED BY <2>1, <2>2
<1>2. SetState(b, v, "synced", h, a) BY DEF Displace
<1>4. appt' = [c \in Appt |-> IF c = a THEN [status |-> "booked", slot |-> v.slot,
                                              for |-> IF Kept(b) = a THEN appt[a].for ELSE {b}]
                              ELSE IF c \in out THEN [appt[c] EXCEPT !.status = "displaced"] ELSE appt[c]]
  BY DEF Displace
<1>5. decided' = (decided \ {b}) \cup {c \in Booking : row[c].appt \in out} BY DEF Displace
<1>6. /\ open' \subseteq Booking \X Types
      /\ \A c \in Booking \ {b}, type \in Types : <<c, type>> \in open => <<c, type>> \in open'
  BY <1>0, ConflictsClosed DEF Displace
<1> HIDE DEF a, out
<1>3. /\ new \in Row /\ row' = [row EXCEPT ![b] = new] /\ row'[b] = new /\ Stored(b, v)
      /\ new.state = "synced" /\ new.appt = a
  BY <1>0, <1>1, <1>2, StateSet
<1>7. decided' \subseteq Booking BY <1>0, <1>5 DEF CalendarType
<1>8. /\ appt' \in [Appt -> Appointment] /\ appt'[a].slot = v.slot /\ appt'[a].status = "booked"
      /\ \A d \in Appt : d # a /\ d \notin out => appt'[d] = appt[d]
  <2>1. \A c \in Appt : [appt[c] EXCEPT !.status = "displaced"] \in Appointment
    BY <1>0 DEF CalendarType, Appointment
  <2>2. [status |-> "booked", slot |-> v.slot, for |-> IF Kept(b) = a THEN appt[a].for ELSE {b}] \in Appointment
    <3>1. appt[a].for \in SUBSET Booking BY <1>0, <1>1, ApptType
    <3>2. v.slot \in Slot BY VersionType
    <3> QED BY <3>1, <3>2 DEF Appointment
  <2>3. \A c \in Appt : appt[c] \in Appointment BY <1>0 DEF CalendarType
  <2>4. appt' \in [Appt -> Appointment] BY <1>4, <2>1, <2>2, <2>3
  <2> QED BY <1>1, <1>4, <2>4
<1>9. ASSUME NEW c \in Booking \ {b} PROVE Undisturbed(c)
  <2>1. row[c].appt # NoAppt => row[c].appt \in Appt /\ row[c].appt # a BY <1>0, <1>1, RowType
  <2>2. row[c].appt \notin out => (Mirrors(c) => Mirrors(c)') BY <1>3, <1>8, <2>1, MirrorStays DEF Stored
  <2>3. row[c].appt \in out => c \in decided' BY <1>5
  <2> QED BY <1>5, <1>6, <2>2, <2>3 DEF Undisturbed
<1>10. Told(b)'
  <2>1. Mirrors(b)' BY <1>1, <1>3, <1>8 DEF Mirrors, Active
  <2> QED BY <2>1 DEF Told
<1>11. \A c \in Booking \ {b} : new.appt # NoAppt => row[c].appt # new.appt BY <1>1
<1> HIDE DEF new
<1> QED BY <1>3, <1>6, <1>7, <1>8, <1>9, <1>10, <1>11, RowChange

(* The calendar stays, the booking is set aside with a reason staff can see. *)
LEMMA SetAsideKeeps ==
  ASSUME CalendarInv, NEW b \in Booking, NEW v \in Version, NEW h \in BOOLEAN,
         NEW st \in {"conflict", "error"}, NEW a \in Appt \cup {NoAppt}, a # NoAppt => a = row[b].appt,
         SetState(b, v, st, h, a), appt' = appt,
         open' \subseteq Booking \X Types, decided' \subseteq Booking,
         \A c \in Booking \ {b}, type \in Types : <<c, type>> \in open => <<c, type>> \in open',
         \A c \in Booking \ {b} : c \in decided => c \in decided',
         st = "error" \/ b \in decided' \/ \E type \in Types : <<b, type>> \in open'
  PROVE  CalendarInv' /\ Stored(b, v)
<1> DEFINE new == [state |-> st, v |-> v, hash |-> h, appt |-> a]
<1>0. CalendarType BY DEF CalendarInv
<1>1. st \in {"synced", "conflict", "error", "ignored"} OBVIOUS
<1>3. /\ new \in Row /\ row' = [row EXCEPT ![b] = new] /\ row'[b] = new /\ Stored(b, v)
      /\ new.state = st /\ new.appt = a
  BY <1>0, <1>1, StateSet
<1>4. \A c \in Booking \ {b} : new.appt # NoAppt => row[c].appt # new.appt
  BY <1>3 DEF CalendarInv, OneBooking
<1>5. appt' \in [Appt -> Appointment] BY <1>0 DEF CalendarType
<1>6. ASSUME NEW c \in Booking \ {b} PROVE Undisturbed(c)
  <2>1. Mirrors(c) => Mirrors(c)' BY <1>3, MirrorStays DEF Stored
  <2> QED BY <2>1 DEF Undisturbed
<1>7. Told(b)' BY <1>3 DEF Told
<1> HIDE DEF new
<1> QED BY <1>3, <1>4, <1>5, <1>6, <1>7, RowChange

LEMMA UnknownStaffKeeps ==
  ASSUME CalendarInv, NEW b \in Booking, NEW v \in Version, UnknownStaff(b, v)
  PROVE  CalendarInv' /\ Stored(b, v)
<1>0. CalendarType BY DEF CalendarInv
<1>1. row[b].appt \in Appt \cup {NoAppt} BY <1>0, RowType
<1>2. /\ open' \subseteq Booking \X Types /\ <<b, "unknown_staff">> \in open'
      /\ \A c \in Booking, t \in Types : <<c, t>> \in open => <<c, t>> \in open'
  BY <1>0, ConflictOpened DEF UnknownStaff, Types
<1>3. decided' = decided \ {b} /\ decided' \subseteq Booking /\ appt' = appt
  BY <1>0 DEF UnknownStaff, Settled, CalendarType
<1>4. SetState(b, v, "conflict", FALSE, row[b].appt) BY DEF UnknownStaff
<1> QED BY <1>1, <1>2, <1>3, <1>4, SetAsideKeeps DEF Types

LEMMA RejectKeeps ==
  ASSUME CalendarInv, NEW b \in Booking, NEW v \in Version, Reject(b, v)
  PROVE  CalendarInv' /\ Stored(b, v)
<1>0. CalendarType BY DEF CalendarInv
<1>1. Kept(b) \in Appt \cup {NoAppt} /\ (Kept(b) # NoAppt => Kept(b) = row[b].appt) BY <1>0, KeptIs
<1>2. /\ decided' = decided \ {b} /\ decided' \subseteq Booking /\ appt' = appt
      /\ open' = open /\ open' \subseteq Booking \X Types
  BY <1>0 DEF Reject, Settled, CalendarType
<1>3. SetState(b, v, "error", FALSE, Kept(b)) BY DEF Reject
<1> QED BY <1>1, <1>2, <1>3, SetAsideKeeps

LEMMA OverlapKeeps ==
  ASSUME CalendarInv, NEW b \in Booking, NEW v \in Version, NEW h \in BOOLEAN, NEW policy \in Policies,
         Overlap(b, v, h, policy)
  PROVE  CalendarInv' /\ Stored(b, v)
<1>0. CalendarType BY DEF CalendarInv
<1>1. Kept(b) \in Appt \cup {NoAppt} /\ (Kept(b) # NoAppt => Kept(b) = row[b].appt) BY <1>0, KeptIs
<1>2. SetState(b, v, "conflict", h, Kept(b)) /\ appt' = appt BY DEF Overlap
<1>3. CASE policy = "internal_wins"
  <2>1. decided' = decided \cup {b} /\ open' = open BY <1>3 DEF Overlap
  <2>2. decided' \subseteq Booking /\ open' \subseteq Booking \X Types BY <1>0, <2>1 DEF CalendarType
  <2> QED BY <1>1, <1>2, <2>1, <2>2, SetAsideKeeps
<1>4. CASE policy # "internal_wins"
  <2>1. /\ open' \subseteq Booking \X Types /\ <<b, "overlap">> \in open'
        /\ \A c \in Booking, t \in Types : <<c, t>> \in open => <<c, t>> \in open'
    BY <1>0, <1>4, ConflictOpened DEF Overlap, Types
  <2>2. decided' = decided \ {b} /\ decided' \subseteq Booking
    BY <1>0, <1>4 DEF Overlap, Settled, CalendarType
  <2> QED BY <1>1, <1>2, <2>1, <2>2, SetAsideKeeps DEF Types
<1> QED BY <1>3, <1>4

LEMMA ReflectKeeps ==
  ASSUME CalendarInv, NEW b \in Booking, NEW v \in Version, NEW h \in BOOLEAN, NEW policy,
         Reflect(b, v, h, policy)
  PROVE  CalendarInv' /\ Stored(b, v)
BY CallOffKeeps, LeaveStartedKeeps, UpdateKeeps, LinkTwinKeeps, CreateKeeps, DisplaceKeeps DEF Reflect

LEMMA ProcessKeeps ==
  ASSUME CalendarInv, NEW v \in Version, Process(v)
  PROVE  /\ CalendarInv'
         /\ \A b \in Booking : row'[b].v.seq >= row[b].v.seq
<1>0. CalendarType BY DEF CalendarInv
<1>1. v.of \in Booking /\ v.seq \in Nat BY VersionType
<1>2. \A b \in Booking : row[b].v.seq \in Nat BY <1>0, RowType, VersionType
<1>3. CASE Skipped(v) /\ UNCHANGED <<row, open, appt, decided, used>>
  <2>1. appt' \in [Appt -> Appointment] /\ decided' \subseteq Booking BY <1>0, <1>3 DEF CalendarType
  <2>2. \A c \in Booking : Undisturbed(c) BY <1>3, MirrorStays DEF Undisturbed
  <2>3. CalendarInv' BY <1>3, <2>1, <2>2, NoRowChange
  <2> QED BY <1>2, <1>3, <2>3
<1>4. CASE /\ ~Skipped(v)
           /\ \/ \E policy \in Policies : Apply(v.of, v, TRUE, policy)
              \/ Reject(v.of, v)
  <2>1. CalendarInv' /\ Stored(v.of, v)
    <3>1. CASE Reject(v.of, v) BY <1>1, <3>1, RejectKeeps
    <3>2. CASE \E policy \in Policies : Apply(v.of, v, TRUE, policy)
      BY <1>1, <3>2, ReflectKeeps, UnknownStaffKeeps, OverlapKeeps DEF Apply
    <3> QED BY <1>4, <3>1, <3>2
  <2>2. v.seq >= row[v.of].v.seq
    <3>1. CASE Exists(v.of) BY <1>1, <1>2, <1>4, <3>1 DEF Skipped
    <3>2. CASE ~Exists(v.of)
      <4>1. row[v.of].v.seq = 0 BY <1>1, <3>2 DEF Exists, CalendarInv, NoneIsUnseen
      <4> QED BY <1>1, <4>1
    <3> QED BY <3>1, <3>2
  <2> QED BY <1>2, <2>1, <2>2 DEF Stored
<1> QED BY <1>3, <1>4 DEF Process

-----------------------------------------------------------------------------
(* Every step.                                                              *)

NoneOlder == \A b \in Booking : row'[b].v.seq >= row[b].v.seq

LEMMA UnchangedCalendar ==
  ASSUME CalendarInv, UNCHANGED Calendar
  PROVE  CalendarInv' /\ NoneOlder
<1>1. CalendarInv'
  BY DEF CalendarInv, CalendarType, NoneIsUnseen, OneBooking, Told, Exists, Mirrors, Active, Started, Calendar
<1>2. \A b \in Booking : row[b].v.seq \in Nat BY RowType, VersionType DEF CalendarInv
<1> QED BY <1>1, <1>2 DEF NoneOlder, Calendar

LEMMA FirstIs ==
  ASSUME SyncType, NEW w \in Worker, sync[w].todo # {}
  PROVE  First(w) \in sync[w].todo /\ First(w) \in Version /\ First(w).of \in Booking
<1>1. sync[w].todo \in SUBSET Version BY DEF SyncType, Job
<1>2. First(w) \in sync[w].todo BY <1>1, FirstOf DEF First
<1> QED BY <1>1, <1>2, VersionType

(* Types of the syncs: a sync moves to another phase, takes a version off   *)
(* its list, or starts with one.                                            *)
LEMMA ProceedKeeps ==
  ASSUME SyncType, Busy, NEW w \in Worker,
         NEW phase \in {"applying", "inserting", "recording"}, sync[w].todo # {}, Proceed(w, phase)
  PROVE  SyncType' /\ Busy'
BY DEF SyncType, Busy, Job, Proceed

LEMMA DoneKeeps ==
  ASSUME SyncType, Busy, NEW w \in Worker, Done(w)
  PROVE  SyncType' /\ Busy'
<1> DEFINE new == [sync[w] EXCEPT !.phase = "applying", !.todo = sync[w].todo \ {First(w)}]
<1>1. sync' = [sync EXCEPT ![w] = new] BY DEF Done
<1>2. new \in Job /\ new.phase = "applying" BY DEF SyncType, Job
<1> HIDE DEF new
<1> QED BY <1>1, <1>2 DEF SyncType, Busy

LEMMA NewJobKeeps ==
  ASSUME SyncType, Busy, NEW w \in Worker, NEW new \in Job,
         new.phase \notin {"inserting", "recording"}, sync' = [sync EXCEPT ![w] = new]
  PROVE  SyncType' /\ Busy'
BY DEF SyncType, Busy

LEMMA UpsetType ==
  ASSUME MediaType, Upset
  PROVE  used' \in [seq: 0..MaxSeq, upsets: 0..MaxUpsets]
<1>1. MaxSeq \in Nat /\ MaxUpsets \in Nat BY ExternalAssumption DEF ExternalAssumption
<1>2. used.upsets \in 0..MaxUpsets /\ used.upsets + 1 <= MaxUpsets BY <1>1 DEF MediaType, Upset
<1> QED BY <1>1, <1>2 DEF MediaType, Upset

LEMMA ProcessUsed ==
  ASSUME MediaType, NEW v, Process(v)
  PROVE  used' \in [seq: 0..MaxSeq, upsets: 0..MaxUpsets]
BY UpsetType DEF MediaType, Process

LEMMA IdleType == Idle \in Job
BY ExternalAssumption DEF Idle, Job, ExternalAssumption

LEMMA FetchStep ==
  ASSUME SyncInv, NEW w \in Worker, FetchChanges(w) \/ FetchAll(w) \/ FetchMax(w)
  PROVE  SyncInv' /\ NoneOlder
<1>0. MediaType /\ SyncType /\ Busy /\ CalendarInv BY DEF SyncInv
<1>1. UNCHANGED <<medium, mail, Calendar, mapped, cursor, used>> BY DEF FetchChanges, FetchAll, FetchMax
<1>2. MediaType' BY <1>0, <1>1 DEF MediaType
<1>3. CalendarInv' /\ NoneOlder BY <1>0, <1>1, UnchangedCalendar
<1>4. \A b \in Booking : medium[b] \in Version BY <1>0 DEF MediaType
<1>5. cursor \in 0..MaxSeq /\ 0 \in 0..MaxSeq BY <1>0, ExternalAssumption DEF MediaType, ExternalAssumption
<1>6. SyncType' /\ Busy'
  <2>1. CASE FetchChanges(w)
    <3> DEFINE fresh == {medium[b] : b \in {p \in Polled : medium[p].seq > cursor}}
               new == [phase |-> "applying", todo |-> fresh,
                       next |-> IF fresh = {} THEN cursor ELSE Reached(fresh)]
    <3>1. sync' = [sync EXCEPT ![w] = new] BY <2>1 DEF FetchChanges
    <3>2. fresh \in SUBSET Version BY <1>4 DEF Polled
    <3> HIDE DEF fresh
    <3>3. Reached(fresh) \in 0..MaxSeq BY <3>2, ReachedOf
    <3>4. new \in Job /\ new.phase = "applying" BY <1>5, <3>2, <3>3 DEF Job
    <3> HIDE DEF new
    <3> QED BY <1>0, <3>1, <3>4, NewJobKeeps
  <2>2. CASE FetchAll(w)
    <3> DEFINE all == {v \in {medium[b] : b \in Polled} : v.seq > 0}
               new == [phase |-> "reading", next |-> 0, todo |-> all]
    <3>1. sync' = [sync EXCEPT ![w] = new] BY <2>2 DEF FetchAll
    <3>2. all \in SUBSET Version BY <1>4 DEF Polled
    <3> HIDE DEF all
    <3>3. new \in Job /\ new.phase = "reading" BY <1>5, <3>2 DEF Job
    <3> HIDE DEF new
    <3> QED BY <1>0, <3>1, <3>3, NewJobKeeps
  <2>3. CASE FetchMax(w)
    <3> DEFINE n == Reached({medium[b] : b \in Polled})
               new == [sync[w] EXCEPT !.phase = "applying", !.next = n]
    <3>1. sync' = [sync EXCEPT ![w] = new] BY <2>3 DEF FetchMax
    <3>2. n \in 0..MaxSeq
      <4>1. {medium[b] : b \in Polled} \in SUBSET Version BY <1>4 DEF Polled
      <4> QED BY <4>1, ReachedOf
    <3> HIDE DEF n
    <3>3. new \in Job /\ new.phase = "applying" BY <1>0, <3>2 DEF SyncType, Job
    <3> HIDE DEF new
    <3> QED BY <1>0, <3>1, <3>3, NewJobKeeps
  <2> QED BY <2>1, <2>2, <2>3
<1> QED BY <1>2, <1>3, <1>6 DEF SyncInv

LEMMA DeliverStep ==
  ASSUME SyncInv, NEW w \in Worker, Deliver(w) \/ Insert(w)
  PROVE  SyncInv' /\ NoneOlder
<1>0. MediaType /\ SyncType /\ Busy /\ CalendarInv BY DEF SyncInv
<1>1. sync[w].todo # {} BY <1>0 DEF Deliver, Insert, Busy
<1>2. First(w) \in Version BY <1>0, <1>1, FirstIs
<1>3. UNCHANGED <<medium, mail, mapped, cursor>> BY DEF Deliver, Insert
<1>4. CASE Process(First(w)) /\ Done(w)
  <2>1. CalendarInv' /\ NoneOlder BY <1>0, <1>2, <1>4, ProcessKeeps DEF NoneOlder
  <2>2. SyncType' /\ Busy' BY <1>0, <1>4, DoneKeeps
  <2>3. MediaType' BY <1>0, <1>3, <1>4, ProcessUsed DEF MediaType
  <2> QED BY <2>1, <2>2, <2>3 DEF SyncInv
<1>5. CASE \E phase \in {"inserting", "recording"} : Proceed(w, phase) /\ UNCHANGED <<Calendar, used>>
  <2>1. CalendarInv' /\ NoneOlder BY <1>0, <1>5, UnchangedCalendar
  <2>2. SyncType' /\ Busy' BY <1>0, <1>1, <1>5, ProceedKeeps
  <2>3. MediaType' BY <1>0, <1>3, <1>5 DEF MediaType
  <2> QED BY <2>1, <2>2, <2>3 DEF SyncInv
<1> QED BY <1>4, <1>5 DEF Deliver, Insert

LEMMA RecordStep ==
  ASSUME SyncInv, NEW w \in Worker, RecordBookingError(w)
  PROVE  SyncInv' /\ NoneOlder
<1>0. MediaType /\ SyncType /\ Busy /\ CalendarInv /\ CalendarType BY DEF SyncInv, CalendarInv
<1>1. sync[w].todo # {} BY <1>0 DEF RecordBookingError, Busy
<1>2. PICK b \in Booking, v \in Version : v = First(w) /\ b = v.of /\ v.seq \in Nat
  BY <1>0, <1>1, FirstIs, VersionType
<1> DEFINE new == Failed(b, v)
<1>3. UNCHANGED <<medium, mail, open, appt, decided, mapped, cursor, used>> BY DEF RecordBookingError
<1>4. row' = [row EXCEPT ![b] = new] /\ Done(w) BY <1>2 DEF RecordBookingError
<1>5. /\ new \in Row /\ new.state = "error" /\ new.appt = row[b].appt
      /\ new.v = IF Exists(b) THEN row[b].v ELSE v
  <2>1. row[b] \in Row BY <1>0, RowType
  <2>2. new = [row[b] EXCEPT !.state = "error", !.v = IF Exists(b) THEN row[b].v ELSE v, !.hash = FALSE]
    BY DEF Failed
  <2> HIDE DEF new
  <2> QED BY <2>1, <2>2 DEF Row
<1> HIDE DEF new
<1>6. row'[b] = new /\ \A c \in Booking \ {b} : row'[c] = row[c] BY <1>0, <1>2, <1>4 DEF CalendarType
<1>7. CalendarInv'
  <2>1. \A c \in Booking \ {b} : new.appt # NoAppt => row[c].appt # new.appt
    BY <1>0, <1>2, <1>5 DEF CalendarInv, OneBooking
  <2>2. open' \subseteq Booking \X Types /\ appt' \in [Appt -> Appointment] /\ decided' \subseteq Booking
    BY <1>0, <1>3 DEF CalendarType
  <2>3. \A c \in Booking \ {b} : Undisturbed(c) BY <1>3, <1>6, MirrorStays DEF Undisturbed
  <2>4. Told(b)' BY <1>5, <1>6 DEF Told
  <2> QED BY <1>0, <1>2, <1>4, <1>5, <2>1, <2>2, <2>3, <2>4, RowChange
<1>8. NoneOlder
  <2>1. \A c \in Booking : row[c].v.seq \in Nat BY <1>0, RowType, VersionType
  <2>2. new.v.seq >= row[b].v.seq
    <3>1. CASE Exists(b) BY <1>2, <1>5, <2>1, <3>1
    <3>2. CASE ~Exists(b)
      <4>1. row[b].v.seq = 0 BY <1>0, <1>2, <3>2 DEF Exists, CalendarInv, NoneIsUnseen
      <4> QED BY <1>2, <1>5, <3>2, <4>1
    <3> QED BY <3>1, <3>2
  <2> QED BY <1>6, <2>1, <2>2 DEF NoneOlder
<1>9. SyncType' /\ Busy' BY <1>0, <1>4, DoneKeeps
<1>10. MediaType' BY <1>0, <1>3 DEF MediaType
<1> QED BY <1>7, <1>8, <1>9, <1>10 DEF SyncInv

LEMMA QuietStep ==
  ASSUME SyncInv, NEW w \in Worker, Throw(w) \/ RecordFails(w) \/ Lose(w) \/ RecordSyncSuccess(w)
  PROVE  SyncInv' /\ NoneOlder
<1>0. MediaType /\ SyncType /\ Busy /\ CalendarInv BY DEF SyncInv
<1>1. UNCHANGED <<medium, mail, Calendar, mapped>> BY DEF Throw, RecordFails, Lose, RecordSyncSuccess
<1>2. CalendarInv' /\ NoneOlder BY <1>0, <1>1, UnchangedCalendar
<1>3. SyncType' /\ Busy'
  <2>1. CASE Throw(w) BY <1>0, <2>1, ProceedKeeps DEF Throw
  <2>2. CASE RecordFails(w) BY <1>0, <2>2, DoneKeeps DEF RecordFails
  <2>3. CASE Lose(w) \/ RecordSyncSuccess(w)
    <3>1. sync' = [sync EXCEPT ![w] = Idle] BY <2>3 DEF Lose, RecordSyncSuccess
    <3>2. Idle.phase = "idle" BY DEF Idle
    <3> QED BY <1>0, <3>1, <3>2, IdleType, NewJobKeeps
  <2> QED BY <2>1, <2>2, <2>3
<1>4. used' \in [seq: 0..MaxSeq, upsets: 0..MaxUpsets]
  BY <1>0, UpsetType DEF Throw, RecordFails, Lose, RecordSyncSuccess, MediaType
<1>5. cursor' \in 0..MaxSeq
  <2>1. sync[w].next \in 0..MaxSeq BY <1>0 DEF SyncType, Job
  <2> QED BY <1>0, <2>1 DEF Throw, RecordFails, Lose, RecordSyncSuccess, MediaType
<1>6. MediaType' BY <1>0, <1>1, <1>4, <1>5 DEF MediaType
<1> QED BY <1>2, <1>3, <1>6 DEF SyncInv

LEMMA MailStep ==
  ASSUME SyncInv, NEW v \in mail, ProcessMail(v)
  PROVE  SyncInv' /\ NoneOlder
<1>0. MediaType /\ SyncType /\ Busy /\ CalendarInv BY DEF SyncInv
<1>1. v \in Version BY <1>0 DEF MediaType
<1>2. UNCHANGED <<medium, mapped, cursor, sync>> /\ mail' = mail \ {v} BY DEF ProcessMail
<1>3. SyncType' /\ Busy' BY <1>0, <1>2 DEF SyncType, Busy
<1>4. CASE Process(v)
  <2>1. CalendarInv' /\ NoneOlder BY <1>0, <1>1, <1>4, ProcessKeeps DEF NoneOlder
  <2>2. MediaType' BY <1>0, <1>2, <1>4, ProcessUsed DEF MediaType
  <2> QED BY <1>3, <2>1, <2>2 DEF SyncInv
<1>5. CASE UNCHANGED <<Calendar, used>>
  <2>1. CalendarInv' /\ NoneOlder BY <1>0, <1>5, UnchangedCalendar
  <2>2. MediaType' BY <1>0, <1>2, <1>5 DEF MediaType
  <2> QED BY <1>3, <2>1, <2>2 DEF SyncInv
<1> QED BY <1>4, <1>5 DEF ProcessMail

LEMMA AcceptStep ==
  ASSUME CalendarInv, NEW b \in Booking, NEW type \in Types, AcceptExternal(b, type)
  PROVE  CalendarInv' /\ row'[b].v = row[b].v /\ \A c \in Booking \ {b} : row'[c] = row[c]
<1>0. CalendarType BY DEF CalendarInv
<1>1. PICK v \in Version, h \in BOOLEAN, a \in Appt \cup {NoAppt} :
        v = row[b].v /\ h = row[b].hash /\ a = row[b].appt
  BY <1>0, RowType
<1>2. CASE Reflect(b, row[b].v, row[b].hash, "external_wins")
  <2>1. Reflect(b, v, h, "external_wins") BY <1>1, <1>2
  <2> QED BY <1>1, <2>1, ReflectKeeps DEF Stored
<1>3. CASE /\ Started(row[b].appt) /\ Close(b, type) /\ Settled(b) /\ appt' = appt
           /\ SetState(b, row[b].v, "synced", row[b].hash, row[b].appt)
  <2> DEFINE new == [state |-> "synced", v |-> v, hash |-> h, appt |-> a]
  <2>1. SetState(b, v, "synced", h, a) BY <1>1, <1>3
  <2>2. /\ new \in Row /\ row' = [row EXCEPT ![b] = new] /\ row'[b] = new /\ Stored(b, v)
        /\ new.state = "synced" /\ new.appt = a
    BY <1>0, <2>1, StateSet
  <2>3. \A c \in Booking \ {b} : new.appt # NoAppt => row[c].appt # new.appt
    BY <1>1, <2>2 DEF CalendarInv, OneBooking
  <2>4. /\ open' \subseteq Booking \X Types /\ decided' \subseteq Booking /\ appt' \in [Appt -> Appointment]
        /\ decided' = decided \ {b}
        /\ \A c \in Booking \ {b}, t \in Types : <<c, t>> \in open => <<c, t>> \in open'
    BY <1>0, <1>3 DEF CalendarType, Close, Settled
  <2>5. ASSUME NEW c \in Booking \ {b} PROVE Undisturbed(c)
    <3>1. Mirrors(c) => Mirrors(c)' BY <1>3, <2>2, MirrorStays DEF Stored
    <3> QED BY <2>4, <3>1 DEF Undisturbed
  <2>6. Told(b)'
    <3>1. Mirrors(b)' BY <1>1, <1>3, <2>2 DEF Mirrors, Started, Active
    <3> QED BY <3>1 DEF Told
  <2> HIDE DEF new
  <2>7. CalendarInv' BY <2>2, <2>3, <2>4, <2>5, <2>6, RowChange
  <2> QED BY <1>1, <2>2, <2>7 DEF Stored
<1> QED BY <1>2, <1>3 DEF AcceptExternal

(* Staff decide by hand: the stored version stays, at most its appointment  *)
(* or its state changes.                                                    *)
LEMMA ByHandStep ==
  ASSUME CalendarInv, NEW b \in Booking, NEW type \in Types, KeepInternal(b, type) \/ ResolveManually(b, type)
  PROVE  CalendarInv' /\ row'[b].v = row[b].v /\ \A c \in Booking \ {b} : row'[c] = row[c]
<1>0. CalendarType BY DEF CalendarInv
<1>1. /\ decided' = decided \cup {b} /\ Close(b, type) /\ appt' = appt
  BY DEF KeepInternal, ResolveManually
<1>2. \E new \in Row :
        /\ row' = [row EXCEPT ![b] = new] /\ new.v = row[b].v
        /\ new.state = "none" => new.v.seq = 0
        /\ new.state = "ignored" => new.appt = NoAppt
        /\ \A c \in Booking \ {b} : new.appt # NoAppt => row[c].appt # new.appt
  <2>1. CASE row' = [row EXCEPT ![b] = SetAside(b)]
    <3> DEFINE new == SetAside(b)
    <3>1. /\ new \in Row /\ new.v = row[b].v /\ new.appt = row[b].appt
          /\ new.state = IF row[b].appt = NoAppt THEN "ignored" ELSE row[b].state
      BY <1>0, RowType DEF SetAside, Row
    <3>2. new.state = "none" => new.v.seq = 0 BY <3>1 DEF CalendarInv, NoneIsUnseen
    <3>3. new.state = "ignored" => new.appt = NoAppt BY <1>0, <3>1 DEF CalendarType
    <3>4. \A c \in Booking \ {b} : new.appt # NoAppt => row[c].appt # new.appt
      BY <3>1 DEF CalendarInv, OneBooking
    <3> HIDE DEF new
    <3> QED BY <2>1, <3>1, <3>2, <3>3, <3>4 DEF new
  <2>2. CASE UNCHANGED row
    <3>1. row' = [row EXCEPT ![b] = row[b]] BY <1>0, <2>2 DEF CalendarType
    <3>2. row[b] \in Row BY <1>0, RowType
    <3> QED BY <1>0, <3>1, <3>2 DEF CalendarInv, NoneIsUnseen, OneBooking, CalendarType
  <2>3. CASE \E a \in Appt : /\ \A c \in Booking \ {b} : row[c].appt # a
                             /\ SetState(b, row[b].v, "synced", row[b].hash, a)
    <3>1. PICK a \in Appt : /\ \A c \in Booking \ {b} : row[c].appt # a
                            /\ SetState(b, row[b].v, "synced", row[b].hash, a)
      BY <2>3
    <3>2. PICK v \in Version, h \in BOOLEAN : v = row[b].v /\ h = row[b].hash BY <1>0, RowType
    <3> DEFINE new == [state |-> "synced", v |-> v, hash |-> h, appt |-> a]
    <3>3. SetState(b, v, "synced", h, a) BY <3>1, <3>2
    <3>4. new \in Row /\ row' = [row EXCEPT ![b] = new] BY <1>0, <3>3, StateSet
    <3>5. new.state = "synced" /\ new.appt = a /\ new.v = row[b].v BY <3>2
    <3> HIDE DEF new
    <3> QED BY <3>1, <3>4, <3>5
  <2> QED BY <2>1, <2>2, <2>3 DEF KeepInternal, ResolveManually
<1>3. PICK new \in Row :
        /\ row' = [row EXCEPT ![b] = new] /\ new.v = row[b].v
        /\ new.state = "none" => new.v.seq = 0
        /\ new.state = "ignored" => new.appt = NoAppt
        /\ \A c \in Booking \ {b} : new.appt # NoAppt => row[c].appt # new.appt
  BY <1>2
<1>4. row'[b] = new /\ \A c \in Booking \ {b} : row'[c] = row[c] BY <1>0, <1>3 DEF CalendarType
<1>5. /\ open' \subseteq Booking \X Types /\ decided' \subseteq Booking /\ appt' \in [Appt -> Appointment]
      /\ \A c \in Booking \ {b}, t \in Types : <<c, t>> \in open => <<c, t>> \in open'
  BY <1>0, <1>1 DEF CalendarType, Close
<1>6. ASSUME NEW c \in Booking \ {b} PROVE Undisturbed(c)
  <2>1. Mirrors(c) => Mirrors(c)' BY <1>1, <1>4, MirrorStays
  <2> QED BY <1>1, <1>5, <2>1 DEF Undisturbed
<1>7. Told(b)' BY <1>1 DEF Told
<1>8. CalendarInv' BY <1>3, <1>5, <1>6, <1>7, RowChange
<1> QED BY <1>3, <1>4, <1>8

LEMMA ResolveStep ==
  ASSUME SyncInv, NEW b \in Booking, NEW type \in Types,
         AcceptExternal(b, type) \/ KeepInternal(b, type) \/ ResolveManually(b, type)
  PROVE  SyncInv' /\ NoneOlder
<1>0. MediaType /\ SyncType /\ Busy /\ CalendarInv BY DEF SyncInv
<1>1. CalendarInv' /\ row'[b].v = row[b].v /\ \A c \in Booking \ {b} : row'[c] = row[c]
  BY <1>0, AcceptStep, ByHandStep
<1>2. UNCHANGED <<medium, mail, mapped, cursor, sync, used>>
  BY DEF AcceptExternal, KeepInternal, ResolveManually, ResolveFrame
<1>3. MediaType' /\ SyncType' /\ Busy' BY <1>0, <1>2 DEF MediaType, SyncType, Busy
<1>4. \A c \in Booking : row[c].v.seq \in Nat BY <1>0, RowType, VersionType DEF CalendarInv
<1>5. NoneOlder BY <1>1, <1>4 DEF NoneOlder
<1> QED BY <1>0, <1>1, <1>3, <1>5 DEF SyncInv

LEMMA BookKeeps ==
  ASSUME CalendarInv, NEW s \in Slot, NEW whose \in SUBSET Booking, Book(s, whose)
  PROVE  CalendarInv'
<1>0. CalendarType BY DEF CalendarInv
<1> DEFINE a == Least(Fresh)
<1>1. a \in Appt /\ \A c \in Booking : row[c].appt # a BY <1>0, FreshOne DEF Book
<1>2. appt' = [appt EXCEPT ![a] = [status |-> "booked", slot |-> s, for |-> whose]] BY DEF Book
<1> HIDE DEF a
<1>3. appt' \in [Appt -> Appointment] /\ \A d \in Appt : d # a => appt'[d] = appt[d]
  BY <1>0, <1>1, <1>2 DEF CalendarType, Appointment
<1>4. UNCHANGED <<row, open, decided>> BY DEF Book, CalendarFrame
<1>5. \A c \in Booking : Undisturbed(c)
  <2>1. \A c \in Booking : row[c].appt # NoAppt => appt'[row[c].appt] = appt[row[c].appt]
    BY <1>0, <1>1, <1>3, RowType
  <2> QED BY <1>4, <2>1, MirrorStays DEF Undisturbed
<1>6. decided' \subseteq Booking BY <1>0, <1>4 DEF CalendarType
<1> QED BY <1>3, <1>4, <1>5, <1>6, NoRowChange

LEMMA MoveOrCancelKeeps ==
  ASSUME CalendarInv, NEW a \in Appt, Cancel(a) \/ \E s \in Slot : Move(a, s)
  PROVE  CalendarInv'
<1>0. CalendarType BY DEF CalendarInv
<1>1. UNCHANGED <<row, open>> /\ decided' = decided \cup {b \in Booking : row[b].appt = a}
  BY DEF Cancel, Move, CalendarFrame, HandledByStaff
<1>2. appt' \in [Appt -> Appointment] /\ \A d \in Appt : d # a => appt'[d] = appt[d]
  BY <1>0 DEF Cancel, Move, CalendarType, Appointment
<1>3. ASSUME NEW c \in Booking PROVE Undisturbed(c)
  <2>1. CASE row[c].appt = a BY <1>1, <2>1 DEF Undisturbed
  <2>2. CASE row[c].appt # a
    <3>1. row[c].appt # NoAppt => appt'[row[c].appt] = appt[row[c].appt] BY <1>0, <1>2, <2>2, RowType
    <3> QED BY <1>1, <3>1, MirrorStays DEF Undisturbed
  <2> QED BY <2>1, <2>2
<1>4. decided' \subseteq Booking BY <1>0, <1>1 DEF CalendarType
<1> QED BY <1>1, <1>2, <1>3, <1>4, NoRowChange

LEMMA StartServiceKeeps ==
  ASSUME CalendarInv, NEW a \in Appt, StartService(a)
  PROVE  CalendarInv'
<1>0. CalendarType BY DEF CalendarInv
<1>1. UNCHANGED <<row, open, decided>> BY DEF StartService, CalendarFrame
<1>2. /\ appt' \in [Appt -> Appointment] /\ appt'[a].status = "started"
      /\ \A d \in Appt : d # a => appt'[d] = appt[d]
  BY <1>0 DEF StartService, CalendarType, Appointment
<1>3. ASSUME NEW c \in Booking PROVE Undisturbed(c)
  <2>1. CASE row[c].appt = a BY <1>1, <1>2, <2>1 DEF Undisturbed, Mirrors, Active, Started
  <2>2. CASE row[c].appt # a
    <3>1. row[c].appt # NoAppt => appt'[row[c].appt] = appt[row[c].appt] BY <1>0, <1>2, <2>2, RowType
    <3> QED BY <1>1, <3>1, MirrorStays DEF Undisturbed
  <2> QED BY <2>1, <2>2
<1>4. decided' \subseteq Booking BY <1>0, <1>1 DEF CalendarType
<1> QED BY <1>1, <1>2, <1>3, <1>4, NoRowChange

LEMMA StaffStep ==
  ASSUME SyncInv,
         \/ \E s \in Slot, whose \in {{}} \cup {{b} : b \in Booking} : Book(s, whose)
         \/ \E a \in Appt : Cancel(a) \/ StartService(a) \/ \E s \in Slot : Move(a, s)
  PROVE  SyncInv' /\ NoneOlder
<1>0. MediaType /\ SyncType /\ Busy /\ CalendarInv BY DEF SyncInv
<1>1. CalendarFrame /\ Upset BY DEF Book, Cancel, StartService, Move
<1>2. CalendarInv'
  <2>1. \A w \in {{}} \cup {{b} : b \in Booking} : w \in SUBSET Booking OBVIOUS
  <2> QED BY <1>0, <2>1, BookKeeps, MoveOrCancelKeeps, StartServiceKeeps
<1>3. SyncType' /\ Busy' BY <1>0, <1>1 DEF CalendarFrame, SyncType, Busy
<1>4. MediaType' BY <1>0, <1>1, UpsetType DEF CalendarFrame, MediaType
<1>5. \A c \in Booking : row[c].v.seq \in Nat BY <1>0, RowType, VersionType DEF CalendarInv
<1>6. NoneOlder BY <1>1, <1>5 DEF NoneOlder, CalendarFrame
<1> QED BY <1>0, <1>2, <1>3, <1>4, <1>6 DEF SyncInv

LEMMA MediaStep ==
  ASSUME SyncInv,
         MapStaff \/ \E b \in Booking, s \in Slot, booked \in BOOLEAN : Change(b, booked, s)
  PROVE  SyncInv' /\ NoneOlder
<1>0. MediaType /\ SyncType /\ Busy /\ CalendarInv BY DEF SyncInv
<1>1. UNCHANGED <<Calendar, sync>> BY DEF MapStaff, Change
<1>2. CalendarInv' /\ NoneOlder BY <1>0, <1>1, UnchangedCalendar
<1>3. SyncType' /\ Busy' BY <1>0, <1>1 DEF SyncType, Busy
<1>4. MediaType'
  <2>1. CASE MapStaff BY <1>0, <2>1 DEF MapStaff, MediaType
  <2>2. CASE \E b \in Booking, s \in Slot, booked \in BOOLEAN : Change(b, booked, s)
    <3>1. PICK b \in Booking, s \in Slot, booked \in BOOLEAN : Change(b, booked, s) BY <2>2
    <3> DEFINE v == [of |-> b, seq |-> used.seq + 1, booked |-> booked, slot |-> s]
    <3>2. used.seq + 1 \in 0..MaxSeq /\ used' = [used EXCEPT !.seq = used.seq + 1]
      <4>1. MaxSeq \in Nat /\ used.seq \in 0..MaxSeq /\ used.seq < MaxSeq
        BY <1>0, <3>1, ExternalAssumption DEF MediaType, Change, ExternalAssumption
      <4>2. used' = [used EXCEPT !.seq = used.seq + 1] BY <3>1 DEF Change
      <4> QED BY <4>1, <4>2
    <3>3. v \in Version BY <3>2 DEF Version
    <3>4. /\ medium' = [medium EXCEPT ![b] = v] /\ (mail' = mail \/ mail' = mail \cup {v})
          /\ UNCHANGED <<mapped, cursor>>
      BY <3>1 DEF Change
    <3> HIDE DEF v
    <3> QED BY <1>0, <3>2, <3>3, <3>4 DEF MediaType
  <2> QED BY <2>1, <2>2
<1> QED BY <1>2, <1>3, <1>4 DEF SyncInv

LEMMA Step == ASSUME SyncInv, [Next]_vars PROVE SyncInv' /\ NoneOlder
<1>1. CASE UNCHANGED vars
  <2>1. SyncInv => CalendarInv BY DEF SyncInv
  <2>2. CalendarInv' /\ NoneOlder BY <1>1, <2>1, UnchangedCalendar DEF vars, Calendar
  <2> QED BY <1>1, <2>2 DEF SyncInv, MediaType, SyncType, Busy, vars
<1>2. CASE Next
  <2>1. \A w \in Delta \cup Full : w \in Worker BY DEF Worker
  <2> QED BY <1>2, <2>1, FetchStep, DeliverStep, RecordStep, QuietStep, MailStep, ResolveStep, StaffStep, MediaStep
        DEF Next, Work
<1> QED BY <1>1, <1>2

LEMMA Initially == Init => SyncInv
<1> SUFFICES ASSUME Init PROVE SyncInv OBVIOUS
<1>1. MaxSeq \in Nat /\ MaxUpsets \in Nat /\ (CHOOSE s \in Slot : TRUE) \in Slot
  BY ExternalAssumption DEF ExternalAssumption
<1>2. \A b \in Booking : Unborn(b) \in Version /\ Unborn(b).seq = 0 BY <1>1 DEF Unborn, Version
<1>3. MediaType
  <2>1. 0 \in 0..MaxSeq /\ 0 \in 0..MaxUpsets BY <1>1
  <2>2. used \in [seq: 0..MaxSeq, upsets: 0..MaxUpsets] BY <2>1 DEF Init
  <2>3. medium \in [Booking -> Version] BY <1>2 DEF Init
  <2> QED BY <2>1, <2>2, <2>3 DEF Init, MediaType
<1>4. SyncType /\ Busy BY IdleType DEF Init, SyncType, Busy, Idle
<1>5. CalendarType BY <1>1, <1>2 DEF Init, CalendarType, Row, Appointment
<1>6. NoneIsUnseen /\ OneBooking /\ \A b \in Booking : Told(b)
  BY <1>2 DEF Init, NoneIsUnseen, OneBooking, Told, Exists
<1> QED BY <1>3, <1>4, <1>5, <1>6 DEF SyncInv, CalendarInv

THEOREM Invariance == Spec => []SyncInv
<1>1. SyncInv /\ [Next]_vars => SyncInv' BY Step
<1> QED BY Initially, <1>1, PTL DEF Spec

-----------------------------------------------------------------------------
(* Every variable keeps its type.                                           *)
THEOREM TypeCorrect == Spec => []TypeOK
<1>1. SyncInv => TypeOK
  BY DEF SyncInv, MediaType, SyncType, CalendarInv, CalendarType, TypeOK
<1> QED BY Invariance, <1>1, PTL

(* However many syncs and mails overlap, in any order and with any failures,*)
(* a stored version is never replaced by an older one: processExternalBooking*)
(* compares under the row's lock, and what failed keeps the version it has. *)
THEOREM OlderNeverWins == Spec => NeverOlder
<1>1. SyncInv /\ [Next]_vars => NoneOlder BY Step
<1>2. Spec => [][NoneOlder]_row BY Invariance, <1>1, PTL DEF Spec
<1> QED BY <1>2 DEF NeverOlder, NoneOlder

(* A stored booking stands in the calendar as stored, is shown to staff as  *)
(* an error or a conflict, or was decided against, for any policies and any *)
(* work of staff in between.                                                *)
THEOREM NoneLost == Spec => []Accounted
<1>1. SyncInv => Accounted BY DEF SyncInv, CalendarInv, Told, Accounted
<1> QED BY Invariance, <1>1, PTL
=============================================================================
