---------------------------- MODULE ExternalSync ----------------------------
(***************************************************************************)
(* Bookings of external media brought into the calendar of one staff       *)
(* member: sync jobs of one polled account, notification mails of others,  *)
(* the conflicts they raise and staff who resolve them.                    *)
(* Source: apps/api/src/modules/integrations/{sync,conflicts,              *)
(* conflict-store}.ts and adapters/mock-booking.ts.                        *)
(*                                                                         *)
(* Each delivered version of a booking is applied in a transaction of its  *)
(* own under the lock of its row: one action.  Where there is no row to    *)
(* lock yet, the read and the insert are two.  Two bookings clash when     *)
(* they have the same slot.                                                *)
(***************************************************************************)
EXTENDS Integers, FiniteSets, FiniteSetsExt

CONSTANTS
  Booking,     \* bookings of the media
  Mailed,      \* those that arrive by mail
  Delta, Full, \* bound: delta syncs and full resyncs that run at a time
  Slot,        \* times of the staff member
  UnknownSlot, \* those a medium reports under a staff id that is not mapped yet
  Appt,        \* bound: rows of appointments
  Policies,    \* values config.conflictPolicy takes
  MaxSeq,      \* bound: changes on the media
  MaxUpsets    \* bound: failed transactions, refusals, lost workers and changes
               \* staff make to appointments, together

ASSUME ExternalAssumption ==
  /\ Mailed \subseteq Booking /\ Slot # {} /\ UnknownSlot \subseteq Slot
  /\ Appt \subseteq Nat \ {0}
  /\ Policies \subseteq {"manual", "internal_wins", "external_wins"}
  /\ MaxSeq \in Nat /\ MaxUpsets \in Nat

Worker == Delta \cup Full

VARIABLES
  medium,   \* the media's own records: the latest version of each booking
  mail,     \* versions whose notification is stored and not processed
  row,      \* external_bookings
  open,     \* open sync_conflicts: booking and type
  appt,     \* appointments
  mapped,   \* config.staffMap knows the new staff id
  cursor,   \* integration_accounts.sync_cursor, 0 for NULL
  sync,     \* what each runSync holds in memory
  decided,  \* history: bookings whose fate staff or the policy decided since they were applied
  used      \* counters behind the bounds

vars == <<medium, mail, row, open, appt, mapped, cursor, sync, decided, used>>

NoAppt == 0
Types == {"overlap", "unknown_staff"}
Version == [of: Booking, seq: 0..MaxSeq, booked: BOOLEAN, slot: Slot]
Row == [state: {"none", "synced", "conflict", "error", "ignored"}, v: Version, hash: BOOLEAN,
        appt: Appt \cup {NoAppt}]
Appointment == [status: {"none", "booked", "started", "cancelled", "displaced"}, slot: Slot,
                for: SUBSET Booking]
Job == [phase: {"idle", "reading", "applying", "inserting", "recording"}, todo: SUBSET Version,
        next: 0..MaxSeq]

TypeOK ==
  /\ medium \in [Booking -> Version] /\ mail \subseteq Version
  /\ row \in [Booking -> Row] /\ open \subseteq Booking \X Types
  /\ appt \in [Appt -> Appointment] /\ mapped \in BOOLEAN /\ cursor \in 0..MaxSeq
  /\ sync \in [Worker -> Job] /\ decided \subseteq Booking
  /\ used \in [seq: 0..MaxSeq, upsets: 0..MaxUpsets]
  /\ \A b \in Booking : row[b].state = "ignored" => row[b].appt = NoAppt

Unborn(b) == [of |-> b, seq |-> 0, booked |-> FALSE, slot |-> CHOOSE s \in Slot : TRUE]
Idle == [phase |-> "idle", todo |-> {}, next |-> 0]

Init ==
  /\ medium = [b \in Booking |-> Unborn(b)] /\ mail = {}
  /\ row = [b \in Booking |-> [state |-> "none", v |-> Unborn(b), hash |-> FALSE, appt |-> NoAppt]]
  /\ open = {} /\ mapped = FALSE /\ cursor = 0 /\ decided = {}
  /\ appt = [a \in Appt |-> [status |-> "none", slot |-> CHOOSE s \in Slot : TRUE, for |-> {}]]
  /\ sync = [w \in Worker |-> Idle]
  /\ used = [seq |-> 0, upsets |-> 0]

-----------------------------------------------------------------------------
(* Appointments.                                                            *)

Active(a) == appt[a].status \in {"booked", "started"}
Editable(a) == a # NoAppt /\ appt[a].status = "booked"
Started(a) == a # NoAppt /\ appt[a].status = "started"
Holders(s) == {a \in Appt : Active(a) /\ appt[a].slot = s}
Linked == {row[b].appt : b \in Booking}
Fresh == {a \in Appt : ~Active(a) /\ a \notin Linked}
Least(S) == CHOOSE a \in S : \A c \in S : a <= c

-----------------------------------------------------------------------------
(* applyExternalBooking and handleOverlap: version v of booking b under the *)
(* lock of its row.                                                         *)

SetState(b, v, st, h, a) == row' = [row EXCEPT ![b] = [state |-> st, v |-> v, hash |-> h, appt |-> a]]
CloseConflicts(b) == open' = {c \in open : c[1] # b}
OpenConflict(b, type) == open' = open \cup {<<b, type>>}
Settled(b) == decided' = decided \ {b}

Known(v) == v.slot \notin UnknownSlot \/ mapped

(* The appointment is booked again when the linked one was cancelled here.  *)
Kept(b) == IF Editable(row[b].appt) THEN row[b].appt ELSE NoAppt
Clashes(b, v) == Holders(v.slot) \ {Kept(b)}

CallOff(b, v, h) ==
  LET a == row[b].appt IN
  /\ ~v.booked
  /\ CloseConflicts(b) /\ Settled(b)
  /\ appt' = IF Editable(a) THEN [appt EXCEPT ![a].status = "cancelled"] ELSE appt
  /\ SetState(b, v, IF a # NoAppt THEN "synced" ELSE "ignored", h, a)

LeaveStarted(b, v, h) ==
  /\ v.booked /\ Known(v) /\ Started(row[b].appt)
  /\ SetState(b, v, "synced", h, row[b].appt)
  /\ Settled(b) /\ UNCHANGED <<open, appt>>

(* Mutant: the search for a duplicate does not ask for its status.          *)
TwinsOfAnyStatus(b, v) ==
  {a \in Appt : appt[a].status # "none" /\ b \in appt[a].for /\ appt[a].slot = v.slot /\ a \notin Linked}

(* The same customer's booking at the same time, typed in by staff.         *)
Twins(b, v) == {a \in Holders(v.slot) : b \in appt[a].for /\ a \notin Linked}

Update(b, v, h) ==
  /\ v.booked /\ Known(v) /\ Editable(row[b].appt) /\ Clashes(b, v) = {}
  /\ appt' = [appt EXCEPT ![row[b].appt].slot = v.slot]
  /\ SetState(b, v, "synced", h, row[b].appt)
  /\ CloseConflicts(b) /\ Settled(b)

Rebooks(b, v) == v.booked /\ Known(v) /\ Kept(b) = NoAppt /\ ~Started(row[b].appt)

LinkTwin(b, v, h) ==
  /\ Rebooks(b, v)
  /\ \E a \in Twins(b, v) : SetState(b, v, "synced", h, a)
  /\ CloseConflicts(b) /\ Settled(b) /\ UNCHANGED appt

Create(b, v, h) ==
  /\ Rebooks(b, v) /\ Twins(b, v) = {} /\ Clashes(b, v) = {} /\ Fresh # {}
  /\ appt' = [appt EXCEPT ![Least(Fresh)] = [status |-> "booked", slot |-> v.slot, for |-> {b}]]
  /\ SetState(b, v, "synced", h, Least(Fresh))
  /\ CloseConflicts(b) /\ Settled(b)

Overlaps(b, v) ==
  /\ v.booked /\ Known(v) /\ ~Started(row[b].appt) /\ Clashes(b, v) # {}
  /\ Kept(b) = NoAppt => Twins(b, v) = {}

(* external_wins: what holds the slot is cancelled, whoever booked it.      *)
Displace(b, v, h) ==
  LET a == IF Kept(b) # NoAppt THEN Kept(b) ELSE Least(Fresh)
      out == Clashes(b, v)
  IN
  /\ Overlaps(b, v) /\ \A c \in out : Editable(c)
  /\ Kept(b) = NoAppt => Fresh # {}
  /\ appt' = [c \in Appt |-> IF c = a THEN [status |-> "booked", slot |-> v.slot,
                                            for |-> IF Kept(b) = a THEN appt[a].for ELSE {b}]
                             ELSE IF c \in out THEN [appt[c] EXCEPT !.status = "displaced"] ELSE appt[c]]
  /\ SetState(b, v, "synced", h, a)
  /\ CloseConflicts(b)
  /\ decided' = (decided \ {b}) \cup {c \in Booking : row[c].appt \in out}

Reflect(b, v, h, policy) ==
  \/ CallOff(b, v, h) \/ LeaveStarted(b, v, h) \/ Update(b, v, h) \/ LinkTwin(b, v, h) \/ Create(b, v, h)
  \/ policy = "external_wins" /\ Displace(b, v, h)

UnknownStaff(b, v) ==
  /\ v.booked /\ ~Known(v)
  /\ OpenConflict(b, "unknown_staff")
  /\ SetState(b, v, "conflict", FALSE, row[b].appt)
  /\ Settled(b) /\ UNCHANGED appt

(* internal_wins closes the conflict at once; manual leaves it to staff, as *)
(* external_wins does when an appointment cannot be cancelled any more.     *)
Overlap(b, v, h, policy) ==
  /\ Overlaps(b, v)
  /\ policy = "external_wins" => \E c \in Clashes(b, v) : ~Editable(c)
  /\ SetState(b, v, "conflict", h, Kept(b))
  /\ UNCHANGED appt
  /\ IF policy = "internal_wins"
     THEN decided' = decided \cup {b} /\ UNCHANGED open
     ELSE OpenConflict(b, "overlap") /\ Settled(b)

Apply(b, v, h, policy) == Reflect(b, v, h, policy) \/ UnknownStaff(b, v) \/ Overlap(b, v, h, policy)

(* Any other error of the booking core.                                     *)
Reject(b, v) ==
  /\ v.booked /\ Known(v) /\ ~Started(row[b].appt)
  /\ SetState(b, v, "error", FALSE, Kept(b))
  /\ Settled(b) /\ UNCHANGED <<open, appt>>

-----------------------------------------------------------------------------
(* processExternalBooking: unchanged and older versions are skipped.        *)

Exists(b) == row[b].state # "none"

(* Mutant: a delayed version overwrites a later one.                        *)
SkippedIfEqual(v) == Exists(v.of) /\ row[v.of].hash /\ row[v.of].v = v

Skipped(v) ==
  /\ Exists(v.of)
  /\ (row[v.of].hash /\ row[v.of].v = v) \/ v.seq < row[v.of].v.seq

Upset == used.upsets < MaxUpsets /\ used' = [used EXCEPT !.upsets = @ + 1]

Process(v) ==
  \/ Skipped(v) /\ UNCHANGED <<row, open, appt, decided, used>>
  \/ /\ ~Skipped(v)
     /\ \/ UNCHANGED used /\ \E policy \in Policies : Apply(v.of, v, TRUE, policy)
        \/ Upset /\ Reject(v.of, v)

-----------------------------------------------------------------------------
(* runSync                                                                  *)

Polled == Booking \ Mailed
First(w) == CHOOSE v \in sync[w].todo : \A u \in sync[w].todo : v.seq <= u.seq
Reached(S) == Max({0} \cup {v.seq : v \in S})
Proceed(w, phase) == sync' = [sync EXCEPT ![w].phase = phase]
Done(w) == sync' = [sync EXCEPT ![w].phase = "applying", ![w].todo = @ \ {First(w)}]
Calendar == <<row, open, appt, decided>>

FetchChanges(w) ==
  LET new == {medium[b] : b \in {p \in Polled : medium[p].seq > cursor}} IN
  /\ sync[w].phase = "idle"
  /\ sync' = [sync EXCEPT ![w] = [phase |-> "applying", todo |-> new,
                                  next |-> IF new = {} THEN cursor ELSE Reached(new)]]
  /\ UNCHANGED <<medium, mail, Calendar, mapped, cursor, used>>

(* fetchAll reads the bookings and, in a second statement, the largest      *)
(* change_seq, which may belong to a later change.                          *)
FetchAll(w) ==
  /\ sync[w].phase = "idle"
  /\ sync' = [sync EXCEPT ![w] = [phase |-> "reading", next |-> 0,
                                  todo |-> {v \in {medium[b] : b \in Polled} : v.seq > 0}]]
  /\ UNCHANGED <<medium, mail, Calendar, mapped, cursor, used>>

FetchMax(w) ==
  /\ sync[w].phase = "reading"
  /\ sync' = [sync EXCEPT ![w].phase = "applying", ![w].next = Reached({medium[b] : b \in Polled})]
  /\ UNCHANGED <<medium, mail, Calendar, mapped, cursor, used>>

Deliver(w) ==
  /\ sync[w].phase = "applying" /\ sync[w].todo # {}
  /\ IF Exists(First(w).of) THEN Process(First(w)) /\ Done(w)
     ELSE Proceed(w, "inserting") /\ UNCHANGED <<Calendar, used>>
  /\ UNCHANGED <<medium, mail, mapped, cursor>>

(* No row was found: the insert fails when another job has made it since.   *)
Insert(w) ==
  /\ sync[w].phase = "inserting"
  /\ IF Exists(First(w).of) THEN Proceed(w, "recording") /\ UNCHANGED <<Calendar, used>>
     ELSE Process(First(w)) /\ Done(w)
  /\ UNCHANGED <<medium, mail, mapped, cursor>>

(* A deadlock or a lost connection rolls the transaction back.              *)
Throw(w) ==
  /\ sync[w].phase \in {"applying", "inserting"} /\ sync[w].todo # {}
  /\ Upset /\ Proceed(w, "recording")
  /\ UNCHANGED <<medium, mail, Calendar, mapped, cursor>>

(* Mutant: the hash of a version that failed is recorded.                   *)
FailedHashed(b, v) == [row[b] EXCEPT !.state = "error", !.v = IF Exists(b) THEN @ ELSE v, !.hash = TRUE]

Failed(b, v) == [row[b] EXCEPT !.state = "error", !.v = IF Exists(b) THEN @ ELSE v, !.hash = FALSE]

RecordBookingError(w) ==
  LET v == First(w) IN
  /\ sync[w].phase = "recording"
  /\ row' = [row EXCEPT ![v.of] = Failed(v.of, v)]
  /\ Done(w)
  /\ UNCHANGED <<medium, mail, open, appt, decided, mapped, cursor, used>>

(* The error of recording an error is swallowed.                            *)
RecordFails(w) ==
  /\ sync[w].phase = "recording" /\ Upset /\ Done(w)
  /\ UNCHANGED <<medium, mail, Calendar, mapped, cursor>>

RecordSyncSuccess(w) ==
  /\ sync[w].phase = "applying" /\ sync[w].todo = {}
  /\ cursor' = IF sync[w].next = 0 THEN cursor ELSE sync[w].next
  /\ sync' = [sync EXCEPT ![w] = Idle]
  /\ UNCHANGED <<medium, mail, Calendar, mapped, used>>

(* The worker is lost; the job is run again as any later sync.              *)
Lose(w) ==
  /\ sync[w].phase # "idle" /\ Upset
  /\ sync' = [sync EXCEPT ![w] = Idle]
  /\ UNCHANGED <<medium, mail, Calendar, mapped, cursor>>

(* A mail is processed by its webhook job, which is tried again when the    *)
(* transaction fails.  A cancellation that does not tell the date is ignored*)
(* when the booking is not known.                                           *)
ProcessMail(v) ==
  /\ v \in mail /\ mail' = mail \ {v}
  /\ Process(v) \/ (~v.booked /\ ~Exists(v.of) /\ UNCHANGED <<Calendar, used>>)
  /\ UNCHANGED <<medium, mapped, cursor, sync>>

-----------------------------------------------------------------------------
(* resolveConflict                                                          *)

ResolveFrame == UNCHANGED <<medium, mail, mapped, cursor, sync, used>>
Close(b, type) == open' = open \ {<<b, type>>}

(* The stored version is applied again; an outcome that is a conflict or an *)
(* error rolls everything back.                                             *)
AcceptExternal(b, type) ==
  /\ <<b, type>> \in open
  /\ IF row[b].v.booked /\ Started(row[b].appt)
     THEN /\ Known(row[b].v) /\ Close(b, type)
          /\ SetState(b, row[b].v, "synced", row[b].hash, row[b].appt)
          /\ Settled(b) /\ UNCHANGED appt
     ELSE Reflect(b, row[b].v, row[b].hash, "external_wins")
  /\ ResolveFrame

(* Mutant: a booking that has its appointment is set aside as well.         *)
SetAsideAll(b) == [row[b] EXCEPT !.state = "ignored"]

SetAside(b) == [row[b] EXCEPT !.state = IF row[b].appt = NoAppt THEN "ignored" ELSE @]

KeepInternal(b, type) ==
  /\ <<b, type>> \in open /\ Close(b, type)
  /\ row' = [row EXCEPT ![b] = SetAside(b)]
  /\ decided' = decided \cup {b}
  /\ UNCHANGED appt /\ ResolveFrame

(* Staff dealt with it by hand and may link the booking to an appointment   *)
(* that no other booking has.                                               *)
ResolveManually(b, type) ==
  /\ <<b, type>> \in open /\ Close(b, type)
  /\ \/ UNCHANGED row
     \/ \E a \in Appt :
          /\ appt[a].status # "none" /\ \A c \in Booking \ {b} : row[c].appt # a
          /\ SetState(b, row[b].v, "synced", row[b].hash, a)
  /\ decided' = decided \cup {b}
  /\ UNCHANGED appt /\ ResolveFrame

-----------------------------------------------------------------------------
(* Staff at the calendar and the settings; the media.                       *)

CalendarFrame == UNCHANGED <<medium, mail, row, open, mapped, cursor, sync>>
HandledByStaff(a) == decided' = decided \cup {b \in Booking : row[b].appt = a}

(* An appointment of some customer, or of the one of a booking.             *)
Book(s, whose) ==
  /\ Upset /\ Holders(s) = {} /\ Fresh # {}
  /\ appt' = [appt EXCEPT ![Least(Fresh)] = [status |-> "booked", slot |-> s, for |-> whose]]
  /\ UNCHANGED decided /\ CalendarFrame

Move(a, s) ==
  /\ Upset /\ Editable(a) /\ Holders(s) = {}
  /\ appt' = [appt EXCEPT ![a].slot = s]
  /\ HandledByStaff(a) /\ CalendarFrame

Cancel(a) ==
  /\ Upset /\ Editable(a)
  /\ appt' = [appt EXCEPT ![a].status = "cancelled"]
  /\ HandledByStaff(a) /\ CalendarFrame

StartService(a) ==
  /\ Upset /\ Editable(a)
  /\ appt' = [appt EXCEPT ![a].status = "started"]
  /\ UNCHANGED decided /\ CalendarFrame

MapStaff ==
  /\ ~mapped /\ mapped' = TRUE
  /\ UNCHANGED <<medium, mail, Calendar, cursor, sync, used>>

Change(b, booked, s) ==
  LET v == [of |-> b, seq |-> used.seq + 1, booked |-> booked, slot |-> s] IN
  /\ used.seq < MaxSeq
  /\ IF medium[b].seq = 0 THEN booked ELSE medium[b].booked /\ (booked \/ s = medium[b].slot)
  /\ medium' = [medium EXCEPT ![b] = v]
  /\ mail' = IF b \in Mailed THEN mail \cup {v} ELSE mail
  /\ used' = [used EXCEPT !.seq = @ + 1]
  /\ UNCHANGED <<Calendar, mapped, cursor, sync>>

Work(w) == FetchMax(w) \/ Deliver(w) \/ Insert(w) \/ RecordBookingError(w) \/ RecordSyncSuccess(w)

Next ==
  \/ \E w \in Delta : FetchChanges(w)
  \/ \E w \in Full : FetchAll(w)
  \/ \E w \in Worker : Work(w) \/ Throw(w) \/ RecordFails(w) \/ Lose(w)
  \/ \E v \in mail : ProcessMail(v)
  \/ \E b \in Booking, type \in Types :
       AcceptExternal(b, type) \/ KeepInternal(b, type) \/ ResolveManually(b, type)
  \/ \E s \in Slot, whose \in {{}} \cup {{b} : b \in Booking} : Book(s, whose)
  \/ \E a \in Appt : Cancel(a) \/ StartService(a) \/ \E s \in Slot : Move(a, s)
  \/ MapStaff
  \/ \E b \in Booking, s \in Slot, booked \in BOOLEAN : Change(b, booked, s)

Spec == Init /\ [][Next]_vars

FairSpec == Spec /\ \A w \in Worker : WF_sync(Work(w))

-----------------------------------------------------------------------------
(* Properties.                                                              *)

(* However syncs and mails overlap and whatever fails, the version stored   *)
(* for a booking is never replaced by an older one.                         *)
NeverOlder == [][\A b \in Booking : row'[b].v.seq >= row[b].v.seq]_row

Mirrors(b) ==
  LET a == row[b].appt IN a # NoAppt /\ Active(a) /\ (Started(a) \/ appt[a].slot = row[b].v.slot)

(* No booking of a medium gets lost silently: one whose stored version is   *)
(* booked stands in the calendar as stored, is shown to staff as an error or*)
(* an open conflict, or staff or the account's policy decided against it.   *)
Accounted ==
  \A b \in Booking :
    Exists(b) /\ row[b].v.booked =>
      \/ Mirrors(b) \/ row[b].state = "error" \/ b \in decided
      \/ \E type \in Types : <<b, type>> \in open

UpToDate(b) == row[b].v = medium[b] /\ row[b].state # "error"

(* docs/operations.md 9.2: full resyncs repair what other syncs missed, so  *)
(* once the medium rests every booking gets to its last version and stays.  *)
ResyncRepairs ==
  []<>(\E w \in Worker : sync[w].phase = "reading") =>
    \A b \in Polled : <>[](medium[b].seq > 0 => UpToDate(b))

(* The comment at sync.ts:32: the cursor advances only after the whole batch*)
(* was processed successfully.                                              *)
CursorCovers ==
  \A b \in Polled : medium[b].seq \in 1..cursor => row[b].v = medium[b]
=============================================================================
