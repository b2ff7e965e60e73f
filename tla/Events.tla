-------------------------------- MODULE Events --------------------------------
(***************************************************************************)
(* EventsService: ticketed events.  An event is drafted, published, opened *)
(* and closed; its capacity is divided into ticket classes; customers book *)
(* seats of a class, get their tickets and are checked in at the door.     *)
(*                                                                         *)
(* A request is a sequence of single database calls; a booking, its        *)
(* cancellation and a check-in are transactions that trust what was read   *)
(* before them.  One event.                                                *)
(***************************************************************************)
EXTENDS Naturals, Integers, Sequences, FiniteSets, SequencesExt

CONSTANTS
    Capacity,       \* of the event
    ClassCapacities, Quantities,    \* what is asked for
    Requests,       \* requests in progress at a time
    MaxClasses, MaxBookings, MaxTickets, MaxArrivals, MaxCrashes    \* bounds

VARIABLES
    event,      \* the events row: status, soldCount, checkedInCount
    classes,    \* event_ticket_classes rows: capacity and soldCount
    bookings,   \* event_bookings rows
    tickets,    \* event_tickets rows
    req,        \* req[r]: the request's next call and what it carries
    overlaps,   \* whether two requests were ever in progress at once
    arrived,    \* requests taken
    crashes

vars == <<event, classes, bookings, tickets, req, overlaps, arrived, crashes>>

\* CANCELLED and COMPLETED are in EVENT_TRANSITIONS, but no operation gets there.
EventStatus == {"DRAFT", "PUBLISHED", "OPEN", "CLOSED"}
NextStatus == [DRAFT |-> "PUBLISHED", PUBLISHED |-> "OPEN", OPEN |-> "CLOSED"]
BookingStatus == {"CONFIRMED", "CHECKED_IN", "CANCELLED"}
TicketStatus == {"ISSUED", "CHECKED_IN", "CANCELLED"}

\* at is a class, booking or ticket, n a capacity, a quantity or what is left
\* to issue, number a booking or ticket number that was read.
Idle == [pc |-> "idle", at |-> 0, n |-> 0, number |-> 0]

PC == {"idle", "status", "sumClasses", "insertClass", "bookingClass", "bookingNumber", "book",
       "cancel", "count", "ticketNumber", "issue", "checkIn"}

TypeOK ==
    /\ event \in [status : EventStatus, sold : Int, checkedIn : Nat]
    /\ classes \in Seq([capacity : ClassCapacities, sold : Int])
    /\ bookings \in Seq([class : 1..MaxClasses, quantity : Quantities, status : BookingStatus])
    /\ tickets \in Seq([booking : 1..MaxBookings, status : TicketStatus])
    /\ Len(classes) <= MaxClasses /\ Len(bookings) <= MaxBookings /\ Len(tickets) <= MaxTickets
    /\ req \in [Requests -> [pc : PC, at : Nat, n : Nat, number : Nat]]
    /\ overlaps \in BOOLEAN /\ arrived \in 0..MaxArrivals /\ crashes \in 0..MaxCrashes

Init ==
    /\ event = [status |-> "DRAFT", sold |-> 0, checkedIn |-> 0]
    /\ classes = <<>> /\ bookings = <<>> /\ tickets = <<>>
    /\ req = [r \in Requests |-> Idle]
    /\ overlaps = FALSE /\ arrived = 0 /\ crashes = 0

-----------------------------------------------------------------------------
(* Building blocks                                                         *)

Start(r, d) ==
    /\ req[r].pc = "idle"
    /\ arrived < MaxArrivals
    /\ arrived' = arrived + 1
    /\ req' = [req EXCEPT ![r] = d]
    /\ overlaps' = (overlaps \/ \E q \in Requests \ {r} : req[q].pc # "idle")

Goto(r, q) == req' = [req EXCEPT ![r].pc = q] /\ UNCHANGED <<overlaps, arrived>>
Finish(r) == req' = [req EXCEPT ![r] = Idle] /\ UNCHANGED <<overlaps, arrived>>

Capacities == FoldSeq(LAMBDA c, sum : c.capacity + sum, 0, classes)

Bookable == event.status \in {"PUBLISHED", "OPEN"}

\* The tickets of booking b with one of these statuses.
TicketsOf(b, statuses) ==
    {t \in DOMAIN tickets : tickets[t].booking = b /\ tickets[t].status \in statuses}

-----------------------------------------------------------------------------
(* publishEvent, openEvent, closeEvent                                     *)

\* assertEventTransition; at is the position of the status to come.
AdvanceRead(r) ==
    /\ event.status \in DOMAIN NextStatus
    /\ Start(r, [Idle EXCEPT !.pc = "status",
                    !.at = CASE event.status = "DRAFT" -> 1 [] event.status = "PUBLISHED" -> 2
                             [] OTHER -> 3])
    /\ UNCHANGED <<event, classes, bookings, tickets, crashes>>

AdvanceWrite(r) ==
    /\ req[r].pc = "status"
    /\ event' = [event EXCEPT !.status = <<"PUBLISHED", "OPEN", "CLOSED">>[req[r].at]]
    /\ Finish(r)
    /\ UNCHANGED <<classes, bookings, tickets, crashes>>

-----------------------------------------------------------------------------
(* createTicketClass                                                       *)

\* Whatever the event's status is.
ClassRead(r, n) ==
    /\ Start(r, [Idle EXCEPT !.pc = "sumClasses", !.n = n])
    /\ UNCHANGED <<event, classes, bookings, tickets, crashes>>

SumClasses(r) ==
    /\ req[r].pc = "sumClasses"
    /\ IF Capacities + req[r].n <= Capacity THEN Goto(r, "insertClass") ELSE Finish(r)
    /\ UNCHANGED <<event, classes, bookings, tickets, crashes>>

InsertClass(r) ==
    /\ req[r].pc = "insertClass"
    /\ Len(classes) < MaxClasses
    /\ classes' = Append(classes, [capacity |-> req[r].n, sold |-> 0])
    /\ Finish(r)
    /\ UNCHANGED <<event, bookings, tickets, crashes>>

-----------------------------------------------------------------------------
(* createBooking and cancelBooking                                         *)

\* The event's capacity is checked against the row read first, the class's
\* against a second read.
BookRead(r, c, n) ==
    /\ Bookable
    /\ event.sold + n <= Capacity
    /\ Start(r, [Idle EXCEPT !.pc = "bookingClass", !.at = c, !.n = n])
    /\ UNCHANGED <<event, classes, bookings, tickets, crashes>>

\* Mutant: only the event's capacity counts.
ReadClassAny(r) ==
    /\ req[r].pc = "bookingClass"
    /\ Goto(r, "bookingNumber")
    /\ UNCHANGED <<event, classes, bookings, tickets, crashes>>

ReadClass(r) ==
    LET c == classes[req[r].at] IN
    /\ req[r].pc = "bookingClass"
    /\ IF c.sold + req[r].n <= c.capacity THEN Goto(r, "bookingNumber") ELSE Finish(r)
    /\ UNCHANGED <<event, classes, bookings, tickets, crashes>>

ReadBookingNumber(r) ==
    /\ req[r].pc = "bookingNumber"
    /\ req' = [req EXCEPT ![r].pc = "book", ![r].number = Len(bookings) + 1]
    /\ UNCHANGED <<event, classes, bookings, tickets, overlaps, arrived, crashes>>

\* One transaction: the booking (its number is unique) and both soldCounts.
Book(r) ==
    /\ req[r].pc = "book"
    /\ IF req[r].number \in DOMAIN bookings
       THEN UNCHANGED <<event, classes, bookings>>
       ELSE /\ Len(bookings) < MaxBookings
            /\ bookings' = Append(bookings, [class |-> req[r].at, quantity |-> req[r].n,
                                             status |-> "CONFIRMED"])
            /\ classes' = [classes EXCEPT ![req[r].at].sold = @ + req[r].n]
            /\ event' = [event EXCEPT !.sold = @ + req[r].n]
    /\ Finish(r)
    /\ UNCHANGED <<tickets, crashes>>

\* A booking some of whose tickets were checked in is CONFIRMED still.
CancelRead(r, b) ==
    /\ bookings[b].status = "CONFIRMED"
    /\ Start(r, [Idle EXCEPT !.pc = "cancel", !.at = b])
    /\ UNCHANGED <<event, classes, bookings, tickets, crashes>>

\* The tickets after booking b is cancelled: those that were ISSUED are too.
Cancelled(b) ==
    [t \in DOMAIN tickets |->
        IF t \in TicketsOf(b, {"ISSUED"}) THEN [tickets[t] EXCEPT !.status = "CANCELLED"]
        ELSE tickets[t]]

Cancel(r) ==
    LET b == req[r].at
        c == bookings[b].class
        n == bookings[b].quantity
    IN
    /\ req[r].pc = "cancel"
    /\ bookings' = [bookings EXCEPT ![b].status = "CANCELLED"]
    /\ classes' = [classes EXCEPT ![c].sold = @ - n]
    /\ event' = [event EXCEPT !.sold = @ - n]
    /\ tickets' = Cancelled(b)
    /\ Finish(r)
    /\ UNCHANGED crashes

-----------------------------------------------------------------------------
(* issueTickets                                                            *)

IssueRead(r, b) ==
    /\ bookings[b].status = "CONFIRMED"
    /\ Start(r, [Idle EXCEPT !.pc = "count", !.at = b])
    /\ UNCHANGED <<event, classes, bookings, tickets, crashes>>

CountTickets(r) ==
    LET b == req[r].at
        issued == Cardinality(TicketsOf(b, {"ISSUED", "CHECKED_IN"}))
    IN
    /\ req[r].pc = "count"
    /\ IF issued >= bookings[b].quantity THEN Finish(r)
       ELSE /\ req' = [req EXCEPT ![r].pc = "ticketNumber", ![r].n = bookings[b].quantity - issued]
            /\ UNCHANGED <<overlaps, arrived>>
    /\ UNCHANGED <<event, classes, bookings, tickets, crashes>>

ReadTicketNumber(r) ==
    /\ req[r].pc = "ticketNumber"
    /\ req' = [req EXCEPT ![r].pc = "issue", ![r].number = Len(tickets) + 1]
    /\ UNCHANGED <<event, classes, bookings, tickets, overlaps, arrived, crashes>>

\* One ticket after the other, whatever the booking's status is by now; a taken
\* number ends the request with what it has issued so far.
IssueTicket(r) ==
    /\ req[r].pc = "issue"
    /\ IF req[r].number \in DOMAIN tickets THEN Finish(r) /\ UNCHANGED tickets
       ELSE /\ Len(tickets) < MaxTickets
            /\ tickets' = Append(tickets, [booking |-> req[r].at, status |-> "ISSUED"])
            /\ IF req[r].n > 1
               THEN /\ req' = [req EXCEPT ![r].pc = "ticketNumber", ![r].n = @ - 1]
                    /\ UNCHANGED <<overlaps, arrived>>
               ELSE Finish(r)
    /\ UNCHANGED <<event, classes, bookings, crashes>>

-----------------------------------------------------------------------------
(* checkInTicket                                                           *)

CheckInRead(r, t) ==
    /\ tickets[t].status = "ISSUED"
    /\ Start(r, [Idle EXCEPT !.pc = "checkIn", !.at = t])
    /\ UNCHANGED <<event, classes, bookings, tickets, crashes>>

\* The ticket, the event's counter, and the booking once all its tickets, those
\* cancelled included, are CHECKED_IN.
CheckIn(r) ==
    LET t == req[r].at
        b == tickets[t].booking
        others == TicketsOf(b, TicketStatus \ {"CHECKED_IN"}) \ {t}
    IN
    /\ req[r].pc = "checkIn"
    /\ tickets' = [tickets EXCEPT ![t].status = "CHECKED_IN"]
    /\ event' = [event EXCEPT !.checkedIn = @ + 1]
    /\ bookings' = IF others = {} THEN [bookings EXCEPT ![b].status = "CHECKED_IN"] ELSE bookings
    /\ Finish(r)
    /\ UNCHANGED <<classes, crashes>>

-----------------------------------------------------------------------------

Crash(r) ==
    /\ req[r].pc # "idle"
    /\ crashes < MaxCrashes
    /\ crashes' = crashes + 1
    /\ Finish(r)
    /\ UNCHANGED <<event, classes, bookings, tickets>>

Arrive(r) ==
    \/ AdvanceRead(r)
    \/ \E n \in ClassCapacities : ClassRead(r, n)
    \/ \E c \in DOMAIN classes, n \in Quantities : BookRead(r, c, n)
    \/ \E b \in DOMAIN bookings : CancelRead(r, b) \/ IssueRead(r, b)
    \/ \E t \in DOMAIN tickets : CheckInRead(r, t)

Proceed(r) ==
    \/ AdvanceWrite(r) \/ SumClasses(r) \/ InsertClass(r)
    \/ ReadClass(r) \/ ReadBookingNumber(r) \/ Book(r) \/ Cancel(r)
    \/ CountTickets(r) \/ ReadTicketNumber(r) \/ IssueTicket(r) \/ CheckIn(r)

Next == \E r \in Requests : Arrive(r) \/ Proceed(r) \/ Crash(r)

Spec == Init /\ [][Next]_vars

-----------------------------------------------------------------------------
(* What must hold.                                                         *)

\* The seats sold: the event counts what its classes count, however requests
\* race (both are incremented in one transaction); and unless requests
\* overlapped they count the bookings that stand, no class and not the event
\* is sold beyond its capacity, and no booking has more tickets than seats,
\* even if issuing them was cut short and repeated.
SeatsSold ==
    /\ event.sold = FoldSeq(LAMBDA c, sum : c.sold + sum, 0, classes)
    /\ ~overlaps =>
           /\ event.sold = FoldSeq(LAMBDA b, sum : IF b.status = "CANCELLED" THEN sum
                                                    ELSE b.quantity + sum, 0, bookings)
           /\ Capacities <= Capacity /\ event.sold <= Capacity
           /\ \A c \in DOMAIN classes : classes[c].sold <= classes[c].capacity
           /\ \A b \in DOMAIN bookings :
                  Cardinality(TicketsOf(b, {"ISSUED", "CHECKED_IN"})) <= bookings[b].quantity

\* Who was let in: unless requests overlapped the event counts each ticket that
\* was CHECKED_IN once, also one of a booking cancelled since, and a booking is
\* CHECKED_IN exactly if it has tickets and all of them are.
Admissions ==
    ~overlaps =>
        /\ event.checkedIn = Cardinality({t \in DOMAIN tickets : tickets[t].status = "CHECKED_IN"})
        /\ \A b \in DOMAIN bookings : bookings[b].status = "CHECKED_IN" <=>
               TicketsOf(b, {"CHECKED_IN"}) # {} /\ TicketsOf(b, {"ISSUED", "CANCELLED"}) = {}

\* The seats as a whole.
SeatsAgree == SeatsSold /\ Admissions

=============================================================================
