----------------------------- MODULE PublicBooking -----------------------------
(***************************************************************************)
(* PublicCommerceService: guests who are not signed in hold a table or     *)
(* tickets of a public event for a quarter of an hour, and confirm the     *)
(* hold.  A hold takes nothing from the event's capacity; confirming it    *)
(* counts its tickets.                                                     *)
(*                                                                         *)
(* A request is a sequence of single database calls; confirming tickets    *)
(* is one transaction that trusts the hold read before it.  One restaurant *)
(* with one event.                                                         *)
(***************************************************************************)
EXTENDS Naturals, Sequences, FiniteSets, SequencesExt

CONSTANTS
    Capacities,     \* the event can be given; 0 is no limit
    TicketCounts,
    Requests,       \* requests in progress at a time
    MaxHolds, MaxArrivals, MaxCrashes   \* bounds

VARIABLES
    event,      \* the public_events row: status, capacity, bookedCount, isFree
    profile,    \* the status of the restaurant's public_profiles row
    holds,      \* reservation_holds (no tickets) and event_booking_holds rows
    lapsed,     \* holds whose expiresAt has passed
    crowded,    \* whether a hold was live when another was made or the capacity changed
    req,        \* req[r]: the request's next call and what it carries
    overlaps,   \* whether two requests were ever in progress at once
    arrived,    \* requests taken
    crashes

vars == <<event, profile, holds, lapsed, crowded, req, overlaps, arrived, crashes>>

\* CANCELLED is a status of holds, but no operation gets there.
HoldStatus == {"HELD", "CONFIRMED", "EXPIRED"}
PC == {"idle", "capacity", "insert", "expire", "confirm"}

\* n is a capacity or a number of tickets.
Idle == [pc |-> "idle", n |-> 0, hold |-> 0]

TypeOK ==
    /\ event \in [status : {"NONE", "DRAFT", "PUBLISHED"}, capacity : Capacities \cup {0},
                booked : Nat, free : BOOLEAN]
    /\ profile \in {"DRAFT", "PUBLISHED"}
    /\ holds \in Seq([tickets : TicketCounts \cup {0}, status : HoldStatus]) /\ Len(holds) <= MaxHolds
    /\ lapsed \subseteq DOMAIN holds
    /\ crowded \in BOOLEAN
    /\ req \in [Requests -> [pc : PC, n : Nat, hold : 0..MaxHolds]]
    /\ overlaps \in BOOLEAN /\ arrived \in 0..MaxArrivals /\ crashes \in 0..MaxCrashes

Init ==
    /\ event = [status |-> "NONE", capacity |-> 0, booked |-> 0, free |-> TRUE]
    /\ profile = "DRAFT"
    /\ holds = <<>> /\ lapsed = {}
    /\ crowded = FALSE
    /\ req = [r \in Requests |-> Idle]
    /\ overlaps = FALSE /\ arrived = 0 /\ crashes = 0

-----------------------------------------------------------------------------
(* Building blocks                                                         *)

Start(r, d) ==
    /\ req[r].pc = "idle"
    /\ arrived < MaxArrivals
    /\ arrived' = arrived + 1
    /\ req' = [req EXCEPT ![r] = d]
    /\ overlaps' = (overlaps \/ \E q \in Requests \ {r} : req[q].pc # "idle")
    /\ UNCHANGED <<event, profile, holds, lapsed, crowded, crashes>>

Finish(r) == req' = [req EXCEPT ![r] = Idle] /\ UNCHANGED <<overlaps, arrived>>

\* Holds of tickets that can still be confirmed.
LiveHolds == {h \in DOMAIN holds \ lapsed : holds[h].status = "HELD" /\ holds[h].tickets > 0}

-----------------------------------------------------------------------------
(* Merchants: createPublicEvent, publishEvent, publishProfile,             *)
(* updateEventPricing, updateEventCapacity                                 *)

CreateEvent(n, free) ==
    /\ event.status = "NONE"
    /\ event' = [status |-> "DRAFT", capacity |-> n, booked |-> 0, free |-> free]
    /\ UNCHANGED <<profile, holds, lapsed, crowded, req, overlaps, arrived, crashes>>

PublishEvent ==
    /\ event.status = "DRAFT"
    /\ event' = [event EXCEPT !.status = "PUBLISHED"]
    /\ UNCHANGED <<profile, holds, lapsed, crowded, req, overlaps, arrived, crashes>>

PublishProfile ==
    /\ profile = "DRAFT"
    /\ profile' = "PUBLISHED"
    /\ UNCHANGED <<event, holds, lapsed, crowded, req, overlaps, arrived, crashes>>

SetFree(free) ==
    /\ event.status # "NONE"
    /\ arrived < MaxArrivals
    /\ arrived' = arrived + 1
    /\ event' = [event EXCEPT !.free = free]
    /\ UNCHANGED <<profile, holds, lapsed, crowded, req, overlaps, crashes>>

\* Mutant: what is booked already is not looked at.
CapacityReadAny(r, n) ==
    /\ event.status # "NONE"
    /\ Start(r, [Idle EXCEPT !.pc = "capacity", !.n = n])

CapacityRead(r, n) ==
    /\ event.status # "NONE"
    /\ n = 0 \/ n >= event.booked
    /\ Start(r, [Idle EXCEPT !.pc = "capacity", !.n = n])

CapacityWrite(r) ==
    /\ req[r].pc = "capacity"
    /\ event' = [event EXCEPT !.capacity = req[r].n]
    /\ crowded' = (crowded \/ LiveHolds # {})
    /\ Finish(r)
    /\ UNCHANGED <<profile, holds, lapsed, crashes>>

-----------------------------------------------------------------------------
(* Guests: holdReservation, holdEventBooking                               *)

HoldTable(r) ==
    /\ profile = "PUBLISHED"
    /\ Start(r, [Idle EXCEPT !.pc = "insert"])

\* The tickets fit beside those that are booked; other holds do not count.
HoldTickets(r, n) ==
    /\ event.status = "PUBLISHED"
    /\ event.capacity > 0 => event.booked + n <= event.capacity
    /\ Start(r, [Idle EXCEPT !.pc = "insert", !.n = n])

InsertHold(r) ==
    /\ req[r].pc = "insert"
    /\ Len(holds) < MaxHolds
    /\ holds' = Append(holds, [tickets |-> req[r].n, status |-> "HELD"])
    /\ crowded' = (crowded \/ LiveHolds # {})
    /\ Finish(r)
    /\ UNCHANGED <<event, profile, lapsed, crashes>>

\* A quarter of an hour passes.
Lapse(h) ==
    /\ holds[h].status = "HELD" /\ h \notin lapsed
    /\ lapsed' = lapsed \cup {h}
    /\ UNCHANGED <<event, profile, holds, crowded, req, overlaps, arrived, crashes>>

-----------------------------------------------------------------------------
(* Guests: confirmReservation, confirmEventBooking                         *)

\* Mutant: a confirmed hold can be confirmed again.
ConfirmReadAgain(r, h) ==
    /\ holds[h].status \in {"HELD", "CONFIRMED"}
    /\ h \notin lapsed /\ holds[h].tickets > 0 => event.free
    /\ Start(r, [Idle EXCEPT !.pc = IF h \in lapsed THEN "expire" ELSE "confirm", !.hold = h])

\* A hold that has lapsed is marked so; tickets of an event that is not free
\* cannot be confirmed.
ConfirmRead(r, h) ==
    /\ holds[h].status = "HELD"
    /\ h \notin lapsed /\ holds[h].tickets > 0 => event.free
    /\ Start(r, [Idle EXCEPT !.pc = IF h \in lapsed THEN "expire" ELSE "confirm", !.hold = h])

Expire(r) ==
    /\ req[r].pc = "expire"
    /\ holds' = [holds EXCEPT ![req[r].hold].status = "EXPIRED"]
    /\ Finish(r)
    /\ UNCHANGED <<event, profile, lapsed, crowded, crashes>>

\* The hold, and the event's count of its tickets, whatever they are by now.
Confirm(r) ==
    /\ req[r].pc = "confirm"
    /\ holds' = [holds EXCEPT ![req[r].hold].status = "CONFIRMED"]
    /\ event' = [event EXCEPT !.booked = @ + holds[req[r].hold].tickets]
    /\ Finish(r)
    /\ UNCHANGED <<profile, lapsed, crowded, crashes>>

-----------------------------------------------------------------------------

Crash(r) ==
    /\ req[r].pc # "idle"
    /\ crashes < MaxCrashes
    /\ crashes' = crashes + 1
    /\ Finish(r)
    /\ UNCHANGED <<event, profile, holds, lapsed, crowded>>

Arrive(r) ==
    \/ \E n \in Capacities : CapacityRead(r, n)
    \/ HoldTable(r)
    \/ \E n \in TicketCounts : HoldTickets(r, n)
    \/ \E h \in DOMAIN holds : ConfirmRead(r, h)

Proceed(r) == CapacityWrite(r) \/ InsertHold(r) \/ Expire(r) \/ Confirm(r)

Next ==
    \/ \E n \in Capacities, free \in BOOLEAN : CreateEvent(n, free)
    \/ PublishEvent \/ PublishProfile
    \/ \E free \in BOOLEAN : SetFree(free)
    \/ \E h \in DOMAIN holds : Lapse(h)
    \/ \E r \in Requests : Arrive(r) \/ Proceed(r) \/ Crash(r)

Spec == Init /\ [][Next]_vars

-----------------------------------------------------------------------------
(* What must hold.                                                         *)

\* The tickets of holds that are CONFIRMED.
ConfirmedTickets ==
    FoldSeq(LAMBDA h, sum : IF h.status = "CONFIRMED" THEN h.tickets + sum ELSE sum, 0, holds)

\* bookedCount is never short of the tickets of confirmed holds, however requests
\* race, and counts each hold once unless they overlapped (a second confirmation
\* that read the hold while it was HELD counts it again).
BookedCounts ==
    /\ event.booked >= ConfirmedTickets
    /\ ~overlaps => event.booked = ConfirmedTickets

\* "capacity-enforced" (holdEventBooking): the event is not booked beyond its
\* capacity, as long as no hold was live when another was made or when the
\* capacity changed, and requests did not overlap.  A hold is checked against
\* what is booked alone, and nothing is checked when it is confirmed.
WithinCapacity ==
    ~overlaps /\ ~crowded /\ event.capacity > 0 => event.booked <= event.capacity

\* A hold that is EXPIRED did lapse, however requests race.
HoldsExpire ==
    \A h \in DOMAIN holds : holds[h].status = "EXPIRED" => h \in lapsed

\* Public bookings as a whole.
BookingsAgree == BookedCounts /\ WithinCapacity /\ HoldsExpire

=============================================================================
