-------------------------------- MODULE MCHouse --------------------------------
(***************************************************************************)
(* Twelve parts of the house that share no rows in these models, most with *)
(* two requests that interleave at every database call and a crash: what   *)
(* an order costs (Bill), refunds, events, stock, public bookings, guests' *)
(* feedback, the menu, handoffs, the device registry, a screen of the web  *)
(* client with the guard that serves it (Workstation), the screen that     *)
(* builds an order (OrderBuilder), and the supervisor's over one (Board).  *)
(* A behaviour works on one part and leaves the others as they were, so    *)
(* that their states add up instead of multiplying.                        *)
(***************************************************************************)
EXTENDS Bill, TLC

CONSTANTS p1, p2, t1, t2, s1, b1, b2, g1, g2, a1, d1, d2, d3, d4

MCKinds == {[type |-> "FIXED", value |-> 3], [type |-> "PERCENTAGE", value |-> 50]}
MCTaken == {CHOOSE o \in Orders : TRUE}

\* The requests are interchangeable.
MCSymmetry == Permutations(Requests)

VARIABLES
    part,       \* the part a behaviour works on
    order, pay, refunds, refundReq, refundOverlapped, refundCrashes,
    event, classes, bookings, tickets, eventReq, eventOverlaps, eventArrived, eventCrashes,
    batches, adjusted, stockReq, stockOverlaps, stockArrived, stockCrashes,
    show, profile, holds, lapsed, crowded, guestReq, guestOverlaps, guestArrived, guestCrashes,
    surface, target, reason, key, pending, shown, tried, mail, answer,
    row, writeReq, effects, told, window, sent, writeCrashes, released, switched,
    asked, feedbacks, late, limited, handled, feedCrossed, feedReq, feedArrived, feedCrashes,
    bounds, shelf, sub, links, ingredients, sold, chosen, regrouped, emptied,
    menuCrossed, menuReq, menuArrived, menuCrashes,
    record, seats, splits, flagged, left, handCrossed, handReq, handArrived, handCrashes,
    status, paired, live, routes, history, retired, moved,
    deviceCrossed, deviceDied, deviceReq, deviceArrived, deviceCrashes,
    created, built, creation, choice, screen, queued, latest, editing, call, refreshes,
    abandoned, made, replaced, timedOut, unsure, acts,
    past, cache, floor, online, dialog, boardCall, due, joined, heard, fails

\* Two payments of one order; refunds that wait and refunds that do not.
F == INSTANCE Refunds WITH
         Orders <- MCTaken, Payments <- {p1, p2},
         OrderOf <- [p \in {p1, p2} |-> CHOOSE o \in MCTaken : TRUE],
         Amount <- p1 :> 2 @@ p2 :> 1, RefundAmounts <- {1, 2}, Threshold <- 1, MaxRefunds <- 2,
         req <- refundReq, overlapped <- refundOverlapped, crashes <- refundCrashes

\* Publish, add a class, book, issue and check in take five requests.
E == INSTANCE Events WITH
         Capacity <- 2, ClassCapacities <- {1, 2}, Quantities <- {1, 2},
         MaxClasses <- 2, MaxBookings <- 2, MaxTickets <- 3, MaxArrivals <- 7,
         req <- eventReq, overlaps <- eventOverlaps, arrived <- eventArrived, crashes <- eventCrashes

\* A deduction that takes two batches and leaves part of a third.
S == INSTANCE Stock WITH
         Quantities <- {1, 2}, MaxBatches <- 3, MaxArrivals <- 5,
         req <- stockReq, overlaps <- stockOverlaps, arrived <- stockArrived, crashes <- stockCrashes

\* Two holds, both confirmed, of tickets that together exceed the capacity; and
\* a capacity below what is booked.
G == INSTANCE PublicBooking WITH
         Capacities <- {1, 2}, TicketCounts <- {1, 2}, MaxHolds <- 2, MaxArrivals <- 4,
         event <- show,
         req <- guestReq, overlaps <- guestOverlaps, arrived <- guestArrived, crashes <- guestCrashes

\* A submission and a retry of it, with the target or the reason changed in
\* between or not; "confirm" would do what "move" does and read the body.
W == INSTANCE Workstation WITH
         Surfaces <- {"move", "transfer", "cashier"},
         Targets <- {t1, t2}, Reasons <- {s1}, MaxAttempts <- 2,
         req <- writeReq, crashes <- writeCrashes

\* A token that is looked up, used, and its feedback tagged and resolved.
D == INSTANCE Feedback WITH
         Tags <- {a1}, MaxInvitations <- 1, MaxFeedbacks <- 2, MaxArrivals <- 5,
         invitations <- asked, lapsed <- late,
         req <- feedReq, crossed <- feedCrossed, arrived <- feedArrived, crashes <- feedCrashes

\* A recipe and one that replaces it with another cost; two groups of each kind.
N == INSTANCE Menu WITH
         Shelves <- {b1, b2}, Groups <- {g1, g2}, Limits <- {0, 1, 2},
         Recipes <- {[base |-> 0, option |-> 0], [base |-> 1, option |-> 0],
                     [base |-> 4, option |-> 2]},
         MaxLines <- 2, MaxArrivals <- 3, lines <- sold,
         req <- menuReq, crossed <- menuCrossed, arrived <- menuArrived, crashes <- menuCrashes

\* Two orders made at a table, which may be transferred to another; equal splits
\* and one of a single group.
H == INSTANCE Handoffs WITH
         Tables <- {t1, t2}, SeatOf <- [o \in Orders |-> t1], Servers <- {s1},
         UnitPrice <- 5, Counts <- {2}, Customs <- {<<5>>}, MaxItems <- 1, MaxArrivals <- 2,
         order <- record, table <- seats, answered <- splits,
         req <- handReq, crossed <- handCrossed, arrived <- handArrived, crashes <- handCrashes

\* A printer and a terminal to activate, and two POS to pair it to.
V == INSTANCE Devices WITH
         Printers <- {d1}, Terminals <- {d2}, Posts <- {d3, d4}, Registered <- {d3, d4},
         Stations <- {s1}, MaxRoutes <- 2, MaxArrivals <- 3,
         crossed <- deviceCrossed, died <- deviceDied,
         req <- deviceReq, arrived <- deviceArrived, crashes <- deviceCrashes

\* Two items, chosen while the order is made or later.
R == INSTANCE OrderBuilder WITH
         Picks <- Requests, MaxRefreshes <- 1, MaxActs <- 3, MaxTimeouts <- 1,
         order <- built

\* A complimentary, which needs approval.
O == INSTANCE Board WITH
         Asks <- {[whole |-> TRUE, waits |-> TRUE]},
         MaxChanges <- 2, MaxFails <- 1,
         call <- boardCall, told <- heard

refundVars == <<order, pay, refunds, refundReq, refundOverlapped, refundCrashes>>
eventVars == <<event, classes, bookings, tickets,
               eventReq, eventOverlaps, eventArrived, eventCrashes>>
stockVars == <<batches, adjusted, stockReq, stockOverlaps, stockArrived, stockCrashes>>
guestVars == <<show, profile, holds, lapsed, crowded,
               guestReq, guestOverlaps, guestArrived, guestCrashes>>
screenVars == <<surface, target, reason, key, pending, shown, tried, mail, answer,
                row, writeReq, effects, told, window, sent, writeCrashes, released, switched>>
feedVars == <<asked, feedbacks, late, limited, handled, feedCrossed, feedReq, feedArrived, feedCrashes>>
menuVars == <<bounds, shelf, sub, links, ingredients, sold, chosen, regrouped, emptied,
              menuCrossed, menuReq, menuArrived, menuCrashes>>
handVars == <<record, seats, splits, flagged, left,
              handCrossed, handReq, handArrived, handCrashes>>
deviceVars == <<status, paired, live, routes, history, retired, moved,
                deviceCrossed, deviceDied, deviceReq, deviceArrived, deviceCrashes>>
builderVars == <<created, built, creation, choice, screen, queued, latest, editing, call,
                 refreshes, abandoned, made, replaced, timedOut, unsure, acts>>
boardVars == <<past, cache, floor, online, dialog, boardCall, due, joined, heard, fails>>

houseVars == <<part, vars, refundVars, eventVars, stockVars, guestVars, screenVars,
               feedVars, menuVars, handVars, deviceVars, builderVars, boardVars>>

HouseInit ==
    /\ part = "none"
    /\ Init /\ F!RefundInit /\ E!Init /\ S!Init /\ G!Init /\ W!Init /\ D!Init /\ N!Init /\ H!Init
    /\ V!Init /\ R!Init /\ O!Init

\* The part that moves is chosen once.
Works(p) == part \in {"none", p} /\ part' = p

HouseNext ==
    \/ /\ Works("bill") /\ Next
       /\ UNCHANGED <<refundVars, eventVars, stockVars, guestVars, screenVars, feedVars,
                      menuVars, handVars, deviceVars, builderVars, boardVars>>
    \/ /\ Works("refunds") /\ F!RefundNext
       /\ UNCHANGED <<vars, eventVars, stockVars, guestVars, screenVars, feedVars,
                      menuVars, handVars, deviceVars, builderVars, boardVars>>
    \/ /\ Works("events") /\ E!Next
       /\ UNCHANGED <<vars, refundVars, stockVars, guestVars, screenVars, feedVars,
                      menuVars, handVars, deviceVars, builderVars, boardVars>>
    \/ /\ Works("stock") /\ S!Next
       /\ UNCHANGED <<vars, refundVars, eventVars, guestVars, screenVars, feedVars,
                      menuVars, handVars, deviceVars, builderVars, boardVars>>
    \/ /\ Works("guests") /\ G!Next
       /\ UNCHANGED <<vars, refundVars, eventVars, stockVars, screenVars, feedVars,
                      menuVars, handVars, deviceVars, builderVars, boardVars>>
    \/ /\ Works("screen") /\ W!Next
       /\ UNCHANGED <<vars, refundVars, eventVars, stockVars, guestVars, feedVars,
                      menuVars, handVars, deviceVars, builderVars, boardVars>>
    \/ /\ Works("feedback") /\ D!Next
       /\ UNCHANGED <<vars, refundVars, eventVars, stockVars, guestVars, screenVars,
                      menuVars, handVars, deviceVars, builderVars, boardVars>>
    \/ /\ Works("menu") /\ N!Next
       /\ UNCHANGED <<vars, refundVars, eventVars, stockVars, guestVars, screenVars,
                      feedVars, handVars, deviceVars, builderVars, boardVars>>
    \/ /\ Works("handoffs") /\ H!Next
       /\ UNCHANGED <<vars, refundVars, eventVars, stockVars, guestVars, screenVars,
                      feedVars, menuVars, deviceVars, builderVars, boardVars>>
    \/ /\ Works("devices") /\ V!Next
       /\ UNCHANGED <<vars, refundVars, eventVars, stockVars, guestVars, screenVars,
                      feedVars, menuVars, handVars, builderVars, boardVars>>
    \/ /\ Works("builder") /\ R!Next
       /\ UNCHANGED <<vars, refundVars, eventVars, stockVars, guestVars, screenVars, feedVars,
                      menuVars, handVars, deviceVars, boardVars>>
    \/ /\ Works("board") /\ O!Next
       /\ UNCHANGED <<vars, refundVars, eventVars, stockVars, guestVars, screenVars, feedVars,
                      menuVars, handVars, deviceVars, builderVars>>

HouseSpec == HouseInit /\ [][HouseNext]_houseVars

\* A part is looked at while it works; the others are as they began.
Of(p, I) == part \in {"none", p} => I

\* The rows of all parts have their types (TypeOK of each module).
HouseTypeOK ==
    /\ Of("bill", TypeOK) /\ Of("refunds", F!RefundTypeOK) /\ Of("events", E!TypeOK)
    /\ Of("stock", S!TypeOK) /\ Of("guests", G!TypeOK) /\ Of("screen", W!TypeOK)
    /\ Of("feedback", D!TypeOK) /\ Of("menu", N!TypeOK) /\ Of("handoffs", H!TypeOK)
    /\ Of("devices", V!TypeOK) /\ Of("builder", R!TypeOK)
    /\ Of("board", O!TypeOK)

\* Refunds never exceed a payment, and a payment is REFUNDED once they reach it.
RefundsAgree == Of("refunds", F!RefundsCovered /\ F!RefundedIsMarked)

\* Seats, bookings, tickets and admissions agree (module Events), so do holds
\* and what public events have booked (module PublicBooking), and a feedback
\* token is used once (module Feedback).
GuestsAgree ==
    /\ Of("events", E!SeatsAgree) /\ Of("guests", G!BookingsAgree)
    /\ Of("feedback", D!FeedbackAgrees)

\* Stock on hand agrees with what was received and adjusted (module Stock), what
\* a screen reports with what the server did (module Workstation), the menu with
\* what was assigned to it (module Menu), tables, splits, merges and flags with
\* the orders they are about (module Handoffs), the devices with their history,
\* routes and pairings (module Devices), the screen that builds an order with
\* the order (module OrderBuilder), and what the supervisor's offers and shows with
\* what the server has (module Board).
WorkAgrees ==
    /\ Of("stock", S!StockAgrees) /\ Of("screen", W!SubmissionsAgree)
    /\ Of("menu", N!MenuAgrees) /\ Of("handoffs", H!HandoffsAgree)
    /\ Of("devices", V!DevicesAgree) /\ Of("builder", R!BuilderAgrees)
    /\ Of("board", O!BoardAgrees)

=============================================================================
