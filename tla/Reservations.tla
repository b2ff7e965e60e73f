---------------------------- MODULE Reservations ----------------------------
(***************************************************************************)
(* ReservationsService: the life of a reservation, its table, its deposits *)
(* and the order that seating it may open.                                 *)
(*                                                                         *)
(* A request is a sequence of single database calls.  Status changes are   *)
(* compare-and-set (applyGuardedTransition), so a request that lost a race *)
(* finds out; every other write is unconditional.                          *)
(***************************************************************************)
EXTENDS Naturals, FiniteSets

CONSTANTS
    Reservations, Tables, Deposits, Orders,  \* rows a behaviour may use
    Requests,       \* requests in progress at a time
    Times,          \* start times of reservations, in hours
    Duration,       \* length of a reservation, in hours (the default is 2)
    None,           \* no table, no order, no reservation
    MaxCrashes      \* bound: requests lost to a crash

ASSUME NoneAssumption ==
    None \notin (Reservations \cup Tables \cup Deposits \cup Orders)
ASSUME TimesAssumption == Times \subseteq Nat /\ Times # {} /\ Duration \in Nat
ASSUME CrashesAssumption == MaxCrashes \in Nat

VARIABLES
    res,        \* reservations rows: status, tableId, reservationAt, seatedOrderId
    reached,    \* reached[v]: every status v has had
    events,     \* events[v][s]: reservation_events rows that report status s
    deposits,   \* reservation_deposits rows: the reservation and its status
    opened,     \* orders rows that seat has inserted
    occupied,   \* tables whose status is OCCUPIED
    req,        \* req[r]: the request's next call and what it carries
    crashes

vars == <<res, reached, events, deposits, opened, occupied, req, crashes>>

VALID_TRANSITIONS == [
    PENDING   |-> {"CONFIRMED", "CANCELLED", "NO_SHOW"},
    CONFIRMED |-> {"SEATED", "CANCELLED", "NO_SHOW"},
    SEATED    |-> {"COMPLETED"},
    COMPLETED |-> {},
    CANCELLED |-> {},
    NO_SHOW   |-> {}]

Status == DOMAIN VALID_TRANSITIONS
ACTIVE_STATUSES == {"PENDING", "CONFIRMED", "SEATED"}
DepositStatus == {"RECEIVED", "REFUNDED", "FORFEITED"}

\* What a cancellation or no-show can ask for the deposits.
Outcomes == {"NO_DEPOSIT", "REFUND", "FORFEIT"}

PC == {"idle", "insert", "cas", "openOrder", "occupy", "deposits", "event",
       "insertDeposit", "checkTable", "writeTable"}

\* A slot's own data.  to is the status the request wants, from the statuses
\* its compare-and-set accepts.
Idle == [pc |-> "idle", of |-> None, to |-> "PENDING", from |-> {}, table |-> None,
         order |-> None, open |-> FALSE, outcome |-> "NO_DEPOSIT", start |-> 0]

TypeOK ==
    /\ res \in [Reservations -> [status : Status \cup {"ABSENT"}, table : Tables \cup {None},
                                 start : Times \cup {0}, order : Orders \cup {None}]]
    /\ reached \in [Reservations -> SUBSET Status]
    /\ events \in [Reservations -> [Status -> Nat]]
    /\ deposits \in [Deposits -> [of : Reservations \cup {None},
                                  status : DepositStatus \cup {"ABSENT"}]]
    /\ opened \subseteq Orders
    /\ occupied \in SUBSET Tables
    /\ req \in [Requests ->
           [pc : PC, of : Reservations \cup {None}, to : Status, from : SUBSET Status,
            table : Tables \cup {None}, order : Orders \cup {None}, open : BOOLEAN,
            outcome : Outcomes, start : Times \cup {0}]]
    /\ crashes \in 0..MaxCrashes

Init ==
    /\ res = [v \in Reservations |->
                 [status |-> "ABSENT", table |-> None, start |-> 0, order |-> None]]
    /\ reached = [v \in Reservations |-> {}]
    /\ events = [v \in Reservations |-> [s \in Status |-> 0]]
    /\ deposits = [d \in Deposits |-> [of |-> None, status |-> "ABSENT"]]
    /\ opened = {}
    /\ occupied = {}
    /\ req = [r \in Requests |-> Idle]
    /\ crashes = 0

-----------------------------------------------------------------------------
(* Building blocks                                                         *)

\* A free slot takes a request.
Start(r, d) == req[r].pc = "idle" /\ req' = [req EXCEPT ![r] = d]

Goto(r, q) == req' = [req EXCEPT ![r] = IF q = "idle" THEN Idle ELSE [@ EXCEPT !.pc = q]]

\* The active reservations of table t whose time overlaps one that starts at
\* start, other than v (checkTableConflict).
Conflicts(t, start, v) ==
    {u \in Reservations \ {v} :
        /\ res[u].status \in ACTIVE_STATUSES
        /\ res[u].table = t
        /\ res[u].start < start + Duration
        /\ res[u].start + Duration > start}

-----------------------------------------------------------------------------
(* create                                                                  *)

\* The conflict check, when a table is asked for ...
CreateCheck(r, v, t, start) ==
    /\ res[v].status = "ABSENT" /\ \A q \in Requests : req[q].of # v
    /\ t # None => Conflicts(t, start, v) = {}
    /\ Start(r, [Idle EXCEPT !.pc = "insert", !.of = v, !.table = t, !.start = start])
    /\ UNCHANGED <<res, reached, events, deposits, opened, occupied, crashes>>

\* ... and the insert.
CreateInsert(r) ==
    LET v == req[r].of IN
    /\ req[r].pc = "insert"
    /\ res' = [res EXCEPT ![v] = [status |-> "PENDING", table |-> req[r].table,
                                  start |-> req[r].start, order |-> None]]
    /\ reached' = [reached EXCEPT ![v] = {"PENDING"}]
    /\ Goto(r, "event")
    /\ UNCHANGED <<events, deposits, opened, occupied, crashes>>

-----------------------------------------------------------------------------
(* The guarded transitions: confirm, seat, cancel, markNoShow, complete    *)

\* Each reads the reservation and asserts the transition.
ConfirmRead(r, v) ==
    /\ res[v].status = "PENDING"
    /\ Start(r, [Idle EXCEPT !.pc = "cas", !.of = v, !.to = "CONFIRMED", !.from = {"PENDING"}])
    /\ UNCHANGED <<res, reached, events, deposits, opened, occupied, crashes>>

\* seat: the given table, or the reservation's own.  A given table is not
\* checked for conflicts.
SeatRead(r, v, given, open) ==
    LET t == IF given # None THEN given ELSE res[v].table IN
    /\ res[v].status = "CONFIRMED"
    /\ t # None
    /\ Start(r, [Idle EXCEPT !.pc = IF open THEN "openOrder" ELSE "cas", !.of = v,
                             !.to = "SEATED", !.from = {"CONFIRMED"}, !.table = t,
                             !.open = open])
    /\ UNCHANGED <<res, reached, events, deposits, opened, occupied, crashes>>

\* ... with the order it opens, ahead of the transition.
OpenOrder(r, o) ==
    /\ req[r].pc = "openOrder"
    /\ o \notin opened
    /\ opened' = opened \cup {o}
    /\ req' = [req EXCEPT ![r] = [@ EXCEPT !.pc = "cas", !.order = o]]
    /\ UNCHANGED <<res, reached, events, deposits, occupied, crashes>>

CancelRead(r, v, to, outcome) ==
    /\ to \in {"CANCELLED", "NO_SHOW"}
    /\ res[v].status \in {"PENDING", "CONFIRMED"}
    /\ Start(r, [Idle EXCEPT !.pc = "cas", !.of = v, !.to = to,
                             !.from = {"PENDING", "CONFIRMED"}, !.outcome = outcome])
    /\ UNCHANGED <<res, reached, events, deposits, opened, occupied, crashes>>

\* complete.  (completeForClosedOrder takes the same steps for the reservation
\* an order is linked to; its one caller is closeOrder, which no route reaches.)
CompleteRead(r, v) ==
    /\ res[v].status = "SEATED"
    /\ Start(r, [Idle EXCEPT !.pc = "cas", !.of = v, !.to = "COMPLETED", !.from = {"SEATED"}])
    /\ UNCHANGED <<res, reached, events, deposits, opened, occupied, crashes>>

\* Mutant: only a seated party is reported.
AfterCasQuiet(r) ==
    CASE req[r].to = "SEATED"              -> "occupy"
      [] req[r].outcome # "NO_DEPOSIT"     -> "deposits"
      [] OTHER                             -> "idle"

\* The step after the transition: a seated party occupies its table, a
\* cancellation settles the deposits if it was asked to, all log an event.
AfterCas(r) ==
    CASE req[r].to = "SEATED"              -> "occupy"
      [] req[r].outcome # "NO_DEPOSIT"     -> "deposits"
      [] OTHER                             -> "event"

\* The row after r's transition: only seat writes the table and the order.
Moved(r, row) ==
    IF req[r].to = "SEATED"
    THEN [row EXCEPT !.status = "SEATED", !.table = req[r].table, !.order = req[r].order]
    ELSE [row EXCEPT !.status = req[r].to]

\* Mutant: every transition writes the request's table and order.
CasOverwrites(r) ==
    LET v == req[r].of IN
    /\ req[r].pc = "cas"
    /\ IF res[v].status \in req[r].from
       THEN /\ res' = [res EXCEPT ![v] = [@ EXCEPT !.status = req[r].to,
                            !.table = req[r].table, !.order = req[r].order]]
            /\ reached' = [reached EXCEPT ![v] = @ \cup {req[r].to}]
            /\ Goto(r, AfterCas(r))
       ELSE Goto(r, "idle") /\ UNCHANGED <<res, reached>>
    /\ UNCHANGED <<events, deposits, opened, occupied, crashes>>

\* Mutant: the update has no status predicate.
CasUnconditional(r) ==
    LET v == req[r].of IN
    /\ req[r].pc = "cas"
    /\ res' = [res EXCEPT ![v] = Moved(r, @)]
    /\ reached' = [reached EXCEPT ![v] = @ \cup {req[r].to}]
    /\ Goto(r, AfterCas(r))
    /\ UNCHANGED <<events, deposits, opened, occupied, crashes>>

\* Mutant: the request does not ask how many rows its update hit.
CasIgnoresCount(r) ==
    LET v == req[r].of IN
    /\ req[r].pc = "cas"
    /\ IF res[v].status \in req[r].from
       THEN /\ res' = [res EXCEPT ![v] = Moved(r, @)]
            /\ reached' = [reached EXCEPT ![v] = @ \cup {req[r].to}]
       ELSE UNCHANGED <<res, reached>>
    /\ Goto(r, AfterCas(r))
    /\ UNCHANGED <<events, deposits, opened, occupied, crashes>>

\* applyGuardedTransition: one conditional update, or none and the request ends.
Cas(r) ==
    LET v == req[r].of IN
    /\ req[r].pc = "cas"
    /\ IF res[v].status \in req[r].from
       THEN /\ res' = [res EXCEPT ![v] = Moved(r, @)]
            /\ reached' = [reached EXCEPT ![v] = @ \cup {req[r].to}]
            /\ Goto(r, AfterCas(r))
       ELSE Goto(r, "idle") /\ UNCHANGED <<res, reached>>
    /\ UNCHANGED <<events, deposits, opened, occupied, crashes>>

\* The seated party's table is OCCUPIED.
Occupy(r) ==
    /\ req[r].pc = "occupy"
    /\ occupied' = occupied \cup {req[r].table}
    /\ Goto(r, "event")
    /\ UNCHANGED <<res, reached, events, deposits, opened, crashes>>

\* Mutant: the deposits take the outcome as it was asked for.
SettleDepositsRaw(r) ==
    /\ req[r].pc = "deposits"
    /\ deposits' = [d \in Deposits |->
           IF deposits[d].of = req[r].of /\ deposits[d].status = "RECEIVED"
           THEN [deposits[d] EXCEPT !.status = req[r].outcome] ELSE deposits[d]]
    /\ Goto(r, "event")
    /\ UNCHANGED <<res, reached, events, opened, occupied, crashes>>

\* handleDepositOutcome: every RECEIVED deposit of the reservation is settled.
SettleDeposits(r) ==
    LET settled == IF req[r].outcome = "REFUND" THEN "REFUNDED" ELSE "FORFEITED" IN
    /\ req[r].pc = "deposits"
    /\ deposits' = [d \in Deposits |->
           IF deposits[d].of = req[r].of /\ deposits[d].status = "RECEIVED"
           THEN [deposits[d] EXCEPT !.status = settled] ELSE deposits[d]]
    /\ Goto(r, "event")
    /\ UNCHANGED <<res, reached, events, opened, occupied, crashes>>

\* The event row that reports the new status.
WriteEvent(r) ==
    /\ req[r].pc = "event"
    /\ events' = [events EXCEPT ![req[r].of][req[r].to] = @ + 1]
    /\ Goto(r, "idle")
    /\ UNCHANGED <<res, reached, deposits, opened, occupied, crashes>>

-----------------------------------------------------------------------------
(* recordDeposit and assignTable.  The events they log may repeat and are  *)
(* left out.                                                               *)

DepositRead(r, v) ==
    /\ res[v].status \notin {"ABSENT", "CANCELLED", "NO_SHOW"}
    /\ Start(r, [Idle EXCEPT !.pc = "insertDeposit", !.of = v])
    /\ UNCHANGED <<res, reached, events, deposits, opened, occupied, crashes>>

InsertDeposit(r, d) ==
    /\ req[r].pc = "insertDeposit"
    /\ deposits[d].status = "ABSENT"
    /\ deposits' = [deposits EXCEPT ![d] = [of |-> req[r].of, status |-> "RECEIVED"]]
    /\ Goto(r, "idle")
    /\ UNCHANGED <<res, reached, events, opened, occupied, crashes>>

AssignRead(r, v, t) ==
    /\ res[v].status \in ACTIVE_STATUSES
    /\ Start(r, [Idle EXCEPT !.pc = "checkTable", !.of = v, !.table = t,
                             !.start = res[v].start])
    /\ UNCHANGED <<res, reached, events, deposits, opened, occupied, crashes>>

AssignCheck(r) ==
    /\ req[r].pc = "checkTable"
    /\ Goto(r, IF Conflicts(req[r].table, req[r].start, req[r].of) = {}
               THEN "writeTable" ELSE "idle")
    /\ UNCHANGED <<res, reached, events, deposits, opened, occupied, crashes>>

\* The table is written whatever the reservation's status is by now.
AssignWrite(r) ==
    /\ req[r].pc = "writeTable"
    /\ res' = [res EXCEPT ![req[r].of].table = req[r].table]
    /\ Goto(r, "idle")
    /\ UNCHANGED <<reached, events, deposits, opened, occupied, crashes>>

-----------------------------------------------------------------------------
(* The environment                                                         *)

\* Staff or an order's end free a table.
FreeTable(t) ==
    /\ t \in occupied
    /\ occupied' = occupied \ {t}
    /\ UNCHANGED <<res, reached, events, deposits, opened, req, crashes>>

\* The process dies under r.
Crash(r) ==
    /\ req[r].pc # "idle"
    /\ crashes < MaxCrashes
    /\ crashes' = crashes + 1
    /\ req' = [req EXCEPT ![r] = Idle]
    /\ UNCHANGED <<res, reached, events, deposits, opened, occupied>>

Arrive(r) ==
    \E v \in Reservations :
        \/ \E t \in Tables \cup {None}, s \in Times : CreateCheck(r, v, t, s)
        \/ ConfirmRead(r, v)
        \/ \E t \in Tables \cup {None}, open \in BOOLEAN : SeatRead(r, v, t, open)
        \/ \E s \in {"CANCELLED", "NO_SHOW"}, x \in Outcomes : CancelRead(r, v, s, x)
        \/ CompleteRead(r, v)
        \/ DepositRead(r, v)
        \/ \E t \in Tables : AssignRead(r, v, t)

Proceed(r) ==
    \/ CreateInsert(r) \/ (\E o \in Orders : OpenOrder(r, o)) \/ Cas(r) \/ Occupy(r)
    \/ SettleDeposits(r) \/ WriteEvent(r)
    \/ (\E d \in Deposits : InsertDeposit(r, d)) \/ AssignCheck(r) \/ AssignWrite(r)

Next ==
    \/ \E r \in Requests : Arrive(r) \/ Proceed(r) \/ Crash(r)
    \/ \E t \in Tables : FreeTable(t)

\* Node runs the continuation of every settled await.
Fairness == \A r \in Requests : WF_vars(Proceed(r))

Spec == Init /\ [][Next]_vars /\ Fairness

-----------------------------------------------------------------------------
(* What must hold.                                                         *)

\* "a stale request can never overwrite a valid later transition and no
\* duplicate lifecycle event is emitted" (applyGuardedTransition): whatever
\* requests race or die, the status moves along VALID_TRANSITIONS, and each
\* status is reported by at most one event, after it was taken.
Promise == INSTANCE Lifecycle WITH
    Things <- Reservations, First <- "PENDING", Absent <- "ABSENT",
    Graph <- VALID_TRANSITIONS,
    status <- [v \in Reservations |-> res[v].status], log <- events

FollowsLifecycle == Promise!LSpec

\* A seated party has a table, and keeps the order it was linked to: of two
\* racing seat requests only the one whose update hit links its order.
SeatedLinked ==
    [][\A v \in Reservations :
           res[v].status \in {"SEATED", "COMPLETED"} =>
               /\ res[v].table # None
               /\ res'[v].order = res[v].order]_vars

\* A deposit is refunded or forfeited only for a reservation that was cancelled
\* or not shown up for: a party that is seated in the race with its no-show
\* keeps its deposit (the count that applyGuardedTransition returns).
DepositKept ==
    \A d \in Deposits :
        deposits[d].status \in {"REFUNDED", "FORFEITED"}
            => reached[deposits[d].of] \cap {"CANCELLED", "NO_SHOW"} # {}

\* Every status a reservation takes is reported in the end, unless a crash
\* took the request between its update and its event.
StatusReported ==
    \A v \in Reservations, s \in Status :
        s \in reached[v] ~> (events[v][s] = 1 \/ crashes > 0)

\* "Table conflict detection prevents double-booking across overlapping
\* reservation windows" (README).
NoDoubleBooking ==
    \A v \in Reservations :
        res[v].status \in ACTIVE_STATUSES /\ res[v].table # None
            => Conflicts(res[v].table, res[v].start, v) = {}

=============================================================================
